------------------------------ MODULE Hart_proofs ------------------------------
(***************************************************************************)
(* The core implements Hart as long as software uses no hardware loops:    *)
(* whatever the memory, the interrupt lines and the debugger do, software  *)
(* sees one instruction after the other.  The inductive invariant, Good,   *)
(* says of each state of the controller what has brought it there, so that *)
(* what it does next is what the hart does.  One lemma for each group of   *)
(* actions shows both: that the step is one of the hart, or none, and that *)
(* the invariant is kept.                                                  *)
(***************************************************************************)
EXTENDS ControlFlow_proofs

(* No instruction of the program sets up a hardware loop.                  *)
LoopFree == \A i \in DOMAIN scenario.code : scenario.code[i].op # "hwloop"

(* No loop is ever set up.                                                *)
NoLoop ==
  /\ \A k \in Loops : hwlp_counter_q[k] = 0
  /\ ctrl_fsm_cs # "DECODE_HWLOOP" /\ hwlp_then = None

(* Flags are set in the states that they are meant for only.               *)
FlagsInState ==
  /\ debug_force_wakeup_q => ctrl_fsm_cs = "DBG_TAKEN_IF"
  /\ debug_req_entry_q => ctrl_fsm_cs \in {"DBG_FLUSH", "DBG_TAKEN_ID"}
  /\ branch_ex # None => ctrl_fsm_cs \in {"DECODE", "DBG_WAIT_BRANCH"}
  /\ instr_valid_id => ctrl_fsm_cs \in {"DECODE", "DBG_FLUSH"}
  /\ csr_ex # None => ctrl_fsm_cs \in {"DECODE", "FLUSH_EX", "DBG_FLUSH"}

(* A CSR instruction in EX changes what debug mode depends on in debug     *)
(* mode only, and lets no interrupt in that the controller does not see.   *)
CsrPending ==
  csr_ex # None =>
    /\ csr.mie => csr_ex.mie
    /\ \/ csr_ex.dcsr = csr.dcsr /\ csr_ex.trigger = csr.trigger
       \/ ctrl_fsm_cs = "FLUSH_EX" /\ insn = Debugger /\ debug_mode_q

(* Behind the instruction in decode comes the next one, or the target of   *)
(* the jump that has been made.                                            *)
NextIs ==
  instr_valid_id =>
    IF jump_done_q THEN insn.op = "jump" /\ pc_if = Target(pc_id, insn)
    ELSE pc_if = Plus(pc_id, 1)

(* What is flushed, and why.                                               *)
Flushed ==
  /\ pc_if = Plus(pc_id, 1)
  /\ debug_mode_q \/ ~trigger_match
  /\ insn \in {Dret, Debugger} => (illegal_insn_q <=> ~debug_mode_q)
  /\ illegal_insn_q => insn \in {Dret, Debugger}
  /\ insn \in {Ebreak, Ecall, Mret, Dret, Wfi, Fencei} \/ csr_status(insn)
  /\ insn = Ebreak => ~debug_mode_q /\ ~ebrk_force_debug_mode
  /\ insn = Wfi => ~debug_mode_q
  /\ single_step => illegal_insn_q \/ insn \in {Ebreak, Ecall, Mret}

History ==
  /\ In({"RESET", "BOOT_SET", "WAIT_SLEEP", "SLEEP"}) => ~debug_mode_q
  /\ In({"FLUSH_EX", "FLUSH_WB"}) => Flushed
  /\ In({"XRET_JUMP"}) => insn = Mret \/ (insn = Dret /\ debug_mode_q)
  /\ In({"DBG_WAIT_BRANCH"}) => single_step /\ ~trigger_match /\ insn.op = "branch"
  /\ In({"DBG_FLUSH"}) => taken_in_id \/ single_step
  /\ In({"DBG_FLUSH", "DBG_TAKEN_ID"}) /\ debug_mode_q => insn = Ebreak
  /\ In({"DBG_TAKEN_IF"}) => ~debug_mode_q /\ (debug_force_wakeup_q \/ single_step)

Course == NoLoop /\ FlagsInState /\ CsrPending /\ NextIs /\ History

Good == Types /\ LoopFree /\ Course
------------------------------------------------------------------------------
(* The state software sees, case by case. *)
ArchPc ==
  /\ In({"RESET", "BOOT_SET"}) => arch_pc = Boot
  /\ In({"WAIT_SLEEP", "SLEEP", "FIRST_FETCH", "DBG_TAKEN_IF"}) => arch_pc = pc_if
  /\ In({"DECODE", "DBG_WAIT_BRANCH"}) /\ branch_ex # None => arch_pc = branch_ex
  /\ In({"DECODE"}) /\ branch_ex = None =>
       arch_pc = IF instr_valid_id THEN pc_id ELSE pc_if
  /\ In({"DBG_WAIT_BRANCH"}) /\ branch_ex = None => arch_pc = pc_if
  /\ In({"FLUSH_EX"}) =>
       arch_pc = IF traps \/ insn \in {Mret, Dret} THEN pc_id ELSE pc_if
  /\ In({"FLUSH_WB"}) =>
       arch_pc = IF traps THEN exception
                 ELSE IF insn \in {Mret, Dret} THEN pc_id ELSE pc_if
  /\ In({"XRET_JUMP"}) => arch_pc = xret_target
  /\ In({"DBG_FLUSH"}) => arch_pc = IF taken_in_id THEN pc_id ELSE pc_if
  /\ In({"DBG_TAKEN_ID"}) => arch_pc = pc_id

ArchFlags ==
  /\ arch_debug \in BOOLEAN /\ arch_stepped \in BOOLEAN
  /\ ~In({"XRET_JUMP"}) => (arch_debug <=> debug_mode_q)
  /\ In({"XRET_JUMP"}) => (arch_debug <=> debug_mode_q /\ insn # Dret)
  /\ In({"RESET", "BOOT_SET", "WAIT_SLEEP", "SLEEP", "FIRST_FETCH", "DECODE",
         "FLUSH_EX", "DBG_TAKEN_ID"}) => ~arch_stepped
  /\ In({"FLUSH_WB"}) => (arch_stepped <=> single_step /\ traps)
  /\ In({"XRET_JUMP"}) => (arch_stepped <=> single_step /\ insn = Mret)
  /\ In({"DBG_WAIT_BRANCH"}) => (arch_stepped <=> single_step)
  /\ In({"DBG_FLUSH"}) => (arch_stepped <=> single_step /\ ~taken_in_id)
  /\ In({"DBG_TAKEN_IF"}) => (arch_stepped <=> single_step /\ ~debug_force_wakeup_q)

LEMMA ArchPcIs == ArchPc
  BY DEF ArchPc, arch_pc, unsettled, In, DecodeStates

LEMMA ArchPcNext == ArchPc'
  BY ArchPcIs, PTL

LEMMA ArchFlagsAre == ArchFlags
  BY DEF ArchFlags, arch_debug, arch_stepped, In

LEMMA ArchFlagsNext == ArchFlags'
  BY ArchFlagsAre, PTL

(* The hart knows the same instructions and CSRs. *)
LEMMA HartIsa ==
  /\ Hart!Ecall = Ecall /\ Hart!Ebreak = Ebreak /\ Hart!Mret = Mret
  /\ Hart!Dret = Dret /\ Hart!Wfi = Wfi /\ Hart!Debugger = Debugger
  /\ Hart!Loops = Loops /\ Hart!DebugModes = DebugModes
  /\ Hart!Boot = Boot /\ Hart!EXCEPTION = EXCEPTION /\ Hart!IRQ = IRQ
  /\ Hart!DEBUG_ROM = DEBUG_ROM /\ Hart!DEBUG_EXCEPTION = DEBUG_EXCEPTION
  /\ Hart!CsrReset = CsrReset
  BY DEF Hart!Ecall, Hart!Ebreak, Hart!Mret, Hart!Dret, Hart!Wfi, Hart!Debugger,
         Ecall, Ebreak, Mret, Dret, Wfi, Debugger, Hart!Plain, Plain, Hart!Loops, Loops,
         Hart!DebugModes, DebugModes, Hart!Boot, Boot, Hart!EXCEPTION, EXCEPTION,
         Hart!IRQ, IRQ, Hart!DEBUG_ROM, DEBUG_ROM, Hart!DEBUG_EXCEPTION,
         DEBUG_EXCEPTION, Hart!CsrReset, CsrReset

LEMMA HartOperators ==
  /\ \A a, n : Hart!Plus(a, n) = Plus(a, n)
  /\ \A a, i : Hart!Target(a, i) = Target(a, i)
  /\ \A c, a : Hart!Trapped(c, a) = Trapped(c, a)
  /\ \A c : Hart!Restored(c) = Restored(c)
  /\ \A c, a, cause : Hart!Halted(c, a, cause) = Halted(c, a, cause)
  BY DEF Hart!Plus, Plus, Hart!SPACE, SPACE, Hart!Target, Target, Hart!Trapped, Trapped,
         Hart!Restored, Restored, Hart!Halted, Halted

LEMMA HartResumed ==
  \A c, mode, trigger : Hart!Resumed(c, mode, trigger) = Resumed(c, mode, trigger)
  BY DEF Hart!Resumed, Resumed, Hart!Plus, Plus, Hart!SPACE, SPACE

(* What the debugger may write by the scenario, it may write at all. *)
LEMMA HartResumptions ==
  ASSUME NEW c, NEW modes, NEW triggers, NEW M, NEW T,
         modes \subseteq M, triggers \subseteq T,
         NEW w \in Resumptions(c, modes, triggers)
  PROVE  w \in Hart!Resumptions(c, M, T)
  <1>1. PICK mode \in modes, trigger \in triggers \cup {None} :
          w = Resumed(c, mode, trigger)
    BY DEF Resumptions
  <1>2. w.trigger # w.dpc
    BY DEF Resumptions
  <1>3. w = Hart!Resumed(c, mode, trigger)
    BY <1>1, HartResumed
  <1>4. mode \in M /\ trigger \in T \cup {None}
    BY <1>1
  <1> QED BY <1>2, <1>3, <1>4 DEF Hart!Resumptions

LEMMA HartWrites ==
  ASSUME NEW c, NEW i, NEW modes, NEW triggers, NEW M, NEW T,
         modes \subseteq M, triggers \subseteq T,
         NEW w \in CsrWrites(c, i, modes, triggers)
  PROVE  w \in Hart!CsrWrites(c, i, M, T)
  <1>1. /\ Hart!EnableIrqs = EnableIrqs /\ Hart!Skip = Skip
        /\ Hart!MaskLine = MaskLine /\ Hart!Debugger = Debugger
    BY DEF Hart!EnableIrqs, EnableIrqs, Hart!Skip, Skip, Hart!MaskLine, MaskLine,
           Hart!Debugger, Debugger, Hart!Plain, Plain
  <1>2. \A a, n : Hart!Plus(a, n) = Plus(a, n)
    BY HartOperators
  <1>3. /\ EnableIrqs # Skip /\ EnableIrqs # MaskLine /\ EnableIrqs # Debugger
        /\ Skip # MaskLine /\ Skip # Debugger /\ MaskLine # Debugger
        /\ EnableIrqs.op # "csrs mie" /\ Skip.op # "csrs mie"
        /\ MaskLine.op # "csrs mie" /\ Debugger.op # "csrs mie"
    BY DEF EnableIrqs, Skip, MaskLine, Debugger, Plain
  <1>4. w \in Resumptions(c, modes, triggers) => w \in Hart!Resumptions(c, M, T)
    BY HartResumptions
  <1>5. \/ i = EnableIrqs /\ w = [c EXCEPT !.mie = TRUE]
        \/ i = Skip /\ w = [c EXCEPT !.mepc = Plus(@, 1)]
        \/ i = MaskLine /\ w = [c EXCEPT !.lines = {}]
        \/ i.op = "csrs mie" /\ w = [c EXCEPT !.lines = @ \cup i.lines]
        \/ i = Debugger /\ w \in Resumptions(c, modes, triggers)
    BY <1>3 DEF CsrWrites
  <1>6. /\ i = EnableIrqs => [c EXCEPT !.mie = TRUE] \in Hart!CsrWrites(c, i, M, T)
        /\ i = Skip => [c EXCEPT !.mepc = Plus(@, 1)] \in Hart!CsrWrites(c, i, M, T)
        /\ i = MaskLine => [c EXCEPT !.lines = {}] \in Hart!CsrWrites(c, i, M, T)
        /\ i.op = "csrs mie" =>
             [c EXCEPT !.lines = @ \cup i.lines] \in Hart!CsrWrites(c, i, M, T)
        /\ i = Debugger => Hart!CsrWrites(c, i, M, T) = Hart!Resumptions(c, M, T)
    BY <1>1, <1>2, <1>3 DEF Hart!CsrWrites
  <1> QED BY <1>4, <1>5, <1>6

LEMMA HartInsn ==
  Hart!insn = Code(scenario.code, arch_pc)
  BY Zenon DEF Hart!insn, Hart!Code, Code, Hart!Within, Within, Hart!At, At,
     Hart!Boot, Boot, Hart!EXCEPTION, EXCEPTION, Hart!sw_irq_handler, sw_irq_handler,
     Hart!IRQ, IRQ, Hart!verification_irq_handler, verification_irq_handler,
     Hart!DEBUG_ROM, DEBUG_ROM, Hart!debug_rom, debug_rom,
     Hart!DEBUG_EXCEPTION, DEBUG_EXCEPTION, Hart!debug_exception, debug_exception,
     Hart!Jump, Jump, Hart!Skip, Skip, Hart!Mret, Mret, Hart!Debugger, Debugger,
     Hart!Dret, Dret, Hart!Ebreak, Ebreak, Hart!Plain, Plain

(* Without loops the hart goes from one instruction to the next one. *)
LEMMA NotHwloop ==
  ASSUME Types, LoopFree
  PROVE  insn.op # "hwloop"
  <1>1. scenario.code \in Seq(Instrs) /\ pc_id \in Address
    BY ScenarioTypes DEF Types, TypeOK
  <1>2. DOMAIN scenario.code = 1 .. Len(scenario.code) /\ Len(scenario.code) \in Nat
    BY <1>1
  <1>3. Within(Boot, scenario.code, pc_id) =>
          At(Boot, scenario.code, pc_id).op # "hwloop"
    BY <1>1, <1>2 DEF LoopFree, Within, At, Boot, Address
  <1>4. /\ Jump(0).op # "hwloop" /\ Jump(1).op # "hwloop" /\ Skip.op # "hwloop"
        /\ Mret.op # "hwloop" /\ Debugger.op # "hwloop" /\ Dret.op # "hwloop"
        /\ Ebreak.op # "hwloop"
    BY DEF Jump, Skip, Mret, Debugger, Dret, Ebreak, Plain
  <1>5. Within(EXCEPTION, sw_irq_handler, pc_id) =>
          At(EXCEPTION, sw_irq_handler, pc_id).op # "hwloop"
    BY <1>1, <1>4 DEF Within, At, EXCEPTION, sw_irq_handler, Address
  <1>6. Within(IRQ, verification_irq_handler, pc_id) =>
          At(IRQ, verification_irq_handler, pc_id).op # "hwloop"
    BY <1>1, <1>4 DEF Within, At, IRQ, verification_irq_handler, Address
  <1>7. Within(DEBUG_ROM, debug_rom, pc_id) =>
          At(DEBUG_ROM, debug_rom, pc_id).op # "hwloop"
    BY <1>1, <1>4 DEF Within, At, DEBUG_ROM, debug_rom, Address
  <1>8. Within(DEBUG_EXCEPTION, debug_exception, pc_id) =>
          At(DEBUG_EXCEPTION, debug_exception, pc_id).op # "hwloop"
    BY <1>1, <1>4 DEF Within, At, DEBUG_EXCEPTION, debug_exception, Address
  <1> QED BY <1>3, <1>4, <1>5, <1>6, <1>7, <1>8 DEF Code, insn

LEMMA NoBody ==
  ASSUME NoLoop
  PROVE  /\ ~is_hwlp_body
         /\ \A k \in Loops : ~hwlp_counter_gt_1(k)
         /\ ctrl_fsm_cs = "DECODE" => (illegal <=> illegal_insn)
  BY DEF NoLoop, is_hwlp_body, hwlp_counter_gt_1, illegal, is_hwlp_illegal

LEMMA HartNoBody ==
  ASSUME NoLoop
  PROVE  /\ \A k \in Loops : ~Hart!AtEnd(k) /\ ~Hart!InBody(k)
         /\ Hart!Illegal <=> Hart!insn \in {Dret, Debugger} /\ ~arch_debug
  <1>1. \A k \in Loops : ~Hart!AtEnd(k) /\ ~Hart!InBody(k)
    BY DEF NoLoop, Hart!AtEnd, Hart!InBody
  <1> QED BY <1>1, HartIsa DEF Hart!Illegal

(* A cycle in which the software sees nothing happen. *)
LEMMA Stutter ==
  ASSUME scenario' = scenario, arch_pc' = arch_pc, csr_n' = csr_n,
         arch_debug' = arch_debug, arch_stepped' = arch_stepped,
         hwlp_start_q' = hwlp_start_q, hwlp_end_q' = hwlp_end_q,
         hwlp_counter_q' = hwlp_counter_q
  PROVE  [Hart!HartNext]_(Hart!hartVars)
  BY DEF Hart!hartVars

LEMMA SameLoops ==
  ASSUME hwlp_start_q' = hwlp_start_q, hwlp_end_q' = hwlp_end_q,
         hwlp_counter_q' = hwlp_counter_q
  PROVE  Hart!SameLoops
  BY DEF Hart!SameLoops
------------------------------------------------------------------------------
(* A cycle in which the loops are left alone. *)
Cycled(in, out) ==
  in \in Inputs /\ out \in Outputs /\ Clock(in, out)
  /\ out.hwlp_end_4 = None /\ out.dec = {}

LEMMA LoopsLeftAlone ==
  ASSUME Good, NEW in, NEW out, Cycled(in, out)
  PROVE  /\ scenario' = scenario /\ LoopFree'
         /\ hwlp_start_q' = hwlp_start_q /\ hwlp_end_q' = hwlp_end_q
         /\ hwlp_counter_q' = hwlp_counter_q
         /\ \A k \in Loops : hwlp_counter_q'[k] = 0
  <1>1. scenario' = scenario /\ LoopFree'
    BY DEF Cycled, Clock, Ungated, LoopFree, Good
  <1>2. (IF insn.op = "hwloop" /\ out.decoding /\ ~out.mask /\ in.id_ready
           THEN insn ELSE None) = None
    BY NotHwloop DEF Good
  <1>3. HwlpClock(None, pc_id, {}, instr_valid_id /\ clear_instr_valid(in, out))
    BY <1>2 DEF Cycled, Clock, LoopRegs
  <1>4. /\ hwlp_start_q' = hwlp_start_q /\ hwlp_end_q' = hwlp_end_q
        /\ hwlp_counter_q' = [k \in Loops |-> hwlp_counter_q[k]]
    BY <1>3 DEF HwlpClock
  <1>5. hwlp_counter_q = [k \in Loops |-> hwlp_counter_q[k]]
    BY DEF Good, Types, TypeOK
  <1> QED BY <1>1, <1>4, <1>5 DEF Good, Course, NoLoop

LEMMA Registers ==
  ASSUME Good, NEW in, NEW out, Cycled(in, out)
  PROVE  /\ ctrl_fsm_cs' = out.ns /\ csr' = out.csr
         /\ jump_done_q' = (out.jump_done /\ ~in.id_ready)
         /\ illegal_insn_q' = out.illegal /\ debug_mode_q' = out.debug_mode
         /\ debug_req_entry_q' = out.debug_req_entry
         /\ debug_force_wakeup_q' = out.debug_force_wakeup
  BY DEF Cycled, Clock

LEMMA Fetched ==
  ASSUME Good, NEW in, NEW out, Cycled(in, out)
  PROVE  /\ hwlp_then' = None
         /\ pc_if' = IF out.pc_set # None THEN out.pc_set
                     ELSE IF handover(in, out) THEN Plus(pc_if, 1) ELSE pc_if
  <1>1. hwlp_then = None
    BY DEF Good, Course, NoLoop
  <1>2. if_stage_i!Issue => hwlp_then' = None /\ pc_if' = Plus(pc_if, 1)
    BY <1>1 DEF if_stage_i!Issue, if_stage_i!Size, if_stage_i!After, Plus
  <1>3. if_stage_i!Wait => pc_if' = pc_if /\ hwlp_then' = None
    BY <1>1 DEF if_stage_i!Wait
  <1>4. if_stage_i!Branch(out.pc_set) => hwlp_then' = None /\ pc_if' = out.pc_set
    BY DEF if_stage_i!Branch
  <1> QED BY <1>2, <1>3, <1>4 DEF Cycled, Clock, Fetch

LEMMA Decodes ==
  ASSUME Good, NEW in, NEW out, Cycled(in, out)
  PROVE  /\ handover(in, out) =>
              /\ instr_valid_id' = TRUE /\ pc_id' = pc_if
              /\ in.id_ready /\ ~out.halt_if /\ out.pc_set = None
         /\ ~handover(in, out) => pc_id' = pc_id /\ insn' = insn
         /\ ~handover(in, out) /\ ~Kept(in, out) => instr_valid_id' = FALSE
         /\ Kept(in, out) => instr_valid_id' = TRUE
         /\ Kept(in, out) =>
              /\ ~in.id_ready /\ ~out.halt_id /\ branch_ex = None
              /\ ~handover(in, out) /\ ~issue(in, out)
  <1>1. scenario' = scenario
    BY LoopsLeftAlone
  <1> QED BY <1>1 DEF Cycled, Clock, IfIdRegs, insn, Kept, clear_instr_valid, handover, issue

LEMMA Issued ==
  ASSUME Good, NEW in, NEW out, Cycled(in, out)
  PROVE  /\ branch_ex' \in IF issue(in, out) /\ insn.op = "branch"
                             THEN {None, Target(pc_id, insn)} ELSE {None}
         /\ csr_ex' = None \/ issue(in, out)
         /\ csr_ex' # None =>
              /\ csr_ex' \in CsrWrites(csr_n, insn, Choices(DebugModes, {"none"}),
                                       Choices(scenario.triggers, {}))
              /\ csr_ex' \in Hart!CsrWrites(csr_n, insn, DebugModes, scenario.triggers)
         /\ csr_ex' = None => csr_n' = out.csr
         /\ csr_ex' # None => csr_n' = csr_ex'
  <1> DEFINE modes == Choices(DebugModes, {"none"})
             triggers == Choices(scenario.triggers, {})
             writes == CsrWrites(csr_n, insn, modes, triggers)
  <1>1. modes \subseteq DebugModes /\ triggers \subseteq scenario.triggers
    BY DEF Choices, DebugModes
  <1>2. csr_ex' \in IF issue(in, out) /\ writes # {} THEN writes ELSE {None}
    BY DEF Cycled, Clock, IdExRegs
  <1>3. \A w \in writes : w \in Hart!CsrWrites(csr_n, insn, DebugModes, scenario.triggers)
    <2> HIDE DEF modes, triggers
    <2> QED BY <1>1, HartWrites
  <1>4. branch_ex' \in IF issue(in, out) /\ insn.op = "branch"
                         THEN {None, Target(pc_id, insn)} ELSE {None}
    BY DEF Cycled, Clock, IdExRegs
  <1>5. csr_n' = IF csr_ex' = None THEN out.csr ELSE csr_ex'
    BY Registers DEF csr_n
  <1> HIDE DEF writes
  <1>6. (csr_ex' = None \/ issue(in, out)) /\ (csr_ex' # None => csr_ex' \in writes)
    BY <1>2
  <1> QED BY <1>3, <1>4, <1>5, <1>6 DEF writes

(* Nothing enters or stays in decode, nothing enters EX. *)
LEMMA Emptied ==
  ASSUME Good, NEW in, NEW out, Cycled(in, out),
         ~handover(in, out), ~Kept(in, out), ~issue(in, out)
  PROVE  /\ instr_valid_id' = FALSE /\ pc_id' = pc_id /\ insn' = insn
         /\ branch_ex' = None /\ csr_ex' = None /\ csr_n' = out.csr
         /\ pc_if' = IF out.pc_set # None THEN out.pc_set ELSE pc_if
         /\ CsrPending' /\ NextIs'
  <1>1. branch_ex' = None
    BY Issued
  <1>2. csr_ex' = None /\ csr_n' = out.csr
    BY Issued
  <1>3. instr_valid_id' = FALSE /\ pc_id' = pc_id /\ insn' = insn
    BY Decodes
  <1> QED BY <1>1, <1>2, <1>3, Fetched DEF CsrPending, NextIs

(* The instruction stays in decode. *)
LEMMA Stays ==
  ASSUME Good, NEW in, NEW out, Cycled(in, out), Kept(in, out)
  PROVE  /\ instr_valid_id' = TRUE /\ pc_id' = pc_id /\ insn' = insn
         /\ branch_ex' = None /\ csr_ex' = None /\ csr_n' = out.csr
         /\ pc_if' = IF out.pc_set # None THEN out.pc_set ELSE pc_if
         /\ jump_done_q' = out.jump_done /\ ~in.id_ready
         /\ CsrPending'
  <1>0. ~handover(in, out) /\ ~issue(in, out) /\ ~in.id_ready
    BY Decodes
  <1>1. branch_ex' = None
    BY <1>0, Issued
  <1>2. csr_ex' = None /\ csr_n' = out.csr
    BY <1>0, Issued
  <1>3. instr_valid_id' = TRUE /\ pc_id' = pc_id /\ insn' = insn
    BY <1>0, Decodes
  <1>4. jump_done_q' = out.jump_done
    BY <1>0, Registers, Fields DEF Cycled
  <1> QED BY <1>0, <1>1, <1>2, <1>3, <1>4, Fetched DEF CsrPending

(* The next instruction enters decode. *)
LEMMA Enters ==
  ASSUME Good, NEW in, NEW out, Cycled(in, out), handover(in, out)
  PROVE  /\ instr_valid_id' = TRUE /\ pc_id' = pc_if /\ pc_if' = Plus(pc_if, 1)
         /\ out.pc_set = None /\ in.id_ready /\ ~out.halt_if
         /\ NextIs'
  <1>1. /\ instr_valid_id' = TRUE /\ pc_id' = pc_if
        /\ in.id_ready /\ ~out.halt_if /\ out.pc_set = None
    BY Decodes
  <1>2. pc_if' = Plus(pc_if, 1)
    BY <1>1, Fetched
  <1>3. jump_done_q' = FALSE
    BY <1>1, Registers
  <1> QED BY <1>1, <1>2, <1>3 DEF NextIs
------------------------------------------------------------------------------
(* The hart goes along. *)
HartStep == [Hart!HartNext]_(Hart!hartVars)

LEMMA Idles ==
  ASSUME Good, NEW in, NEW out, Cycled(in, out), csr_n' = csr_n,
         arch_pc' = arch_pc, arch_debug' <=> arch_debug,
         arch_stepped' <=> arch_stepped
  PROVE  HartStep
  <1>1. arch_debug' = arch_debug /\ arch_stepped' = arch_stepped
    BY ArchFlagsAre, ArchFlagsNext DEF ArchFlags
  <1> QED BY <1>1, LoopsLeftAlone, Stutter DEF HartStep

LEMMA HartSame ==
  ASSUME Good, NEW in, NEW out, Cycled(in, out)
  PROVE  Hart!Unchanged /\ Hart!SameLoops
  BY LoopsLeftAlone, SameLoops DEF Hart!Unchanged

LEMMA Goes ==
  ASSUME Good, NEW in, NEW out, Cycled(in, out), NEW target,
         ~arch_stepped, arch_debug \/ arch_pc # csr_n.trigger,
         arch_pc' = target,
         arch_stepped' <=> csr_n.dcsr = "step" /\ ~arch_debug
  PROVE  Hart!GoTo(target)
  <1>1. arch_stepped' = Hart!stepping
    BY ArchFlagsAre, ArchFlagsNext DEF ArchFlags, Hart!stepping
  <1> QED BY <1>1, HartSame DEF Hart!GoTo

LEMMA GoesOn ==
  ASSUME Good, NEW in, NEW out, Cycled(in, out),
         ~arch_stepped, arch_debug \/ arch_pc # csr_n.trigger,
         arch_pc' = Plus(arch_pc, 1),
         arch_stepped' <=> csr_n.dcsr = "step" /\ ~arch_debug
  PROVE  Hart!Sequential
  <1>1. Hart!GoTo(Hart!Plus(arch_pc, 1))
    BY Goes, HartOperators
  <1>2. \A k \in Hart!Loops : ~Hart!AtEnd(k)
    BY HartNoBody, HartIsa DEF Good, Course
  <1> QED BY <1>1, <1>2, HartSame DEF Hart!Sequential

LEMMA Interrupts ==
  ASSUME Good, NEW in, NEW out, Cycled(in, out), irq_req, ~debug_mode_q,
         ctrl_fsm_cs \in {"FIRST_FETCH", "DECODE"},
         csr_n' = Trapped(csr_n, arch_pc), arch_pc' = IRQ,
         ~arch_stepped', ~arch_debug'
  PROVE  HartStep
  <1>1. csr.mie /\ csr_n.lines # {} /\ csr.dcsr # "step"
    BY DEF irq_req, irq_req_ctrl_o, irq_local_qual, mie_bypass, m_irq_enable
  <1>2. csr_n.mie /\ csr_n.dcsr # "step"
    BY <1>1 DEF Good, Course, CsrPending, csr_n
  <1>3. ~arch_debug /\ ~arch_stepped
    BY ArchFlagsAre DEF ArchFlags, In
  <1>4. arch_debug' = arch_debug /\ arch_stepped' = arch_stepped
    BY <1>3, ArchFlagsAre, ArchFlagsNext DEF ArchFlags
  <1>5. Hart!Interrupt
    BY <1>1, <1>2, <1>3, <1>4, HartSame, HartIsa, HartOperators DEF Hart!Interrupt
  <1> QED BY <1>5 DEF HartStep, Hart!HartNext
------------------------------------------------------------------------------
(* Starting, and waking up. *)
LEMMA NotReady ==
  ASSUME Good, ctrl_fsm_cs \notin {"DECODE", "DBG_FLUSH"}, NEW in, NEW out
  PROVE  ~instr_valid_id /\ ~Kept(in, out)
  BY DEF Good, Course, FlagsInState, Kept

(* The core has just been woken up, or will be. *)
LEMMA Wakes ==
  ASSUME Good, ctrl_fsm_cs \in {"RESET", "BOOT_SET", "WAIT_SLEEP", "SLEEP"},
         NEW in, NEW out, Cycled(in, out), ~handover(in, out),
         out.decoding = FALSE, out.csr = csr_n,
         out.debug_mode = debug_mode_q, out.debug_req_entry = debug_req_entry_q,
         \/ /\ ctrl_fsm_cs = "RESET" /\ out.ns \in {"RESET", "BOOT_SET"}
            /\ out.debug_force_wakeup = debug_force_wakeup_q
         \/ /\ ctrl_fsm_cs = "BOOT_SET" /\ out.pc_set = Boot
            /\ \/ out.ns = "DBG_TAKEN_IF" /\ out.debug_force_wakeup = TRUE
               \/ /\ out.ns = "FIRST_FETCH"
                  /\ out.debug_force_wakeup = debug_force_wakeup_q
         \/ /\ ctrl_fsm_cs \in {"WAIT_SLEEP", "SLEEP"} /\ out.pc_set = None
            /\ \/ out.ns = "DBG_TAKEN_IF" /\ out.debug_force_wakeup = TRUE
               \/ /\ out.ns \in {"SLEEP", "FIRST_FETCH"}
                  /\ out.debug_force_wakeup = debug_force_wakeup_q
  PROVE  HartStep /\ Course'
  <1>1. ~Kept(in, out) /\ ~issue(in, out)
    BY NotReady DEF issue
  <1>2. /\ instr_valid_id' = FALSE /\ branch_ex' = None /\ csr_ex' = None
        /\ csr_n' = csr_n
        /\ pc_if' = IF out.pc_set # None THEN out.pc_set ELSE pc_if
        /\ CsrPending' /\ NextIs'
    BY <1>1, Emptied
  <1>3. /\ ctrl_fsm_cs' = out.ns
        /\ debug_mode_q' = debug_mode_q /\ debug_req_entry_q' = debug_req_entry_q
        /\ debug_force_wakeup_q' = out.debug_force_wakeup
    BY Registers
  <1>4. /\ ~debug_mode_q /\ ~debug_force_wakeup_q /\ ~debug_req_entry_q
    BY DEF Good, Course, FlagsInState, History, In
  <1>5. arch_pc' = arch_pc
    BY <1>2, <1>3, ArchPcIs, ArchPcNext, JumpTypes, NoneAssumption DEF ArchPc, In, Good
  <1>6. ~arch_debug /\ ~arch_stepped /\ ~arch_debug' /\ ~arch_stepped'
    BY <1>3, <1>4, ArchFlagsAre, ArchFlagsNext DEF ArchFlags, In
  <1>7. HartStep
    BY <1>2, <1>5, <1>6, Idles
  <1>8. NoLoop'
    BY <1>3, LoopsLeftAlone, Fetched DEF NoLoop
  <1>9. FlagsInState'
    BY <1>2, <1>3, <1>4 DEF FlagsInState
  <1>10. History'
    BY <1>3, <1>4 DEF History, In
  <1> QED BY <1>2, <1>7, <1>8, <1>9, <1>10 DEF Course

(* What the answers have that nothing else is said of. *)
LEMMA QuietIs ==
  /\ Quiet.req = TRUE /\ Quiet.decoding = FALSE /\ Quiet.dec = {}
  /\ Quiet.jump_done = jump_done_q /\ Quiet.illegal = illegal_insn_q
  /\ Quiet.debug_mode = debug_mode_q /\ Quiet.debug_req_entry = debug_req_entry_q
  /\ Quiet.debug_force_wakeup = debug_force_wakeup_q
  BY DEF Quiet

LEMMA StalledIs ==
  /\ Stalled.req = TRUE /\ Stalled.decoding = FALSE /\ Stalled.dec = {}
  /\ Stalled.jump_done = jump_done_q /\ Stalled.illegal = illegal_insn_q
  /\ Stalled.debug_mode = debug_mode_q /\ Stalled.debug_req_entry = debug_req_entry_q
  /\ Stalled.debug_force_wakeup = debug_force_wakeup_q
  BY DEF Stalled, Quiet

LEMMA DecodedIs ==
  /\ Decoded.req = TRUE /\ Decoded.decoding = TRUE /\ Decoded.dec = {}
  /\ Decoded.jump_done = jump_done_q
  /\ ctrl_fsm_cs = "DECODE" => Decoded.illegal = FALSE
  /\ Decoded.debug_mode = debug_mode_q /\ Decoded.debug_req_entry = debug_req_entry_q
  /\ Decoded.debug_force_wakeup = debug_force_wakeup_q
  BY DEF Decoded, Quiet

LEMMA AwakeIs ==
  ASSUME NEW out \in Outputs
  PROVE  /\ Awake(out).decoding = out.decoding /\ Awake(out).dec = out.dec
         /\ Awake(out).csr = out.csr /\ Awake(out).debug_mode = out.debug_mode
         /\ Awake(out).debug_req_entry = out.debug_req_entry
         /\ \/ /\ Awake(out).ns = "DBG_TAKEN_IF"
               /\ Awake(out).debug_force_wakeup = TRUE
            \/ /\ Awake(out).ns = "FIRST_FETCH"
               /\ Awake(out).debug_force_wakeup = out.debug_force_wakeup
  <1>1. CASE debug_req_pending
    BY <1>1 DEF Awake, Outputs
  <1>2. CASE ~debug_req_pending
    <2>1. (out.debug_force_wakeup \/ debug_req_pending) = out.debug_force_wakeup
      BY <1>2, Fields
    <2> QED BY <1>2, <2>1 DEF Awake, Outputs
  <1> QED BY <1>1, <1>2

LEMMA StartSteps ==
  ASSUME Good, NEW in \in Inputs,
         RESET(in) \/ BOOT_SET(in) \/ WAIT_SLEEP(in) \/ SLEEP(in)
  PROVE  HartStep /\ Course'
  <1>0. Types
    BY DEF Good
  <1>2. CASE RESET(in)
    <2> DEFINE out == [Quiet EXCEPT !.req = FALSE,
                                    !.ns = IF fetch_enable_q THEN "BOOT_SET" ELSE @]
    <2>0. ctrl_fsm_cs = "RESET" /\ Clock(in, out)
      BY <1>2 DEF RESET, In
    <2>1. /\ out.req = FALSE /\ out.hwlp_end_4 = None
          /\ out.dec = {} /\ out.decoding = FALSE /\ out.csr = csr_n
          /\ out.debug_mode = debug_mode_q /\ out.debug_req_entry = debug_req_entry_q
          /\ out.debug_force_wakeup = debug_force_wakeup_q
      BY <1>0, QuietAnswer, QuietIs DEF Outputs
    <2>2. out.ns \in {"RESET", "BOOT_SET"}
      BY <1>0, <2>0, QuietAnswer DEF Outputs
    <2>4. out \in Outputs
      BY <1>0, QuietAnswer DEF Outputs, States
    <2> HIDE DEF out
    <2>3. Cycled(in, out) /\ ~handover(in, out)
      BY <2>0, <2>1, <2>4 DEF Cycled, handover
    <2> QED BY <2>0, <2>1, <2>2, <2>3, Wakes
  <1>3. CASE BOOT_SET(in)
    <2> DEFINE set == [Quiet EXCEPT !.pc_set = Boot]
    <2>0. ctrl_fsm_cs = "BOOT_SET" /\ Clock(in, Awake(set))
      BY <1>3 DEF BOOT_SET, In
    <2>1. /\ set \in Outputs /\ set.hwlp_end_4 = None /\ set.pc_set = Boot
          /\ set.dec = {} /\ set.decoding = FALSE /\ set.csr = csr_n
          /\ set.debug_mode = debug_mode_q /\ set.debug_req_entry = debug_req_entry_q
          /\ set.debug_force_wakeup = debug_force_wakeup_q
      BY <1>0, QuietAnswer, QuietIs, JumpTypes DEF Outputs
    <2> HIDE DEF set
    <2>2. Cycled(in, Awake(set)) /\ ~handover(in, Awake(set))
      BY <1>0, <2>0, <2>1, AwakeAnswer, AwakeIs, JumpTypes, NoneAssumption
         DEF Cycled, handover
    <2> QED BY <1>0, <2>0, <2>1, <2>2, AwakeAnswer, AwakeIs, Wakes
  <1>4. CASE WAIT_SLEEP(in)
    <2> DEFINE out == [Stalled EXCEPT !.busy = FALSE, !.req = FALSE, !.ns = "SLEEP"]
    <2>0. ctrl_fsm_cs = "WAIT_SLEEP" /\ Clock(in, out)
      BY <1>4 DEF WAIT_SLEEP, In
    <2>1. /\ out \in Outputs /\ out.req = FALSE /\ out.hwlp_end_4 = None
          /\ out.dec = {} /\ out.decoding = FALSE /\ out.csr = csr_n
          /\ out.debug_mode = debug_mode_q /\ out.debug_req_entry = debug_req_entry_q
          /\ out.debug_force_wakeup = debug_force_wakeup_q
          /\ out.ns = "SLEEP" /\ out.pc_set = None
      BY <1>0, StalledAnswer, StalledIs DEF Outputs, States
    <2> HIDE DEF out
    <2>3. Cycled(in, out) /\ ~handover(in, out)
      BY <2>0, <2>1 DEF Cycled, handover
    <2> QED BY <2>0, <2>1, <2>3, Wakes
  <1>5. CASE SLEEP(in)
    <2> DEFINE asleep == [Stalled EXCEPT !.req = FALSE]
               quiet == [asleep EXCEPT !.busy = FALSE]
    <2>0. /\ ctrl_fsm_cs = "SLEEP"
          /\ Clock(in, IF wake_from_sleep THEN Awake(asleep) ELSE quiet)
      BY <1>5 DEF SLEEP, In
    <2>1. /\ asleep \in Outputs /\ asleep.req = FALSE /\ asleep.hwlp_end_4 = None
          /\ asleep.dec = {} /\ asleep.decoding = FALSE /\ asleep.csr = csr_n
          /\ asleep.debug_mode = debug_mode_q
          /\ asleep.debug_req_entry = debug_req_entry_q
          /\ asleep.debug_force_wakeup = debug_force_wakeup_q
          /\ asleep.ns = ctrl_fsm_cs /\ asleep.pc_set = None
      BY <1>0, StalledAnswer, StalledIs DEF Outputs
    <2>2. /\ quiet \in Outputs /\ quiet.req = FALSE /\ quiet.hwlp_end_4 = None
          /\ quiet.dec = {} /\ quiet.decoding = FALSE /\ quiet.csr = csr_n
          /\ quiet.debug_mode = debug_mode_q
          /\ quiet.debug_req_entry = debug_req_entry_q
          /\ quiet.debug_force_wakeup = debug_force_wakeup_q
          /\ quiet.ns = ctrl_fsm_cs /\ quiet.pc_set = None
      BY <2>1 DEF Outputs
    <2> HIDE DEF asleep, quiet
    <2>3. Clock(in, Awake(asleep)) \/ Clock(in, quiet)
      BY <2>0
    <2>4. CASE Clock(in, Awake(asleep))
      <3>1. Cycled(in, Awake(asleep)) /\ ~handover(in, Awake(asleep))
        BY <1>0, <2>1, <2>4, AwakeAnswer, AwakeIs DEF Cycled, handover
      <3> QED BY <1>0, <2>0, <2>1, <3>1, AwakeAnswer, AwakeIs, Wakes
    <2>5. CASE Clock(in, quiet)
      <3>1. Cycled(in, quiet) /\ ~handover(in, quiet)
        BY <2>2, <2>5 DEF Cycled, handover
      <3> QED BY <2>0, <2>2, <3>1, Wakes
    <2> QED BY <2>3, <2>4, <2>5
  <1> QED BY <1>2, <1>3, <1>4, <1>5

LEMMA InterruptIs ==
  ASSUME NEW out \in Outputs, NEW pc
  PROVE  /\ InterruptTaken(out, pc).pc_set = IRQ
         /\ InterruptTaken(out, pc).csr = Trapped(out.csr, pc)
         /\ InterruptTaken(out, pc).ns = "DECODE"
         /\ InterruptTaken(out, pc).dec = out.dec
         /\ InterruptTaken(out, pc).debug_mode = out.debug_mode
         /\ InterruptTaken(out, pc).debug_req_entry = out.debug_req_entry
         /\ InterruptTaken(out, pc).debug_force_wakeup = out.debug_force_wakeup
  BY DEF InterruptTaken, Outputs

LEMMA Interrupted ==
  ASSUME Good, ctrl_fsm_cs \in {"FIRST_FETCH", "DECODE"}, branch_ex = None,
         irq_req, ~debug_mode_q, NEW in \in Inputs, NEW out \in Outputs,
         out.hwlp_end_4 = None, out.dec = {}, out.csr = csr_n,
         out.debug_mode = debug_mode_q, out.debug_req_entry = debug_req_entry_q,
         out.debug_force_wakeup = debug_force_wakeup_q,
         Clock(in, InterruptTaken(out, arch_pc))
  PROVE  HartStep /\ Course'
  <1> DEFINE taken == InterruptTaken(out, arch_pc)
  <1>1. arch_pc \in Address
    BY ArchPcIs DEF ArchPc, In, Good, Types, TypeOK
  <1>2. Cycled(in, taken) /\ taken.halt_if = TRUE /\ taken.halt_id = TRUE
    BY <1>1, InterruptAnswer, InterruptIs DEF Cycled, Good
  <1>3. /\ taken.pc_set = IRQ /\ taken.csr = Trapped(csr_n, arch_pc)
        /\ taken.ns = "DECODE" /\ taken.debug_mode = debug_mode_q
        /\ taken.debug_req_entry = debug_req_entry_q
        /\ taken.debug_force_wakeup = debug_force_wakeup_q
    BY InterruptIs
  <1> HIDE DEF taken
  <1>4. ~handover(in, taken) /\ ~Kept(in, taken) /\ ~issue(in, taken)
    BY <1>2 DEF handover, Kept, clear_instr_valid, issue
  <1>5. IRQ # None
    BY JumpTypes, NoneAssumption DEF Good
  <1>6. /\ instr_valid_id' = FALSE /\ branch_ex' = None /\ csr_ex' = None
        /\ csr_n' = Trapped(csr_n, arch_pc) /\ pc_if' = IRQ
        /\ CsrPending' /\ NextIs'
    BY <1>2, <1>3, <1>4, <1>5, Emptied
  <1>7. /\ ctrl_fsm_cs' = "DECODE"
        /\ debug_mode_q' = debug_mode_q /\ debug_req_entry_q' = debug_req_entry_q
        /\ debug_force_wakeup_q' = debug_force_wakeup_q
    BY <1>2, <1>3, Registers
  <1>8. arch_pc' = IRQ /\ ~arch_debug' /\ ~arch_stepped'
    BY <1>6, <1>7, ArchPcNext, ArchFlagsNext DEF ArchPc, ArchFlags, In
  <1>9. HartStep
    BY <1>2, <1>6, <1>8, Interrupts
  <1>10. NoLoop'
    BY <1>2, <1>7, LoopsLeftAlone, Fetched DEF NoLoop
  <1>11. FlagsInState' /\ History'
    BY <1>6, <1>7 DEF FlagsInState, History, In, Good, Course
  <1> QED BY <1>6, <1>9, <1>10, <1>11 DEF Course

(* The next instruction is waited for. *)
LEMMA Awaits ==
  ASSUME Good, ctrl_fsm_cs \in {"FIRST_FETCH", "DECODE"},
         ~instr_valid_id, branch_ex = None, NEW in, NEW out, Cycled(in, out),
         out.ns = "DECODE", out.decoding = FALSE, out.pc_set = None,
         out.csr = csr_n, out.debug_mode = debug_mode_q,
         out.debug_req_entry = debug_req_entry_q,
         out.debug_force_wakeup = debug_force_wakeup_q
  PROVE  HartStep /\ Course'
  <1>1. ~Kept(in, out) /\ ~issue(in, out)
    BY DEF Kept, issue
  <1>2. branch_ex' = None /\ csr_ex' = None /\ csr_n' = csr_n /\ CsrPending'
    BY <1>1, Issued DEF CsrPending
  <1>3. /\ ctrl_fsm_cs' = "DECODE"
        /\ debug_mode_q' = debug_mode_q /\ debug_req_entry_q' = debug_req_entry_q
        /\ debug_force_wakeup_q' = debug_force_wakeup_q
    BY Registers
  <1>4. /\ NextIs'
        /\ IF instr_valid_id' THEN pc_id' = pc_if ELSE pc_if' = pc_if
    <2>1. CASE handover(in, out)
      BY <2>1, Enters
    <2>2. CASE ~handover(in, out)
      BY <1>1, <2>2, Emptied
    <2> QED BY <2>1, <2>2
  <1>5. arch_pc = pc_if /\ arch_pc' = pc_if
    BY <1>2, <1>3, <1>4, ArchPcIs, ArchPcNext DEF ArchPc, In
  <1>6. /\ arch_debug' <=> arch_debug
        /\ ~arch_stepped /\ ~arch_stepped'
    BY <1>3, ArchFlagsAre, ArchFlagsNext DEF ArchFlags, In
  <1>7. HartStep
    BY <1>2, <1>5, <1>6, Idles
  <1>8. NoLoop'
    BY <1>3, LoopsLeftAlone, Fetched DEF NoLoop
  <1>9. FlagsInState' /\ History'
    BY <1>2, <1>3 DEF FlagsInState, History, In, Good, Course
  <1> QED BY <1>2, <1>4, <1>7, <1>8, <1>9 DEF Course

LEMMA FetchSteps ==
  ASSUME Good, NEW in \in Inputs,
         FIRST_FETCH(in) \/ NoInstruction(in) \/ TakeInterrupt(in)
  PROVE  HartStep /\ Course'
  <1>0. Types /\ ctrl_fsm_cs # "DECODE_HWLOOP"
    BY DEF Good, Course, NoLoop
  <1>1. CASE FIRST_FETCH(in)
    <2> DEFINE decode == [Quiet EXCEPT !.ns = "DECODE"]
               taken == InterruptTaken(Quiet, pc_if)
    <2>0. ctrl_fsm_cs = "FIRST_FETCH" /\ ~instr_valid_id /\ branch_ex = None
      BY <1>1 DEF FIRST_FETCH, In, Good, Course, FlagsInState
    <2>1. arch_pc = pc_if
      BY <2>0, ArchPcIs DEF ArchPc, In
    <2>2. IF irq_req /\ ~(debug_req_pending \/ debug_mode_q)
            THEN Clock(in, taken) ELSE Clock(in, decode)
      BY <1>1 DEF FIRST_FETCH
    <2>3. CASE irq_req /\ ~(debug_req_pending \/ debug_mode_q)
      BY <1>0, <2>0, <2>1, <2>2, <2>3, QuietAnswer, QuietIs, Interrupted
    <2>4. CASE ~(irq_req /\ ~(debug_req_pending \/ debug_mode_q))
      <3>1. /\ decode \in Outputs /\ decode.hwlp_end_4 = None /\ decode.dec = {}
            /\ decode.ns = "DECODE" /\ decode.decoding = FALSE
            /\ decode.pc_set = None /\ decode.csr = csr_n
            /\ decode.debug_mode = debug_mode_q
            /\ decode.debug_req_entry = debug_req_entry_q
            /\ decode.debug_force_wakeup = debug_force_wakeup_q
        BY <1>0, QuietAnswer, QuietIs DEF Outputs, States
      <3>2. Clock(in, decode)
        BY <2>2, <2>4
      <3> HIDE DEF decode
      <3>3. Cycled(in, decode)
        BY <3>1, <3>2 DEF Cycled
      <3> QED BY <2>0, <3>1, <3>3, Awaits
    <2> QED BY <2>3, <2>4
  <1>2. CASE NoInstruction(in)
    <2>1. /\ ctrl_fsm_cs = "DECODE" /\ ~instr_valid_id /\ branch_ex = None
          /\ Clock(in, Quiet)
      BY <1>0, <1>2 DEF NoInstruction, In, DecodeStates
    <2>2. Cycled(in, Quiet)
      BY <1>0, <2>1, QuietAnswer, QuietIs DEF Cycled
    <2> QED BY <1>0, <2>1, <2>2, QuietAnswer, QuietIs, Awaits
  <1>3. CASE TakeInterrupt(in)
    <2> DEFINE out == [Decoded EXCEPT !.decoding = FALSE, !.mask = TRUE]
    <2>1. /\ ctrl_fsm_cs = "DECODE" /\ instr_valid_id /\ branch_ex = None
          /\ irq_req /\ ~debug_mode_q /\ Clock(in, InterruptTaken(out, pc_id))
      BY <1>0, <1>3 DEF TakeInterrupt, Decoding, In, DecodeStates
    <2>2. /\ out \in Outputs /\ out.hwlp_end_4 = None /\ out.dec = {}
          /\ out.csr = csr_n /\ out.debug_mode = debug_mode_q
          /\ out.debug_req_entry = debug_req_entry_q
          /\ out.debug_force_wakeup = debug_force_wakeup_q
      BY <1>0, DecodedAnswer, DecodedIs DEF Outputs
    <2> HIDE DEF out
    <2>3. arch_pc = pc_id
      BY <2>1, ArchPcIs DEF ArchPc, In
    <2> QED BY <2>1, <2>2, <2>3, Interrupted
  <1> QED BY <1>1, <1>2, <1>3
------------------------------------------------------------------------------
(* The target of a branch, and the way into debug mode. *)
LEMMA HaltSteps ==
  ASSUME Good, NEW in \in Inputs, BranchTaken(in) \/ HaltForDebug(in)
  PROVE  HartStep /\ Course'
  <1>0. Types /\ ctrl_fsm_cs # "DECODE_HWLOOP"
    BY DEF Good, Course, NoLoop
  <1>1. CASE BranchTaken(in)
    <2> DEFINE out == [Quiet EXCEPT !.pc_set = branch_ex]
    <2>0. ctrl_fsm_cs = "DECODE" /\ branch_ex # None /\ Clock(in, out)
      BY <1>1 DEF BranchTaken, In
    <2>1. /\ out \in Outputs /\ out.hwlp_end_4 = None /\ out.dec = {}
          /\ out.decoding = FALSE /\ out.csr = csr_n /\ out.ns = "DECODE"
          /\ out.pc_set = branch_ex /\ out.debug_mode = debug_mode_q
          /\ out.debug_req_entry = debug_req_entry_q
          /\ out.debug_force_wakeup = debug_force_wakeup_q
      BY <1>0, <2>0, QuietAnswer, QuietIs, JumpTypes DEF Outputs, States
    <2> HIDE DEF out
    <2>2. Cycled(in, out)
      BY <2>0, <2>1 DEF Cycled
    <2>3. ~handover(in, out) /\ ~Kept(in, out) /\ ~issue(in, out)
      BY <2>0, <2>1 DEF handover, Kept, clear_instr_valid, issue
    <2>4. /\ instr_valid_id' = FALSE /\ branch_ex' = None /\ csr_ex' = None
          /\ csr_n' = csr_n /\ pc_if' = branch_ex /\ CsrPending' /\ NextIs'
      BY <2>0, <2>1, <2>2, <2>3, Emptied
    <2>5. /\ ctrl_fsm_cs' = "DECODE"
          /\ debug_mode_q' = debug_mode_q /\ debug_req_entry_q' = debug_req_entry_q
          /\ debug_force_wakeup_q' = debug_force_wakeup_q
      BY <2>1, <2>2, Registers
    <2>6. arch_pc = branch_ex /\ arch_pc' = branch_ex
      BY <2>0, <2>4, <2>5, ArchPcIs, ArchPcNext DEF ArchPc, In
    <2>7. /\ arch_debug' <=> arch_debug
          /\ ~arch_stepped /\ ~arch_stepped'
      BY <2>0, <2>5, ArchFlagsAre, ArchFlagsNext DEF ArchFlags, In
    <2>8. HartStep
      BY <2>2, <2>4, <2>6, <2>7, Idles
    <2>9. NoLoop'
      BY <2>2, <2>5, LoopsLeftAlone, Fetched DEF NoLoop
    <2>10. FlagsInState' /\ History'
      BY <2>0, <2>4, <2>5 DEF FlagsInState, History, In, Good, Course
    <2> QED BY <2>4, <2>8, <2>9, <2>10 DEF Course
  <1>2. CASE HaltForDebug(in)
    <2> DEFINE out == [Decoded EXCEPT !.halt_if = TRUE, !.halt_id = TRUE,
                                      !.ns = "DBG_FLUSH", !.debug_req_entry = TRUE]
    <2>0. /\ ctrl_fsm_cs = "DECODE" /\ branch_ex = None /\ instr_valid_id
          /\ ~debug_mode_q /\ Clock(in, out)
      BY <1>0, <1>2 DEF HaltForDebug, Decoding, halt_for_debug, In, DecodeStates
    <2>1. /\ out \in Outputs /\ out.hwlp_end_4 = None /\ out.dec = {}
          /\ out.halt_if = TRUE /\ out.halt_id = TRUE
          /\ out.csr = csr_n /\ out.ns = "DBG_FLUSH"
          /\ out.pc_set = None /\ out.debug_mode = debug_mode_q
          /\ out.debug_req_entry = TRUE
          /\ out.debug_force_wakeup = debug_force_wakeup_q
      BY <1>0, <2>0, DecodedAnswer, DecodedIs DEF Outputs, States
    <2> HIDE DEF out
    <2>2. Cycled(in, out)
      BY <2>0, <2>1 DEF Cycled
    <2>3. ~handover(in, out) /\ ~Kept(in, out) /\ ~issue(in, out)
      BY <2>0, <2>1 DEF handover, Kept, clear_instr_valid, issue
    <2>4. /\ instr_valid_id' = FALSE /\ branch_ex' = None /\ csr_ex' = None
          /\ csr_n' = csr_n /\ pc_id' = pc_id /\ CsrPending' /\ NextIs'
      BY <2>0, <2>1, <2>2, <2>3, Emptied
    <2>5. /\ ctrl_fsm_cs' = "DBG_FLUSH"
          /\ debug_mode_q' = debug_mode_q /\ debug_req_entry_q' = TRUE
          /\ debug_force_wakeup_q' = debug_force_wakeup_q
      BY <2>1, <2>2, Registers
    <2>6. taken_in_id'
      BY <2>5 DEF taken_in_id
    <2>7. arch_pc = pc_id /\ arch_pc' = pc_id
      BY <2>0, <2>4, <2>5, <2>6, ArchPcIs, ArchPcNext DEF ArchPc, In
    <2>8. /\ arch_debug' <=> arch_debug
          /\ ~arch_stepped /\ ~arch_stepped'
      BY <2>0, <2>5, <2>6, ArchFlagsAre, ArchFlagsNext DEF ArchFlags, In
    <2>9. HartStep
      BY <2>2, <2>4, <2>7, <2>8, Idles
    <2>10. NoLoop'
      BY <2>2, <2>5, LoopsLeftAlone, Fetched DEF NoLoop
    <2>11. FlagsInState'
      BY <2>0, <2>4, <2>5 DEF FlagsInState, In, Good, Course
    <2>12. History'
      BY <2>0, <2>5, <2>6 DEF History, In
    <2> QED BY <2>4, <2>9, <2>10, <2>11, <2>12 DEF Course
  <1> QED BY <1>1, <1>2

(* What is known of an instruction that is executed. *)
LEMMA InDecode ==
  ASSUME Good, Executing
  PROVE  /\ ctrl_fsm_cs = "DECODE" /\ instr_valid_id /\ branch_ex = None
         /\ arch_pc = pc_id /\ Hart!insn = insn
         /\ Hart!Illegal <=> illegal_insn
         /\ ~is_hwlp_body
         /\ illegal <=> illegal_insn
         /\ ~arch_stepped
         /\ arch_debug <=> debug_mode_q
         /\ arch_debug \/ arch_pc # csr_n.trigger
         /\ csr_n.dcsr = csr.dcsr /\ csr_n.trigger = csr.trigger
         /\ csr_n.dcsr = "step" /\ ~arch_debug <=> single_step
         /\ debug_mode_q \/ csr.trigger # pc_id
         /\ ~debug_req_entry_q /\ ~debug_force_wakeup_q
  <1>1. /\ ctrl_fsm_cs = "DECODE" /\ instr_valid_id /\ branch_ex = None
        /\ debug_mode_q \/ csr.trigger # pc_id
    BY DEF Executing, Decoding, halt_for_debug, trigger_match, In, DecodeStates,
           Good, Course, NoLoop
  <1>2. csr_n.dcsr = csr.dcsr /\ csr_n.trigger = csr.trigger
    BY <1>1 DEF csr_n, CsrPending, Good, Course
  <1>3. arch_pc = pc_id /\ Hart!insn = insn
    BY <1>1, ArchPcIs, HartInsn DEF ArchPc, In, insn
  <1>4. ~arch_stepped /\ (arch_debug <=> debug_mode_q)
    BY <1>1, ArchFlagsAre DEF ArchFlags, In
  <1>5. ~is_hwlp_body /\ (illegal <=> illegal_insn)
    BY <1>1, NoBody DEF Good, Course
  <1>6. Hart!Illegal <=> illegal_insn
    BY <1>3, <1>4, HartNoBody DEF Good, Course, illegal_insn, csr_illegal
  <1>7. ~debug_req_entry_q /\ ~debug_force_wakeup_q
    BY <1>1 DEF Good, Course, FlagsInState
  <1> QED BY <1>1, <1>2, <1>3, <1>4, <1>5, <1>6, <1>7 DEF single_step

(* The instruction stays in decode for another cycle. *)
LEMMA Waits ==
  ASSUME Good, Executing, NEW in, NEW out, Cycled(in, out), Kept(in, out),
         out.csr = csr_n, out.debug_mode = debug_mode_q,
         out.debug_req_entry = debug_req_entry_q,
         out.debug_force_wakeup = debug_force_wakeup_q,
         \/ out.ns = "DECODE"
         \/ out.ns = "DBG_FLUSH" /\ insn = Ebreak
            /\ (debug_mode_q \/ ebrk_force_debug_mode),
         \/ out.pc_set = None /\ out.jump_done = jump_done_q
         \/ /\ insn.op = "jump" /\ out.pc_set = Target(pc_id, insn)
            /\ out.pc_set # None /\ out.jump_done = TRUE
  PROVE  HartStep /\ Course'
  <1>1. /\ instr_valid_id' = TRUE /\ pc_id' = pc_id /\ insn' = insn
        /\ branch_ex' = None /\ csr_ex' = None /\ csr_n' = csr_n
        /\ pc_if' = IF out.pc_set # None THEN out.pc_set ELSE pc_if
        /\ jump_done_q' = out.jump_done /\ CsrPending'
    BY Stays
  <1>2. /\ ctrl_fsm_cs' = out.ns /\ csr' = csr_n
        /\ debug_mode_q' = debug_mode_q /\ debug_req_entry_q' = debug_req_entry_q
        /\ debug_force_wakeup_q' = debug_force_wakeup_q
    BY Registers
  <1>3. NextIs'
    BY <1>1, InDecode DEF Good, Course, NextIs, Target
  <1>4. out.ns = "DBG_FLUSH" => taken_in_id'
    BY <1>1, <1>2, InDecode DEF taken_in_id, ebrk_force_debug_mode
  <1>5. arch_pc' = arch_pc
    BY <1>1, <1>2, <1>4, InDecode, ArchPcNext DEF ArchPc, In
  <1>6. (arch_debug' <=> arch_debug) /\ ~arch_stepped'
    BY <1>2, <1>4, InDecode, ArchFlagsNext DEF ArchFlags, In
  <1>7. HartStep
    BY <1>1, <1>5, <1>6, InDecode, Idles
  <1>8. NoLoop'
    BY <1>2, LoopsLeftAlone, Fetched DEF NoLoop
  <1>9. FlagsInState'
    BY <1>1, <1>2, InDecode DEF FlagsInState
  <1>10. History'
    BY <1>1, <1>2, <1>4, InDecode DEF History, In
  <1> QED BY <1>1, <1>3, <1>7, <1>8, <1>9, <1>10 DEF Course
------------------------------------------------------------------------------
(* What the kinds of instructions do to the CSRs and to the next address. *)
Straightforwards == {"alu", "load", "wfi", "fencei"}
Stops == {"ecall", "ebreak", "mret", "dret"}
CsrInsn(i) == i \in {EnableIrqs, Skip, MaskLine, Debugger} \/ i.op = "csrs mie"

LEMMA Kinds ==
  ASSUME NEW i \in Instrs
  PROVE  \/ i.op \in Straightforwards \/ i.op \in {"jump", "branch", "hwloop"}
         \/ i \in {Ecall, Ebreak, Mret, Dret} \/ CsrInsn(i)
  <1>1. CASE i \in {Plain(op) : op \in
              {"alu", "load", "ecall", "ebreak", "mret", "dret", "wfi", "fencei",
               "csrs mstatus.mie", "csrw mepc", "csrc mie", "csrw dcsr"}}
    <2>1. PICK op \in {"alu", "load", "ecall", "ebreak", "mret", "dret", "wfi",
                       "fencei", "csrs mstatus.mie", "csrw mepc", "csrc mie",
                       "csrw dcsr"} : i = Plain(op)
      BY <1>1
    <2>2. Plain(op).op = op
      BY DEF Plain
    <2> QED BY <2>1, <2>2 DEF Straightforwards, CsrInsn, EnableIrqs, Skip, MaskLine,
                              Debugger, Ecall, Ebreak, Mret, Dret
  <1>2. CASE i.op \in {"jump", "branch", "csrs mie", "hwloop"}
    BY <1>2 DEF CsrInsn
  <1>3. \/ i \in {Plain(op) : op \in
              {"alu", "load", "ecall", "ebreak", "mret", "dret", "wfi", "fencei",
               "csrs mstatus.mie", "csrw mepc", "csrc mie", "csrw dcsr"}}
        \/ i.op \in {"jump", "branch", "csrs mie", "hwloop"}
    BY DEF Instrs, Instructions
  <1> QED BY <1>1, <1>2, <1>3

LEMMA PlainOps ==
  ASSUME NEW i \in Instrs
  PROVE  /\ i.op = "fencei" => i = Fencei
         /\ i.op = "mret" => i = Mret
         /\ i.op = "dret" => i = Dret
  <1>1. CASE i \in {Plain(op) : op \in
              {"alu", "load", "ecall", "ebreak", "mret", "dret", "wfi", "fencei",
               "csrs mstatus.mie", "csrw mepc", "csrc mie", "csrw dcsr"}}
    <2>1. PICK op \in {"alu", "load", "ecall", "ebreak", "mret", "dret", "wfi",
                       "fencei", "csrs mstatus.mie", "csrw mepc", "csrc mie",
                       "csrw dcsr"} : i = Plain(op)
      BY <1>1
    <2>2. Plain(op).op = op
      BY DEF Plain
    <2> QED BY <2>1, <2>2 DEF Fencei, Mret, Dret
  <1>2. CASE i.op \in {"jump", "branch", "csrs mie", "hwloop"}
    BY <1>2
  <1>3. \/ i \in {Plain(op) : op \in
              {"alu", "load", "ecall", "ebreak", "mret", "dret", "wfi", "fencei",
               "csrs mstatus.mie", "csrw mepc", "csrc mie", "csrw dcsr"}}
        \/ i.op \in {"jump", "branch", "csrs mie", "hwloop"}
    BY DEF Instrs, Instructions
  <1> QED BY <1>1, <1>2, <1>3

LEMMA PlainKinds ==
  /\ Ecall.op = "ecall" /\ Ebreak.op = "ebreak" /\ Mret.op = "mret" /\ Dret.op = "dret"
  /\ Wfi.op = "wfi" /\ Fencei.op = "fencei"
  /\ \A i \in {EnableIrqs, Skip, MaskLine, Debugger} :
       /\ i.op \notin Straightforwards /\ i.op \notin Stops
       /\ i.op \notin {"jump", "branch", "csrs mie", "hwloop"}
  BY DEF Plain, Straightforwards, Stops, EnableIrqs, Skip, MaskLine, Debugger,
         Ecall, Ebreak, Mret, Dret, Wfi, Fencei

LEMMA CsrKinds ==
  ASSUME NEW i, CsrInsn(i)
  PROVE  /\ i.op \notin Straightforwards /\ i.op \notin Stops
         /\ i.op \notin {"jump", "branch", "hwloop"}
  BY PlainKinds DEF CsrInsn, Straightforwards, Stops

(* What a CSR instruction writes, and that it does. *)
LEMMA WritesAre ==
  ASSUME NEW c \in Csrs, NEW i, NEW modes, NEW triggers,
         NEW w \in CsrWrites(c, i, modes, triggers)
  PROVE  /\ CsrInsn(i) /\ (c.mie => w.mie)
         /\ i # Debugger => w.dcsr = c.dcsr /\ w.trigger = c.trigger
  <1>1. /\ EnableIrqs # Skip /\ EnableIrqs # MaskLine /\ EnableIrqs # Debugger
        /\ Skip # MaskLine /\ Skip # Debugger /\ MaskLine # Debugger
        /\ EnableIrqs.op # "csrs mie" /\ Skip.op # "csrs mie"
        /\ MaskLine.op # "csrs mie" /\ Debugger.op # "csrs mie"
    BY DEF EnableIrqs, Skip, MaskLine, Debugger, Plain
  <1>2. \/ i = EnableIrqs /\ w = [c EXCEPT !.mie = TRUE]
        \/ i = Skip /\ w = [c EXCEPT !.mepc = Plus(@, 1)]
        \/ i = MaskLine /\ w = [c EXCEPT !.lines = {}]
        \/ i.op = "csrs mie" /\ w = [c EXCEPT !.lines = @ \cup i.lines]
        \/ i = Debugger /\ w \in Resumptions(c, modes, triggers)
    BY <1>1 DEF CsrWrites
  <1>3. ASSUME w \in Resumptions(c, modes, triggers)
        PROVE  w.mie = c.mie
    <2>1. PICK mode \in modes, trigger \in triggers \cup {None} :
            w = Resumed(c, mode, trigger)
      BY <1>3 DEF Resumptions
    <2> QED BY <2>1 DEF Resumed, Csrs
  <1> QED BY <1>2, <1>3 DEF CsrInsn, Csrs

LEMMA Writes ==
  ASSUME NEW c \in Csrs, NEW i, NEW modes, NEW triggers, "none" \in modes, CsrInsn(i)
  PROVE  CsrWrites(c, i, modes, triggers) # {}
  <1>1. /\ EnableIrqs # Skip /\ EnableIrqs # MaskLine /\ EnableIrqs # Debugger
        /\ Skip # MaskLine /\ Skip # Debugger /\ MaskLine # Debugger
        /\ EnableIrqs.op # "csrs mie" /\ Skip.op # "csrs mie"
        /\ MaskLine.op # "csrs mie" /\ Debugger.op # "csrs mie"
    BY DEF EnableIrqs, Skip, MaskLine, Debugger, Plain
  <1>2. Resumed(c, "none", None) \in Resumptions(c, modes, triggers)
    <2>1. /\ Resumed(c, "none", None).trigger = None
          /\ Resumed(c, "none", None).dpc \in Address
      BY CsrFields, ResumedTypes DEF DebugModes
    <2> QED BY <2>1, NoneAssumption DEF Resumptions
  <1>3. /\ i = EnableIrqs => [c EXCEPT !.mie = TRUE] \in CsrWrites(c, i, modes, triggers)
        /\ i = Skip => [c EXCEPT !.mepc = Plus(@, 1)] \in CsrWrites(c, i, modes, triggers)
        /\ i = MaskLine => [c EXCEPT !.lines = {}] \in CsrWrites(c, i, modes, triggers)
        /\ i.op = "csrs mie" =>
             [c EXCEPT !.lines = @ \cup i.lines] \in CsrWrites(c, i, modes, triggers)
        /\ i = Debugger => CsrWrites(c, i, modes, triggers) = Resumptions(c, modes, triggers)
    BY <1>1 DEF CsrWrites
  <1> QED BY <1>2, <1>3 DEF CsrInsn

LEMMA IssuedCsr ==
  ASSUME Good, NEW in, NEW out, Cycled(in, out)
  PROVE  /\ csr_ex' # None =>
              /\ CsrInsn(insn) /\ (csr_n.mie => csr_ex'.mie)
              /\ insn # Debugger =>
                   csr_ex'.dcsr = csr_n.dcsr /\ csr_ex'.trigger = csr_n.trigger
         /\ issue(in, out) /\ CsrInsn(insn) => csr_ex' # None
  <1>1. csr_n \in Csrs
    BY CsrTypes DEF Good, Types
  <1> DEFINE modes == Choices(DebugModes, {"none"})
             triggers == Choices(scenario.triggers, {})
             writes == CsrWrites(csr_n, insn, modes, triggers)
  <1>2. csr_ex' # None => csr_ex' \in writes
    BY Issued
  <1>3. "none" \in modes
    BY DEF Choices, DebugModes
  <1>4. writes \subseteq Csrs
    <2>1. modes \in SUBSET DebugModes /\ triggers \in SUBSET Address
      BY ScenarioTypes DEF Choices, DebugModes, Good, Types
    <2> HIDE DEF modes, triggers
    <2> QED BY <1>1, <2>1, InsnTypes, WritesTypes DEF Good
  <1>5. csr_ex' \in IF issue(in, out) /\ writes # {} THEN writes ELSE {None}
    BY DEF Cycled, Clock, IdExRegs
  <1>6. None \notin Csrs
    BY NoneAssumption
  <1> HIDE DEF modes, triggers
  <1>7. CsrInsn(insn) => writes # {}
    BY <1>1, <1>3, Writes
  <1>8. \A w \in writes :
          /\ CsrInsn(insn) /\ (csr_n.mie => w.mie)
          /\ insn # Debugger => w.dcsr = csr_n.dcsr /\ w.trigger = csr_n.trigger
    BY <1>1, WritesAre
  <1> HIDE DEF writes
  <1> QED BY <1>2, <1>4, <1>5, <1>6, <1>7, <1>8
------------------------------------------------------------------------------
(* The instruction is to be flushed, and has no effect before. *)
LEMMA FlushesFirst ==
  ASSUME Good, Executing, NEW in, NEW out, Cycled(in, out),
         ~Kept(in, out), ~handover(in, out),
         out.csr = csr_n, out.debug_mode = debug_mode_q,
         out.debug_req_entry = debug_req_entry_q,
         out.debug_force_wakeup = debug_force_wakeup_q,
         out.ns = "FLUSH_EX", out.pc_set = None, out.illegal <=> illegal_insn,
         \/ illegal_insn \/ insn \in {Ecall, Mret, Dret}
         \/ insn = Ebreak /\ ~debug_mode_q /\ ~ebrk_force_debug_mode
  PROVE  HartStep /\ Course'
  <1>1. illegal_insn => insn \in {Dret, Debugger} /\ ~debug_mode_q
    BY DEF illegal_insn, csr_illegal
  <1>2. insn.op \notin {"jump", "branch"}
    BY <1>1, PlainKinds
  <1>3. illegal_insn \/ ~CsrInsn(insn)
    BY CsrKinds, PlainKinds DEF Stops
  <1>4. branch_ex' = None
    BY <1>2, Issued
  <1>5. csr_ex' = None
    BY <1>3, Issued, IssuedCsr DEF issue
  <1>6. csr_n' = csr_n
    BY <1>5, Issued
  <1>7. instr_valid_id' = FALSE /\ pc_id' = pc_id /\ insn' = insn
    BY Decodes
  <1>8. pc_if' = pc_if /\ pc_if = Plus(pc_id, 1)
    BY <1>2, InDecode, Fetched DEF Good, Course, NextIs
  <1>9. /\ ctrl_fsm_cs' = "FLUSH_EX" /\ csr' = csr_n /\ (illegal_insn_q' <=> illegal_insn)
        /\ debug_mode_q' = debug_mode_q /\ debug_req_entry_q' = debug_req_entry_q
        /\ debug_force_wakeup_q' = debug_force_wakeup_q
    BY Registers
  <1>10. traps' \/ insn' \in {Mret, Dret}
    BY <1>7, <1>9 DEF traps
  <1>11. arch_pc' = arch_pc
    BY <1>7, <1>9, <1>10, InDecode, ArchPcNext DEF ArchPc, In
  <1>12. (arch_debug' <=> arch_debug) /\ ~arch_stepped'
    BY <1>9, InDecode, ArchFlagsNext DEF ArchFlags, In
  <1>13. HartStep
    BY <1>6, <1>11, <1>12, InDecode, Idles
  <1>14. NoLoop'
    BY <1>9, LoopsLeftAlone, Fetched DEF NoLoop
  <1>15. FlagsInState'
    BY <1>4, <1>5, <1>7, <1>9, InDecode DEF FlagsInState
  <1>16. CsrPending' /\ NextIs'
    BY <1>5, <1>7 DEF CsrPending, NextIs
  <1>17. Flushed'
    <2>1. /\ debug_mode_q \/ csr_n.trigger # pc_id
          /\ csr_n.dcsr = csr.dcsr
      BY InDecode
    <2>2. insn \in {Dret, Debugger} => (illegal_insn <=> ~debug_mode_q)
      BY DEF illegal_insn, csr_illegal
    <2>3. insn \in {Ecall, Mret, Dret, Ebreak, Debugger}
      BY <1>1
    <2>4. /\ Ebreak \notin {Dret, Debugger, Wfi, Ecall, Mret} /\ Dret # Wfi /\ Ecall # Wfi
          /\ Mret # Wfi /\ Debugger # Wfi
      BY DEF Ebreak, Dret, Debugger, Wfi, Ecall, Mret, Plain
    <2> QED BY <1>1, <1>7, <1>8, <1>9, <2>1, <2>2, <2>3, <2>4
            DEF Flushed, trigger_match, ebrk_force_debug_mode, single_step, csr_status
  <1>18. History'
    BY <1>9, <1>17 DEF History, In
  <1> QED BY <1>13, <1>14, <1>15, <1>16, <1>18 DEF Course

(* The instruction leaves decode, and is executed as the hart does. *)
LEMMA Executed ==
  ASSUME Good, Executing, ~illegal_insn, insn.op \notin Stops,
         NEW in, NEW out, Cycled(in, out), issue(in, out),
         out.csr = csr_n, out.debug_mode = debug_mode_q,
         out.debug_req_entry = debug_req_entry_q,
         out.debug_force_wakeup = debug_force_wakeup_q, out.illegal = FALSE,
         \/ out.ns = "DECODE" /\ ~single_step /\ ~csr_status(insn)
         \/ /\ out.ns = "FLUSH_EX" /\ ~single_step /\ ~handover(in, out)
            /\ insn = Fencei \/ (insn = Wfi /\ ~debug_mode_q) \/ csr_status(insn)
         \/ /\ out.ns = IF insn.op = "branch" THEN "DBG_WAIT_BRANCH" ELSE "DBG_FLUSH"
            /\ single_step /\ ~handover(in, out),
         \/ /\ insn.op = "jump" /\ out.pc_set = Target(pc_id, insn)
            /\ out.pc_set # None
         \/ /\ out.pc_set = None
            /\ insn.op = "jump" => pc_if = Target(pc_id, insn)
  PROVE  HartStep /\ Course'
  <1> DEFINE next == IF insn.op = "jump" THEN Target(pc_id, insn) ELSE Plus(pc_id, 1)
  <1>1. ~Kept(in, out)
    BY Decodes
  <1>2. insn.op = "jump" \/ pc_if = Plus(pc_id, 1)
    BY InDecode DEF Good, Course, NextIs
  <1>3. /\ ctrl_fsm_cs' = out.ns /\ csr' = csr_n /\ illegal_insn_q' = FALSE
        /\ debug_mode_q' = debug_mode_q /\ debug_req_entry_q' = debug_req_entry_q
        /\ debug_force_wakeup_q' = debug_force_wakeup_q
    BY Registers
  <1>4. branch_ex' \in {None, Target(pc_id, insn)}
        /\ (insn.op # "branch" => branch_ex' = None)
    BY Issued
  <1>5. IF handover(in, out) THEN instr_valid_id' /\ pc_id' = next /\ out.ns = "DECODE"
        ELSE ~instr_valid_id' /\ pc_if' = next /\ pc_id' = pc_id /\ insn' = insn
    BY <1>1, <1>2, Enters, Decodes, Fetched DEF Target
  <1>6. NextIs'
    BY <1>1, <1>5, Enters DEF NextIs
  <1> HIDE DEF next
  <1>7. /\ ~debug_req_entry_q /\ ~debug_force_wakeup_q
        /\ single_step => ~debug_mode_q
        /\ single_step => csr.dcsr = "step"
        /\ csr_n.dcsr = csr.dcsr /\ csr_n.trigger = csr.trigger
        /\ debug_mode_q \/ csr_n.trigger # pc_id
    BY InDecode DEF single_step
  <1>8. insn \notin {Ebreak, Ecall, Mret, Dret}
    BY PlainKinds DEF Stops
  <1>9. out.ns \in {"DBG_FLUSH", "DBG_WAIT_BRANCH"} =>
          ~taken_in_id' /\ single_step' /\ ~debug_mode_q' /\ ~trigger_match'
    <2> SUFFICES ASSUME out.ns \in {"DBG_FLUSH", "DBG_WAIT_BRANCH"}
                 PROVE  ~taken_in_id' /\ single_step' /\ ~debug_mode_q' /\ ~trigger_match'
      OBVIOUS
    <2>1. single_step /\ pc_id' = pc_id
      BY <1>5
    <2> QED BY <1>3, <1>7, <2>1 DEF taken_in_id, single_step, trigger_match,
                                    ebrk_force_debug_mode
  <1>10. out.ns = "FLUSH_EX" => ~traps' /\ insn' \notin {Mret, Dret}
    BY <1>3, <1>5, <1>8 DEF traps
  <1>11. arch_pc' = IF branch_ex' # None THEN branch_ex' ELSE next
    <2>1. CASE out.ns = "DECODE"
      BY <1>3, <1>5, <2>1, ArchPcNext DEF ArchPc, In
    <2>2. CASE out.ns = "FLUSH_EX"
      <3>1. insn.op # "branch"
        BY <2>2, PlainKinds DEF csr_status
      <3> QED BY <1>3, <1>4, <1>5, <1>10, <2>2, <3>1, ArchPcNext DEF ArchPc, In
    <2>3. CASE out.ns \in {"DBG_FLUSH", "DBG_WAIT_BRANCH"}
      <3>1. out.ns = "DBG_WAIT_BRANCH" <=> insn.op = "branch"
        BY <2>3
      <3> QED BY <1>3, <1>4, <1>5, <1>9, <2>3, <3>1, ArchPcNext DEF ArchPc, In
    <2> QED BY <2>1, <2>2, <2>3
  <1>12. /\ arch_debug' <=> arch_debug
         /\ arch_stepped' <=> csr_n.dcsr = "step" /\ ~arch_debug
    BY <1>3, <1>9, InDecode, ArchFlagsNext DEF ArchFlags, In
  <1>13. arch_debug' = arch_debug
    BY <1>12, ArchFlagsAre, ArchFlagsNext DEF ArchFlags
  <1>14. insn \in Instrs /\ insn.op # "hwloop"
    BY InsnTypes, NotHwloop DEF Good
  <1>15. ~Hart!Illegal /\ Hart!insn = insn
    BY InDecode
  <1>16. ASSUME insn.op \in Straightforwards PROVE HartStep
    <2>1. branch_ex' = None /\ csr_ex' = None
      BY <1>4, <1>16, IssuedCsr, CsrKinds DEF Straightforwards
    <2>2. csr_n' = csr_n /\ arch_pc' = Plus(arch_pc, 1)
      BY <1>11, <1>16, <2>1, InDecode, Issued DEF next, Straightforwards
    <2>3. Hart!Sequential
      BY <1>12, <2>2, InDecode, GoesOn
    <2>4. Hart!Straightforward
      BY <1>13, <1>15, <1>16, <2>2, <2>3 DEF Hart!Straightforward, Straightforwards
    <2> QED BY <2>4 DEF HartStep, Hart!HartNext
  <1>17. ASSUME CsrInsn(insn) PROVE HartStep
    <2>1. branch_ex' = None /\ csr_ex' # None
      BY <1>4, <1>17, IssuedCsr, CsrKinds
    <2>2. /\ csr_n' \in Hart!CsrWrites(csr_n, insn, DebugModes, scenario.triggers)
          /\ arch_pc' = Plus(arch_pc, 1)
      BY <1>11, <1>17, <2>1, InDecode, Issued, CsrKinds DEF next
    <2>3. Hart!Sequential
      BY <1>12, <2>2, InDecode, GoesOn
    <2>4. Hart!WriteCsr
      BY <1>13, <1>15, <2>2, <2>3, HartIsa DEF Hart!WriteCsr
    <2> QED BY <2>4 DEF HartStep, Hart!HartNext
  <1>18. ASSUME insn.op \in {"jump", "branch"} PROVE HartStep
    <2>1. csr_ex' = None /\ csr_n' = csr_n
      BY <1>18, IssuedCsr, CsrKinds, Issued
    <2>2. \/ arch_pc' = Target(arch_pc, insn)
          \/ insn.op = "branch" /\ arch_pc' = Plus(arch_pc, 1)
      BY <1>4, <1>11, <1>18, InDecode DEF next
    <2>3. \/ Hart!GoTo(Target(arch_pc, insn))
          \/ insn.op = "branch" /\ Hart!GoTo(Plus(arch_pc, 1))
      BY <1>12, <2>2, InDecode, Goes
    <2>4. Hart!JumpTo
      BY <1>13, <1>15, <1>18, <2>1, <2>3, HartSame, HartOperators DEF Hart!JumpTo
    <2> QED BY <2>4 DEF HartStep, Hart!HartNext
  <1>19. HartStep
    BY <1>8, <1>14, <1>16, <1>17, <1>18, Kinds
  <1>20. NoLoop'
    BY <1>3, LoopsLeftAlone, Fetched DEF NoLoop
  <1>21. csr_ex' # None => out.ns # "DBG_WAIT_BRANCH"
    BY IssuedCsr, CsrKinds
  <1>22. branch_ex' # None => out.ns \in {"DECODE", "DBG_WAIT_BRANCH"}
    BY <1>4, PlainKinds DEF csr_status
  <1>23. FlagsInState'
    BY <1>3, <1>5, <1>7, <1>21, <1>22 DEF FlagsInState
  <1>24. CsrPending'
    <2> SUFFICES ASSUME csr_ex' # None
                 PROVE  /\ csr_n.mie => csr_ex'.mie
                        /\ \/ csr_ex'.dcsr = csr_n.dcsr /\ csr_ex'.trigger = csr_n.trigger
                           \/ out.ns = "FLUSH_EX" /\ insn' = Debugger /\ debug_mode_q
      BY <1>3 DEF CsrPending
    <2>1. insn = Debugger => debug_mode_q
      BY DEF illegal_insn, csr_illegal
    <2>2. insn = Debugger => out.ns = "FLUSH_EX" /\ insn' = insn
      BY <1>5, <1>7, <2>1 DEF csr_status
    <2> QED BY <2>1, <2>2, IssuedCsr
  <1>25. out.ns = "FLUSH_EX" => Flushed'
    <2> SUFFICES ASSUME out.ns = "FLUSH_EX" PROVE Flushed'
      OBVIOUS
    <2>1. ~handover(in, out) /\ pc_id' = pc_id /\ insn' = insn /\ ~single_step
          /\ (insn = Fencei \/ (insn = Wfi /\ ~debug_mode_q) \/ csr_status(insn))
      BY <1>5
    <2>2. pc_if' = Plus(pc_id, 1)
      BY <1>5, <2>1, PlainKinds DEF next, csr_status
    <2>3. ~single_step'
      BY <1>3, <1>7, <2>1 DEF single_step
    <2>4. insn \in {Dret, Debugger} => debug_mode_q
      BY <1>8 DEF illegal_insn, csr_illegal
    <2>5. Fencei # Wfi /\ ~csr_status(Wfi)
      BY DEF Fencei, Wfi, csr_status, EnableIrqs, Skip, Debugger, Plain
    <2> QED BY <1>3, <1>7, <1>8, <2>1, <2>2, <2>3, <2>4, <2>5
            DEF Flushed, trigger_match, csr_status
  <1>26. History'
    <2>1. out.ns = "DBG_WAIT_BRANCH" => insn'.op = "branch"
      BY <1>5
    <2> QED BY <1>3, <1>9, <1>25, <2>1 DEF History, In
  <1> QED BY <1>6, <1>19, <1>20, <1>23, <1>24, <1>26 DEF Course
------------------------------------------------------------------------------
(* What the answers to an instruction have in common. *)
Answers(out) ==
  /\ out \in Outputs /\ out.hwlp_end_4 = None /\ out.dec = {}
  /\ out.decoding = TRUE /\ out.halt_id = FALSE /\ out.csr = csr_n
  /\ out.debug_mode = debug_mode_q /\ out.debug_req_entry = debug_req_entry_q
  /\ out.debug_force_wakeup = debug_force_wakeup_q

(* The answer, with what single-stepping adds to it. *)
Stepped(in, out, o) ==
  /\ Answers(o) /\ Cycled(in, o)
  /\ o.pc_set = out.pc_set /\ o.jump_done = out.jump_done /\ o.illegal = out.illegal
  /\ single_step =>
       o.halt_if = TRUE /\ o.ns = IF in.id_ready THEN step_ns ELSE out.ns
  /\ ~single_step => o.halt_if = out.halt_if /\ o.ns = out.ns

LEMMA StepNs ==
  /\ step_ns \in States
  /\ illegal_insn \/ insn \in {Ecall, Mret} \/ (insn = Ebreak /\ ~ebrk_force_debug_mode)
       => step_ns = "FLUSH_EX"
  /\ ~illegal_insn /\ insn.op \notin Stops =>
       step_ns = IF insn.op = "branch" THEN "DBG_WAIT_BRANCH" ELSE "DBG_FLUSH"
  <1>1. /\ Ecall.op = "ecall" /\ Mret.op = "mret" /\ Ebreak.op = "ebreak"
    BY PlainKinds
  <1>2. illegal_insn => insn.op # "branch"
    BY PlainKinds DEF illegal_insn, csr_illegal
  <1> QED BY <1>1, <1>2 DEF step_ns, States, Stops

LEMMA Executes ==
  ASSUME Good, Executing, NEW in \in Inputs, NEW out, Answers(out), Execute(in, out)
  PROVE  \E o : Stepped(in, out, o)
  <1> DEFINE stepped == [out EXCEPT !.halt_if = TRUE,
                                    !.ns = IF in.id_ready THEN step_ns ELSE @]
  <1>1. /\ single_step => Clock(in, stepped)
        /\ ~single_step => Clock(in, out)
    BY DEF Execute
  <1>2. CASE single_step
    <2>1. out \in Outputs /\ step_ns \in States
      BY StepNs DEF Answers
    <2>2. /\ Answers(stepped) /\ stepped.halt_if = TRUE
          /\ stepped.ns = IF in.id_ready THEN step_ns ELSE out.ns
          /\ stepped.pc_set = out.pc_set /\ stepped.jump_done = out.jump_done
          /\ stepped.illegal = out.illegal
      BY <2>1 DEF Answers, Outputs
    <2> HIDE DEF stepped
    <2> QED BY <1>1, <1>2, <2>2 DEF Stepped, Cycled, Answers
  <1>3. CASE ~single_step
    BY <1>1, <1>3 DEF Stepped, Cycled, Answers
  <1> QED BY <1>2, <1>3

(* It waits in decode, or it enters EX. *)
LEMMA WaitsOrLeaves ==
  ASSUME Good, Executing, NEW in, NEW out, NEW o, Stepped(in, out, o)
  PROVE  /\ ~in.id_ready => Kept(in, o) /\ o.ns = out.ns
         /\ in.id_ready => ~Kept(in, o)
         /\ in.id_ready /\ ~illegal_insn => issue(in, o)
         /\ out.halt_if = TRUE \/ single_step => ~handover(in, o)
  BY InDecode DEF Stepped, Answers, Kept, clear_instr_valid, issue, handover

LEMMA FlushingAnswers ==
  ASSUME Good, Executing, NEW in \in Inputs
  PROVE  /\ Answers(Flushing(in)) /\ Answers([Flushing(in) EXCEPT !.illegal = TRUE])
         /\ FlushingNow(in) = Flushing(in)
         /\ Flushing(in).halt_if = TRUE /\ Flushing(in).pc_set = None
         /\ Flushing(in).jump_done = jump_done_q /\ Flushing(in).illegal = FALSE
         /\ Flushing(in).ns = IF in.id_ready THEN "FLUSH_EX" ELSE "DECODE"
         /\ Answers(Decoded) /\ Decoded.pc_set = None /\ Decoded.ns = "DECODE"
         /\ Decoded.jump_done = jump_done_q /\ Decoded.illegal = FALSE
  <1>1. /\ Answers(Decoded) /\ Decoded.pc_set = None /\ Decoded.ns = "DECODE"
        /\ Decoded.jump_done = jump_done_q /\ Decoded.illegal = FALSE
    BY InDecode, DecodedAnswer, DecodedIs DEF Answers, Good
  <1>2. /\ Answers(Flushing(in))
        /\ Flushing(in).halt_if = TRUE /\ Flushing(in).pc_set = None
        /\ Flushing(in).jump_done = jump_done_q /\ Flushing(in).illegal = FALSE
        /\ Flushing(in).ns = IF in.id_ready THEN "FLUSH_EX" ELSE "DECODE"
    BY <1>1 DEF Answers, Flushing, Outputs, States
  <1>3. Answers([Flushing(in) EXCEPT !.illegal = TRUE])
    BY <1>2 DEF Answers, Outputs
  <1>4. FlushingNow(in) = Flushing(in)
    BY InDecode DEF FlushingNow, In
  <1> QED BY <1>1, <1>2, <1>3, <1>4

(* An instruction that is flushed before it has any effect. *)
LEMMA FlushesSteps ==
  ASSUME Good, Executing, NEW in \in Inputs, NEW out, Answers(out), Execute(in, out),
         out.halt_if = TRUE, out.pc_set = None, out.jump_done = jump_done_q,
         out.ns = IF in.id_ready THEN "FLUSH_EX" ELSE "DECODE",
         out.illegal <=> illegal_insn,
         \/ illegal_insn \/ insn \in {Ecall, Mret, Dret}
         \/ insn = Ebreak /\ ~debug_mode_q /\ ~ebrk_force_debug_mode
  PROVE  HartStep /\ Course'
  <1>1. PICK o : Stepped(in, out, o)
    BY Executes
  <1>2. CASE ~in.id_ready
    <2>1. Kept(in, o) /\ o.ns = "DECODE"
      BY <1>1, <1>2, WaitsOrLeaves
    <2> QED BY <1>1, <2>1, Waits DEF Stepped, Answers
  <1>3. CASE in.id_ready
    <2>1. ~Kept(in, o) /\ ~handover(in, o)
      BY <1>1, <1>3, WaitsOrLeaves
    <2>2. insn = Dret /\ ~illegal_insn => ~single_step
      BY DEF illegal_insn, single_step
    <2>3. o.ns = "FLUSH_EX"
      BY <1>1, <1>3, <2>2, StepNs DEF Stepped
    <2> QED BY <1>1, <2>1, <2>3, FlushesFirst DEF Stepped, Answers
  <1> QED BY <1>2, <1>3

(* An instruction that is executed. *)
LEMMA ExecutesSteps ==
  ASSUME Good, Executing, ~illegal_insn, insn.op \notin Stops,
         NEW in \in Inputs, NEW out, Answers(out), Execute(in, out),
         out.illegal = FALSE,
         \/ out.ns = "DECODE" /\ ~csr_status(insn)
         \/ /\ out.ns = IF in.id_ready THEN "FLUSH_EX" ELSE "DECODE"
            /\ out.halt_if = TRUE
            /\ insn = Fencei \/ (insn = Wfi /\ ~debug_mode_q) \/ csr_status(insn),
         \/ /\ insn.op = "jump" /\ out.pc_set = Target(pc_id, insn)
            /\ out.pc_set # None /\ out.jump_done = TRUE
         \/ /\ out.pc_set = None /\ out.jump_done = jump_done_q
            /\ insn.op = "jump" /\ in.id_ready => jump_done_q
  PROVE  HartStep /\ Course'
  <1>1. PICK o : Stepped(in, out, o)
    BY Executes
  <1>2. CASE ~in.id_ready
    <2>1. Kept(in, o) /\ o.ns = "DECODE"
      BY <1>1, <1>2, WaitsOrLeaves
    <2> QED BY <1>1, <2>1, Waits DEF Stepped, Answers
  <1>3. CASE in.id_ready
    <2>1. /\ issue(in, o)
          /\ out.halt_if = TRUE \/ single_step => ~handover(in, o)
      BY <1>1, <1>3, WaitsOrLeaves
    <2>2. insn.op = "jump" /\ jump_done_q => pc_if = Target(pc_id, insn)
      BY InDecode DEF Good, Course, NextIs
    <2>3. step_ns = IF insn.op = "branch" THEN "DBG_WAIT_BRANCH" ELSE "DBG_FLUSH"
      BY StepNs
    <2>4. /\ Cycled(in, o) /\ o.csr = csr_n /\ o.debug_mode = debug_mode_q
          /\ o.debug_req_entry = debug_req_entry_q
          /\ o.debug_force_wakeup = debug_force_wakeup_q /\ o.illegal = FALSE
      BY <1>1 DEF Stepped, Answers
    <2>5. \/ o.ns = "DECODE" /\ ~single_step /\ ~csr_status(insn)
          \/ /\ o.ns = "FLUSH_EX" /\ ~single_step /\ ~handover(in, o)
             /\ insn = Fencei \/ (insn = Wfi /\ ~debug_mode_q) \/ csr_status(insn)
          \/ /\ o.ns = IF insn.op = "branch" THEN "DBG_WAIT_BRANCH" ELSE "DBG_FLUSH"
             /\ single_step /\ ~handover(in, o)
      BY <1>1, <1>3, <2>1, <2>3 DEF Stepped
    <2>6. \/ /\ insn.op = "jump" /\ o.pc_set = Target(pc_id, insn)
             /\ o.pc_set # None
          \/ /\ o.pc_set = None
             /\ insn.op = "jump" => pc_if = Target(pc_id, insn)
      BY <1>1, <1>3, <2>2 DEF Stepped
    <2> QED BY <2>1, <2>4, <2>5, <2>6, Executed
  <1> QED BY <1>2, <1>3

(* An ebreak that enters or restarts debug mode. *)
LEMMA EbreakSteps ==
  ASSUME Good, Executing, insn = Ebreak, debug_mode_q \/ ebrk_force_debug_mode,
         NEW in \in Inputs, NEW out, Answers(out), Execute(in, out),
         out.halt_if = TRUE, out.pc_set = None, out.jump_done = jump_done_q,
         out.ns = "DBG_FLUSH"
  PROVE  HartStep /\ Course'
  <1>1. PICK o : Stepped(in, out, o)
    BY Executes
  <1>2. ~single_step
    BY DEF single_step, ebrk_force_debug_mode
  <1>3. CASE ~in.id_ready
    <2>1. Kept(in, o) /\ o.ns = "DBG_FLUSH"
      BY <1>1, <1>3, WaitsOrLeaves
    <2> QED BY <1>1, <2>1, Waits DEF Stepped, Answers
  <1>4. CASE in.id_ready
    <2>1. ~Kept(in, o) /\ ~handover(in, o)
      BY <1>1, <1>4, WaitsOrLeaves
    <2>2. /\ Cycled(in, o) /\ o.ns = "DBG_FLUSH" /\ o.csr = csr_n /\ o.pc_set = None
          /\ o.debug_mode = debug_mode_q /\ o.debug_req_entry = debug_req_entry_q
          /\ o.debug_force_wakeup = debug_force_wakeup_q
      BY <1>1, <1>2 DEF Stepped, Answers
    <2>3. branch_ex' = None
      BY <2>2, PlainKinds, Issued
    <2>4. csr_ex' = None /\ csr_n' = csr_n
      BY <2>2, PlainKinds, CsrKinds, IssuedCsr, Issued DEF Stops
    <2>5. instr_valid_id' = FALSE /\ pc_id' = pc_id /\ insn' = insn
      BY <2>1, <2>2, Decodes
    <2>6. /\ ctrl_fsm_cs' = "DBG_FLUSH" /\ csr' = csr_n
          /\ debug_mode_q' = debug_mode_q /\ debug_req_entry_q' = debug_req_entry_q
          /\ debug_force_wakeup_q' = debug_force_wakeup_q
      BY <2>2, Registers
    <2>7. taken_in_id'
      BY <2>5, <2>6, InDecode DEF taken_in_id, ebrk_force_debug_mode
    <2>8. arch_pc' = arch_pc
      BY <2>5, <2>6, <2>7, InDecode, ArchPcNext DEF ArchPc, In
    <2>9. (arch_debug' <=> arch_debug) /\ ~arch_stepped'
      BY <2>6, <2>7, InDecode, ArchFlagsNext DEF ArchFlags, In
    <2>10. HartStep
      BY <2>2, <2>4, <2>8, <2>9, InDecode, Idles
    <2>11. NoLoop'
      BY <2>2, <2>6, LoopsLeftAlone, Fetched DEF NoLoop
    <2>12. FlagsInState'
      BY <2>3, <2>4, <2>5, <2>6, InDecode DEF FlagsInState
    <2>13. CsrPending' /\ NextIs'
      BY <2>4, <2>5 DEF CsrPending, NextIs
    <2>14. History'
      BY <2>5, <2>6, <2>7 DEF History, In
    <2> QED BY <2>10, <2>11, <2>12, <2>13, <2>14 DEF Course
  <1> QED BY <1>3, <1>4
(* The instruction in decode. *)
LEMMA ExecutingSteps ==
  ASSUME Good, NEW in \in Inputs,
         \/ IllegalInstruction(in) \/ JumpInDecode(in) \/ EbreakInDecode(in)
         \/ EcallInDecode(in) \/ FlushInDecode(in) \/ PlainInDecode(in)
         \/ PlainInHwloop(in)
  PROVE  HartStep /\ Course'
  <1>1. Executing
    BY DEF IllegalInstruction, JumpInDecode, EbreakInDecode, EcallInDecode, FlushInDecode,
           PlainInDecode, PlainInHwloop
  <1>2. ctrl_fsm_cs = "DECODE" /\ (illegal <=> illegal_insn) /\ ~is_hwlp_body
    BY <1>1, InDecode
  <1>3. CASE IllegalInstruction(in)
    <2> DEFINE out == [Flushing(in) EXCEPT !.illegal = TRUE]
    <2>1. illegal_insn /\ Execute(in, out)
      BY <1>1, <1>2, <1>3, FlushingAnswers DEF IllegalInstruction
    <2>2. /\ Answers(out) /\ out.halt_if = TRUE /\ out.pc_set = None
          /\ out.jump_done = jump_done_q /\ out.illegal = TRUE
          /\ out.ns = IF in.id_ready THEN "FLUSH_EX" ELSE "DECODE"
      <3>1. Answers(out) /\ Flushing(in) \in Outputs
        BY <1>1, FlushingAnswers DEF Answers
      <3>2. /\ out.halt_if = Flushing(in).halt_if /\ out.pc_set = Flushing(in).pc_set
            /\ out.jump_done = Flushing(in).jump_done /\ out.ns = Flushing(in).ns
            /\ out.illegal = TRUE
        BY <3>1 DEF Outputs
      <3> HIDE DEF out
      <3> QED BY <1>1, <3>1, <3>2, FlushingAnswers
    <2> HIDE DEF out
    <2> QED BY <1>1, <2>1, <2>2, FlushesSteps
  <1>4. CASE JumpInDecode(in)
    <2> DEFINE jump == [Decoded EXCEPT !.pc_set = Target(pc_id, insn), !.jump_done = TRUE]
    <2>1. ~illegal_insn /\ insn.op = "jump"
      BY <1>2, <1>4 DEF JumpInDecode
    <2>2. \/ Execute(in, Decoded) /\ (~in.id_ready \/ jump_done_q)
          \/ Execute(in, jump)
      <3>1. PICK jr_stall \in {FALSE, ~in.id_ready} :
              Execute(in, IF jr_stall \/ jump_done_q THEN Decoded ELSE jump)
        BY <1>4 DEF JumpInDecode
      <3> HIDE DEF jump
      <3>2. CASE jr_stall \/ jump_done_q
        BY <3>1, <3>2
      <3>3. CASE ~(jr_stall \/ jump_done_q)
        BY <3>1, <3>3
      <3> QED BY <3>2, <3>3
    <2>3. Target(pc_id, insn) \in Address
      <3>1. insn.offset \in Nat
        BY <2>1, InsnTypes, InstrsAre DEF Good
      <3> QED BY <3>1, NextTypes, PlusTypes DEF Target, Good, Types, TypeOK
    <2>4. /\ Answers(jump) /\ jump.pc_set = Target(pc_id, insn)
          /\ jump.jump_done = TRUE /\ jump.illegal = FALSE /\ jump.ns = "DECODE"
      <3>1. /\ Answers(Decoded) /\ Decoded \in Outputs /\ Decoded.ns = "DECODE"
            /\ Decoded.illegal = FALSE
        BY <1>1, FlushingAnswers DEF Answers
      <3>2. jump \in Outputs
        BY <2>3, <3>1 DEF Outputs
      <3> QED BY <3>1, <3>2 DEF Answers, Outputs
    <2>5. ~csr_status(insn) /\ insn.op \notin Stops
      BY <2>1, PlainKinds DEF csr_status, Stops
    <2> HIDE DEF jump
    <2>6. Target(pc_id, insn) # None
      BY <2>3, NoneAssumption
    <2>7. CASE Execute(in, Decoded) /\ (~in.id_ready \/ jump_done_q)
      BY <1>1, <2>1, <2>5, <2>7, FlushingAnswers, ExecutesSteps
    <2>8. CASE Execute(in, jump)
      BY <1>1, <2>1, <2>4, <2>5, <2>6, <2>8, ExecutesSteps
    <2> QED BY <2>2, <2>7, <2>8
  <1>5. CASE EbreakInDecode(in)
    <2> DEFINE halt == [Decoded EXCEPT !.halt_if = TRUE,
                                       !.halt_id = In({"DECODE_HWLOOP"}),
                                       !.ns = "DBG_FLUSH"]
    <2>1. ~illegal_insn /\ insn = Ebreak
      BY <1>2, <1>5 DEF EbreakInDecode
    <2>2. IF debug_mode_q \/ ebrk_force_debug_mode
            THEN Execute(in, halt) ELSE Execute(in, FlushingNow(in))
      BY <1>5 DEF EbreakInDecode
    <2>3. CASE debug_mode_q \/ ebrk_force_debug_mode
      <3>1. In({"DECODE_HWLOOP"}) = FALSE
        BY <1>2 DEF In
      <3>2. /\ Answers(halt) /\ halt.halt_if = TRUE /\ halt.pc_set = None
            /\ halt.jump_done = jump_done_q /\ halt.ns = "DBG_FLUSH"
        <4>1. /\ Answers(Decoded) /\ Decoded \in Outputs /\ Decoded.pc_set = None
              /\ Decoded.jump_done = jump_done_q
          BY <1>1, FlushingAnswers DEF Answers
        <4>2. halt = [Decoded EXCEPT !.halt_if = TRUE, !.halt_id = FALSE,
                                     !.ns = "DBG_FLUSH"]
          BY <3>1
        <4> HIDE DEF halt
        <4>3. halt \in Outputs
          <5>1. "DBG_FLUSH" \in States
            BY DEF States
          <5> QED BY <4>1, <4>2, <5>1, Redirected
        <4>4. /\ halt.halt_if = TRUE /\ halt.halt_id = FALSE /\ halt.ns = "DBG_FLUSH"
              /\ halt.pc_set = Decoded.pc_set /\ halt.jump_done = Decoded.jump_done
              /\ halt.hwlp_end_4 = Decoded.hwlp_end_4 /\ halt.dec = Decoded.dec
              /\ halt.decoding = Decoded.decoding /\ halt.csr = Decoded.csr
              /\ halt.debug_mode = Decoded.debug_mode
              /\ halt.debug_req_entry = Decoded.debug_req_entry
              /\ halt.debug_force_wakeup = Decoded.debug_force_wakeup
          BY <4>1, <4>2 DEF Outputs
        <4> QED BY <4>1, <4>3, <4>4 DEF Answers
      <3> HIDE DEF halt
      <3> QED BY <1>1, <2>1, <2>2, <2>3, <3>2, EbreakSteps
    <2>4. CASE ~(debug_mode_q \/ ebrk_force_debug_mode)
      <3>1. Execute(in, Flushing(in))
        BY <1>1, <2>2, <2>4, FlushingAnswers
      <3> QED BY <1>1, <2>1, <2>4, <3>1, FlushingAnswers, FlushesSteps
    <2> QED BY <2>3, <2>4
  <1>6. CASE EcallInDecode(in)
    <2>1. ~illegal_insn /\ insn = Ecall /\ Execute(in, Flushing(in))
      BY <1>1, <1>2, <1>6, FlushingAnswers DEF EcallInDecode
    <2> QED BY <1>1, <2>1, FlushingAnswers, FlushesSteps
  <1>7. CASE FlushInDecode(in)
    <2>1. ~illegal_insn /\ flushes /\ Execute(in, Flushing(in))
      BY <1>2, <1>7 DEF FlushInDecode
    <2>2. \/ insn \in {Mret, Dret}
          \/ insn = Fencei \/ (insn = Wfi /\ ~debug_mode_q) \/ csr_status(insn)
      <3>1. /\ insn.op = "fencei" => insn = Fencei
            /\ insn.op = "mret" => insn = Mret
            /\ insn.op = "dret" => insn = Dret
        BY InsnTypes, PlainOps DEF Good
      <3> QED BY <2>1, <3>1 DEF flushes, wfi_active
    <2>3. CASE insn \in {Mret, Dret}
      BY <1>1, <2>1, <2>3, FlushingAnswers, FlushesSteps
    <2>4. CASE insn = Fencei \/ (insn = Wfi /\ ~debug_mode_q) \/ csr_status(insn)
      <3>1. insn.op \notin Stops /\ insn.op # "jump"
        BY <2>4, PlainKinds DEF csr_status, Stops
      <3> QED BY <1>1, <2>1, <2>4, <3>1, FlushingAnswers, ExecutesSteps
    <2> QED BY <2>2, <2>3, <2>4
  <1>8. CASE PlainInDecode(in)
    <2>1. /\ ~illegal_insn /\ insn.op \notin Stops /\ insn.op # "jump"
          /\ ~csr_status(insn)
      BY <1>2, <1>8 DEF PlainInDecode, plain, flushes, Stops
    <2>2. Execute(in, Decoded)
      BY <1>2, <1>8 DEF PlainInDecode
    <2> QED BY <1>1, <2>1, <2>2, FlushingAnswers, ExecutesSteps
  <1>9. CASE PlainInHwloop(in)
    BY <1>2, <1>9 DEF PlainInHwloop, In
  <1> QED BY <1>3, <1>4, <1>5, <1>6, <1>7, <1>8, <1>9
------------------------------------------------------------------------------
(* Outside decode: nothing enters, stays or issues. *)
Clears(in, out) ==
  /\ Cycled(in, out) /\ out.decoding = FALSE /\ out.ns # "DECODE_HWLOOP"
  /\ out.halt_if = TRUE \/ out.pc_set # None
  /\ out.halt_id = TRUE \/ ~instr_valid_id

LEMMA Cleared ==
  ASSUME Good, NEW in, NEW out, Clears(in, out)
  PROVE  /\ instr_valid_id' = FALSE /\ pc_id' = pc_id /\ insn' = insn
         /\ branch_ex' = None /\ csr_ex' = None /\ csr_n' = out.csr /\ csr' = out.csr
         /\ pc_if' = IF out.pc_set # None THEN out.pc_set ELSE pc_if
         /\ ctrl_fsm_cs' = out.ns /\ illegal_insn_q' = out.illegal
         /\ debug_mode_q' = out.debug_mode /\ debug_req_entry_q' = out.debug_req_entry
         /\ debug_force_wakeup_q' = out.debug_force_wakeup
         /\ NoLoop' /\ CsrPending' /\ NextIs'
  <1>1. Cycled(in, out)
    BY DEF Clears
  <1>2. ~handover(in, out) /\ ~Kept(in, out) /\ ~issue(in, out)
    BY DEF Clears, handover, Kept, clear_instr_valid, issue
  <1>3. out.ns # "DECODE_HWLOOP"
    BY DEF Clears
  <1>4. /\ ctrl_fsm_cs' = out.ns /\ illegal_insn_q' = out.illegal /\ csr' = out.csr
        /\ debug_mode_q' = out.debug_mode /\ debug_req_entry_q' = out.debug_req_entry
        /\ debug_force_wakeup_q' = out.debug_force_wakeup
    BY <1>1, Registers
  <1>5. NoLoop'
    BY <1>1, <1>3, <1>4, LoopsLeftAlone, Fetched DEF NoLoop
  <1> QED BY <1>1, <1>2, <1>4, <1>5, Emptied

Keeps(out) ==
  /\ out.illegal = illegal_insn_q
  /\ out.debug_mode = debug_mode_q /\ out.debug_req_entry = debug_req_entry_q
  /\ out.debug_force_wakeup = debug_force_wakeup_q

(* What is flushed, as the hart sees it. *)
LEMMA FlushingIs ==
  ASSUME Good, ctrl_fsm_cs \in {"FLUSH_EX", "FLUSH_WB"}
  PROVE  /\ Flushed /\ ~instr_valid_id /\ branch_ex = None
         /\ ~debug_req_entry_q /\ ~debug_force_wakeup_q
         /\ illegal_insn_q \in BOOLEAN /\ debug_mode_q \in BOOLEAN
         /\ debug_mode_q \/ (csr_n.dcsr = csr.dcsr /\ csr_n.trigger = csr.trigger)
         /\ debug_mode_q \/ csr_n.trigger # pc_id
         /\ csr_n \in Csrs
  <1>1. /\ Flushed /\ ~instr_valid_id /\ branch_ex = None
        /\ ~debug_req_entry_q /\ ~debug_force_wakeup_q
    BY DEF Good, Course, History, FlagsInState, In
  <1>2. debug_mode_q \/ (csr_n.dcsr = csr.dcsr /\ csr_n.trigger = csr.trigger)
    BY DEF csr_n, CsrPending, Good, Course
  <1>3. csr_n \in Csrs /\ illegal_insn_q \in BOOLEAN /\ debug_mode_q \in BOOLEAN
    BY CsrTypes, Flags DEF Good, Types
  <1> QED BY <1>1, <1>2, <1>3 DEF Flushed, trigger_match

(* Flushing goes on with what it has found. *)
LEMMA FlushedStays ==
  ASSUME Good, ctrl_fsm_cs \in {"FLUSH_EX", "FLUSH_WB"},
         pc_id' = pc_id, insn' = insn, pc_if' = pc_if,
         illegal_insn_q' = illegal_insn_q, debug_mode_q' = debug_mode_q,
         csr'.dcsr = csr_n.dcsr, csr'.trigger = csr_n.trigger
  PROVE  Flushed'
  <1>1. insn = Ebreak => csr_n.dcsr = csr.dcsr
    BY FlushingIs DEF Flushed
  <1>2. single_step' => single_step
    BY FlushingIs DEF single_step
  <1> QED BY <1>1, <1>2, FlushingIs
          DEF Flushed, trigger_match, ebrk_force_debug_mode, csr_status

(* The trap is taken in the hart's eyes when FLUSH_WB is entered. *)
LEMMA Traps ==
  ASSUME Good, ctrl_fsm_cs = "FLUSH_EX", traps,
         NEW in, NEW out, Clears(in, out), Keeps(out), out.ns = "FLUSH_WB",
         out.pc_set = None,
         out.csr = IF debug_mode_q THEN csr_n ELSE Trapped(csr_n, pc_id)
  PROVE  HartStep
  <1>1. /\ pc_id' = pc_id /\ insn' = insn /\ csr_n' = out.csr /\ csr' = out.csr
        /\ ctrl_fsm_cs' = "FLUSH_WB" /\ illegal_insn_q' = illegal_insn_q
        /\ debug_mode_q' = debug_mode_q
    BY Cleared DEF Keeps
  <1>2. traps'
    BY <1>1 DEF traps
  <1>3. arch_pc = pc_id /\ ~arch_stepped /\ (arch_debug <=> debug_mode_q)
    BY ArchPcIs, ArchFlagsAre DEF ArchPc, ArchFlags, In
  <1>4. /\ arch_pc' = IF debug_mode_q THEN DEBUG_EXCEPTION ELSE EXCEPTION
        /\ arch_debug' <=> debug_mode_q
        /\ arch_stepped' <=> single_step'
    BY <1>1, <1>2, ArchPcNext, ArchFlagsNext DEF ArchPc, ArchFlags, In, exception
  <1>5. out.csr.dcsr = csr_n.dcsr
    BY FlushingIs DEF Trapped, Csrs
  <1>6. arch_stepped' <=> csr_n.dcsr = "step" /\ ~arch_debug
    BY <1>1, <1>3, <1>4, <1>5 DEF single_step
  <1>7. Hart!insn = insn
    BY <1>3, HartInsn DEF insn
  <1>8. Hart!Illegal <=> insn \in {Dret, Debugger} /\ ~debug_mode_q
    BY <1>3, <1>7, HartNoBody DEF Good, Course
  <1>9. /\ insn = Ecall \/ Hart!Illegal \/ (insn = Ebreak /\ csr_n.dcsr # "ebreakm")
        /\ debug_mode_q => insn # Ebreak
    <2>1. illegal_insn_q => Hart!Illegal
      BY <1>8, FlushingIs DEF Flushed
    <2>2. insn = Ebreak => ~debug_mode_q /\ csr_n.dcsr # "ebreakm"
      BY FlushingIs DEF Flushed, ebrk_force_debug_mode
    <2> QED BY <2>1, <2>2 DEF traps
  <1>10. Cycled(in, out)
    BY DEF Clears
  <1>11. Hart!GoTo(IF debug_mode_q THEN DEBUG_EXCEPTION ELSE EXCEPTION)
    BY <1>3, <1>4, <1>6, <1>10, FlushingIs, Goes
  <1>12. arch_debug' = arch_debug
    BY <1>3, <1>4, ArchFlagsAre, ArchFlagsNext DEF ArchFlags
  <1>13. Hart!Trap
    <2>1. CASE debug_mode_q
      BY <1>1, <1>3, <1>7, <1>9, <1>10, <1>11, <1>12, <2>1, HartSame, HartIsa DEF Hart!Trap
    <2>2. CASE ~debug_mode_q
      BY <1>1, <1>3, <1>7, <1>9, <1>10, <1>11, <1>12, <2>2, HartSame, HartIsa,
         HartOperators DEF Hart!Trap
    <2> QED BY <2>1, <2>2
  <1> QED BY <1>13 DEF HartStep, Hart!HartNext

LEMMA FlushExSteps ==
  ASSUME Good, NEW in \in Inputs, FLUSH_EX(in)
  PROVE  HartStep /\ Course'
  <1>0. ctrl_fsm_cs = "FLUSH_EX" /\ Types
    BY DEF FLUSH_EX, In, Good
  <1>1. /\ Stalled \in Outputs /\ Stalled.ns = "FLUSH_EX" /\ Stalled.halt_if = TRUE
        /\ Stalled.halt_id = TRUE /\ Stalled.pc_set = None
        /\ Stalled.hwlp_end_4 = None /\ Stalled.csr = csr_n
        /\ Stalled.decoding = FALSE /\ Stalled.dec = {} /\ Keeps(Stalled)
    BY <1>0, StalledAnswer, StalledIs DEF Keeps
  <1> DEFINE silent == debug_mode_q /\ (illegal_insn_q \/ insn = Ecall)
             trapped == traps /\ ~silent
             after == IF trapped THEN Trapped(csr_n, pc_id) ELSE csr_n
             out == [Stalled EXCEPT !.ns = "FLUSH_WB", !.drained = TRUE, !.csr = after]
  <1>2. Clock(in, Stalled) \/ Clock(in, out)
    <2>1. \/ Clock(in, Stalled)
          \/ Clock(in, [Stalled EXCEPT !.ns = "FLUSH_WB", !.drained = TRUE,
                                       !.csr = IF trapped THEN Trapped(@, pc_id) ELSE @])
      BY DEF FLUSH_EX, traps
    <2> QED BY <1>1, <2>1
  <1>3. after = IF traps /\ ~debug_mode_q THEN Trapped(csr_n, pc_id) ELSE csr_n
    <2>1. traps /\ debug_mode_q => silent
      BY <1>0, FlushingIs DEF traps, Flushed
    <2> QED BY <2>1
  <1>4. after \in Csrs /\ after.dcsr = csr_n.dcsr /\ after.trigger = csr_n.trigger
    <2>1. pc_id \in Address
      BY <1>0 DEF Types, TypeOK
    <2>2. /\ Trapped(csr_n, pc_id) \in Csrs
          /\ Trapped(csr_n, pc_id).dcsr = csr_n.dcsr
          /\ Trapped(csr_n, pc_id).trigger = csr_n.trigger
      BY <1>0, <2>1, FlushingIs DEF Trapped, Csrs
    <2> QED BY <1>0, <2>2, FlushingIs
  <1> HIDE DEF after, silent, trapped
  <1>5. /\ out \in Outputs /\ out.ns = "FLUSH_WB" /\ out.halt_if = TRUE
        /\ out.halt_id = TRUE /\ out.pc_set = None
        /\ out.hwlp_end_4 = None /\ out.csr = after
        /\ out.decoding = FALSE /\ out.dec = {} /\ Keeps(out)
    BY <1>1, <1>4 DEF Outputs, States, Keeps
  <1> HIDE DEF out
  <1>6. CASE Clock(in, Stalled)
    <2>1. Clears(in, Stalled)
      BY <1>1, <1>6 DEF Clears, Cycled
    <2>2. /\ instr_valid_id' = FALSE /\ pc_id' = pc_id /\ insn' = insn
          /\ branch_ex' = None /\ csr_ex' = None /\ csr_n' = csr_n /\ csr' = csr_n
          /\ pc_if' = pc_if /\ ctrl_fsm_cs' = "FLUSH_EX"
          /\ illegal_insn_q' = illegal_insn_q /\ debug_mode_q' = debug_mode_q
          /\ debug_req_entry_q' = debug_req_entry_q
          /\ debug_force_wakeup_q' = debug_force_wakeup_q
          /\ NoLoop' /\ CsrPending' /\ NextIs'
      BY <1>1, <2>1, Cleared DEF Keeps
    <2>3. traps' = traps
      BY <2>2 DEF traps
    <2>4. arch_pc' = arch_pc
      BY <1>0, <2>2, <2>3, ArchPcIs, ArchPcNext DEF ArchPc, In
    <2>5. (arch_debug' <=> arch_debug) /\ ~arch_stepped /\ ~arch_stepped'
      BY <1>0, <2>2, ArchFlagsAre, ArchFlagsNext DEF ArchFlags, In
    <2>6. HartStep
      BY <2>1, <2>2, <2>4, <2>5, Idles DEF Clears
    <2>7. Flushed'
      BY <1>0, <2>2, FlushedStays
    <2>8. FlagsInState' /\ History'
      BY <1>0, <2>2, <2>7, FlushingIs DEF FlagsInState, History, In
    <2> QED BY <2>2, <2>6, <2>8 DEF Course
  <1>7. CASE Clock(in, out)
    <2>1. Clears(in, out)
      BY <1>5, <1>7 DEF Clears, Cycled
    <2>2. /\ instr_valid_id' = FALSE /\ pc_id' = pc_id /\ insn' = insn
          /\ branch_ex' = None /\ csr_ex' = None /\ csr_n' = after /\ csr' = after
          /\ pc_if' = pc_if /\ ctrl_fsm_cs' = "FLUSH_WB"
          /\ illegal_insn_q' = illegal_insn_q /\ debug_mode_q' = debug_mode_q
          /\ debug_req_entry_q' = debug_req_entry_q
          /\ debug_force_wakeup_q' = debug_force_wakeup_q
          /\ NoLoop' /\ CsrPending' /\ NextIs'
      BY <1>5, <2>1, Cleared DEF Keeps
    <2>3. traps' <=> traps
      BY <2>2 DEF traps
    <2>4. ASSUME ~traps PROVE HartStep
      <3>1. csr_n' = csr_n
        BY <1>3, <2>2, <2>4
      <3>2. arch_pc' = arch_pc
        BY <1>0, <2>2, <2>3, <2>4, ArchPcIs, ArchPcNext DEF ArchPc, In
      <3>3. (arch_debug' <=> arch_debug) /\ ~arch_stepped /\ ~arch_stepped'
        BY <1>0, <2>2, <2>3, <2>4, ArchFlagsAre, ArchFlagsNext DEF ArchFlags, In
      <3> QED BY <2>1, <3>1, <3>2, <3>3, Idles DEF Clears
    <2>5. HartStep
      BY <1>0, <1>3, <1>5, <2>1, <2>4, Traps
    <2>6. Flushed'
      BY <1>0, <1>4, <2>2, FlushedStays
    <2>7. FlagsInState' /\ History'
      BY <1>0, <2>2, <2>6, FlushingIs DEF FlagsInState, History, In
    <2> QED BY <2>2, <2>5, <2>7 DEF Course
  <1> QED BY <1>2, <1>6, <1>7
------------------------------------------------------------------------------
(* The flush ends where the hart already is. *)
LEMMA FlushEnds ==
  ASSUME Good, ctrl_fsm_cs = "FLUSH_WB", NEW in, NEW out, Clears(in, out),
         out.csr = csr_n, out.debug_mode = debug_mode_q,
         out.debug_req_entry = debug_req_entry_q,
         \/ /\ traps /\ out.pc_set = exception /\ out.pc_set # None
            /\ out.ns = IF single_step THEN "DBG_TAKEN_IF" ELSE "DECODE"
            /\ out.debug_force_wakeup = debug_force_wakeup_q
         \/ /\ ~traps /\ insn \notin {Mret, Dret}
            /\ out.pc_set = None \/ out.pc_set = pc_if
            /\ \/ out.ns = "DECODE" /\ out.debug_force_wakeup = debug_force_wakeup_q
               \/ /\ out.ns = "DBG_TAKEN_IF" /\ out.debug_force_wakeup = TRUE
                  /\ ~debug_mode_q
               \/ /\ out.ns = "WAIT_SLEEP" /\ ~debug_mode_q
                  /\ out.debug_force_wakeup = debug_force_wakeup_q
  PROVE  HartStep /\ Course'
  <1>1. /\ instr_valid_id' = FALSE /\ pc_id' = pc_id
        /\ branch_ex' = None /\ csr_ex' = None /\ csr_n' = csr_n /\ csr' = csr_n
        /\ pc_if' = IF traps THEN exception ELSE pc_if
        /\ ctrl_fsm_cs' = out.ns /\ debug_mode_q' = debug_mode_q
        /\ debug_req_entry_q' = debug_req_entry_q
        /\ debug_force_wakeup_q' = out.debug_force_wakeup
        /\ NoLoop' /\ CsrPending' /\ NextIs'
    BY Cleared
  <1>2. ~debug_req_entry_q /\ ~debug_force_wakeup_q /\ csr_n = csr
    BY FlushingIs DEF csr_n, Good, Course, FlagsInState
  <1>3. single_step' = single_step
    BY <1>1, <1>2 DEF single_step
  <1>4. arch_pc = IF traps THEN exception ELSE pc_if
    BY ArchPcIs DEF ArchPc, In
  <1>5. arch_pc' = arch_pc
    BY <1>1, <1>4, ArchPcNext DEF ArchPc, In
  <1>6. /\ arch_debug' <=> arch_debug
        /\ arch_stepped <=> single_step /\ traps
        /\ arch_stepped' <=> out.ns = "DBG_TAKEN_IF" /\ single_step
                             /\ ~out.debug_force_wakeup
    BY <1>1, <1>3, ArchFlagsAre, ArchFlagsNext DEF ArchFlags, In
  <1>7. arch_stepped' <=> arch_stepped
    BY <1>2, <1>6
  <1>8. HartStep
    BY <1>1, <1>5, <1>6, <1>7, Idles DEF Clears
  <1>9. FlagsInState'
    BY <1>1, <1>2 DEF FlagsInState
  <1>10. History'
    <2>1. single_step => ~debug_mode_q
      BY DEF single_step
    <2> QED BY <1>1, <1>3, <2>1 DEF History, In
  <1> QED BY <1>1, <1>8, <1>9, <1>10 DEF Course

(* The return is made in the hart's eyes when XRET_JUMP is entered. *)
LEMMA Returns ==
  ASSUME Good, ctrl_fsm_cs = "FLUSH_WB", ~traps, insn \in {Mret, Dret},
         NEW in, NEW out, Clears(in, out), Keeps(out), out.ns = "XRET_JUMP",
         out.pc_set = None,
         out.csr = IF insn = Mret /\ ~debug_mode_q THEN Restored(csr_n) ELSE csr_n
  PROVE  HartStep /\ Course'
  <1>1. /\ instr_valid_id' = FALSE /\ pc_id' = pc_id /\ insn' = insn
        /\ branch_ex' = None /\ csr_ex' = None /\ csr_n' = out.csr /\ csr' = out.csr
        /\ ctrl_fsm_cs' = "XRET_JUMP" /\ debug_mode_q' = debug_mode_q
        /\ debug_req_entry_q' = debug_req_entry_q
        /\ debug_force_wakeup_q' = debug_force_wakeup_q
        /\ NoLoop' /\ CsrPending' /\ NextIs'
    BY Cleared DEF Keeps
  <1>2. Mret # Dret /\ Mret # Debugger
    BY DEF Mret, Dret, Debugger, Plain
  <1>3. /\ ~debug_req_entry_q /\ ~debug_force_wakeup_q /\ csr_n = csr
        /\ insn = Dret => debug_mode_q
    BY FlushingIs DEF csr_n, Good, Course, FlagsInState, Flushed, traps
  <1>4. out.csr.mepc = csr_n.mepc /\ out.csr.dpc = csr_n.dpc /\ out.csr.dcsr = csr_n.dcsr
    BY FlushingIs DEF Restored, Csrs
  <1>5. arch_pc = pc_id /\ ~arch_stepped /\ (arch_debug <=> debug_mode_q)
    BY ArchPcIs, ArchFlagsAre DEF ArchPc, ArchFlags, In
  <1>6. arch_pc' = IF insn = Dret THEN csr_n.dpc
                   ELSE IF debug_mode_q THEN DEBUG_EXCEPTION ELSE csr_n.mepc
    BY <1>1, <1>4, ArchPcNext DEF ArchPc, In, xret_target
  <1>7. /\ arch_debug' <=> debug_mode_q /\ insn # Dret
        /\ arch_stepped' <=> single_step' /\ insn = Mret
    BY <1>1, ArchFlagsNext DEF ArchFlags, In
  <1>8. single_step' <=> csr_n.dcsr = "step" /\ ~debug_mode_q
    BY <1>1, <1>4 DEF single_step
  <1>9. Hart!insn = insn
    BY <1>5, HartInsn DEF insn
  <1>10. Cycled(in, out)
    BY DEF Clears
  <1>11. ASSUME insn = Mret PROVE HartStep
    <2>1. arch_debug' = arch_debug
      BY <1>2, <1>5, <1>7, <1>11, ArchFlagsAre, ArchFlagsNext DEF ArchFlags
    <2>2. Hart!GoTo(IF debug_mode_q THEN DEBUG_EXCEPTION ELSE csr_n.mepc)
      BY <1>2, <1>5, <1>6, <1>7, <1>8, <1>10, <1>11, FlushingIs, Goes
    <2>3. ~Hart!Illegal
      BY <1>2, <1>9, <1>11, HartNoBody DEF Good, Course
    <2>4. CASE debug_mode_q
      BY <1>1, <1>5, <1>9, <1>10, <1>11, <2>1, <2>2, <2>3, <2>4, HartSame, HartIsa
         DEF Hart!ReturnFromTrap, HartStep, Hart!HartNext
    <2>5. CASE ~debug_mode_q
      BY <1>1, <1>5, <1>9, <1>10, <1>11, <2>1, <2>2, <2>3, <2>5, HartSame, HartIsa,
         HartOperators DEF Hart!ReturnFromTrap, HartStep, Hart!HartNext
    <2> QED BY <2>4, <2>5
  <1>12. ASSUME insn = Dret PROVE HartStep
    <2>1. debug_mode_q /\ arch_debug
      BY <1>3, <1>5, <1>12
    <2>2. arch_debug' = FALSE /\ arch_stepped' = FALSE
      BY <1>2, <1>7, <1>12, ArchFlagsNext DEF ArchFlags
    <2>3. csr_n' = csr_n /\ arch_pc' = csr_n.dpc
      BY <1>1, <1>2, <1>6, <1>12
    <2>4. Hart!Resume
      BY <1>9, <1>10, <1>12, <2>1, <2>2, <2>3, HartSame, HartIsa DEF Hart!Resume
    <2> QED BY <2>4 DEF HartStep, Hart!HartNext
  <1>13. FlagsInState'
    BY <1>1, <1>3 DEF FlagsInState
  <1>14. History'
    BY <1>1, <1>3 DEF History, In
  <1> QED BY <1>1, <1>11, <1>12, <1>13, <1>14 DEF Course

LEMMA FlushWbSteps ==
  ASSUME Good, NEW in \in Inputs, FLUSH_WB(in)
  PROVE  HartStep /\ Course'
  <1>0. ctrl_fsm_cs = "FLUSH_WB" /\ Types
    BY DEF FLUSH_WB, In, Good
  <1> DEFINE done == [Stalled EXCEPT !.ns = "DECODE"]
             jump(target) == [done EXCEPT !.pc_set = target]
             trap(target) ==
               [jump(target) EXCEPT !.illegal = FALSE,
                                    !.ns = IF single_step THEN "DBG_TAKEN_IF" ELSE @]
             ending == {k \in Loops : hwlp_end_eq_pc(k) /\ hwlp_counter_gt_1(k)}
             mret == [done EXCEPT !.ns = "XRET_JUMP",
                                  !.csr = IF debug_mode_q THEN @ ELSE Restored(@)]
             dret == [done EXCEPT !.ns = "XRET_JUMP"]
             loop == [jump(hwlp_start_q[hwlp_targ]) EXCEPT !.dec = ending]
             halt == [done EXCEPT !.ns = "DBG_TAKEN_IF", !.debug_force_wakeup = TRUE]
             sleep == [done EXCEPT !.ns = "WAIT_SLEEP"]
  <1>1. Clock(in,
           CASE illegal_insn_q \/ insn = Ecall -> trap(exception)
             [] ~illegal_insn_q /\ insn = Ebreak -> trap(EXCEPTION)
             [] ~illegal_insn_q /\ insn = Mret -> mret
             [] ~illegal_insn_q /\ insn = Dret -> dret
             [] ~illegal_insn_q /\ csr_status(insn) -> IF ending = {} THEN done ELSE loop
             [] ~illegal_insn_q /\ insn = Wfi -> IF debug_req_pending THEN halt ELSE sleep
             [] ~illegal_insn_q /\ insn = Fencei -> jump(Plus(pc_id, 1))
             [] OTHER -> done)
    BY DEF FLUSH_WB
  <1>2. /\ Flushed /\ ~instr_valid_id /\ csr_n \in Csrs
        /\ ~debug_req_entry_q /\ ~debug_force_wakeup_q
    BY <1>0, FlushingIs
  <1>3. ending = {}
    BY NoBody DEF Good, Course
  <1> DEFINE Done(o) == /\ o \in Outputs /\ o.hwlp_end_4 = None /\ o.dec = {}
                        /\ o.decoding = FALSE /\ o.halt_if = TRUE /\ o.halt_id = TRUE
                        /\ o.debug_mode = debug_mode_q
                        /\ o.debug_req_entry = debug_req_entry_q
  <1>4. /\ Done(done) /\ done.pc_set = None /\ done.csr = csr_n /\ done.ns = "DECODE"
        /\ Keeps(done)
    BY <1>0, StalledAnswer, StalledIs DEF Outputs, States, Keeps
  <1>5. ASSUME NEW target \in Address
        PROVE  /\ Done(jump(target)) /\ jump(target).pc_set = target
               /\ jump(target).csr = csr_n /\ jump(target).ns = "DECODE"
               /\ Keeps(jump(target))
    <2> HIDE DEF done
    <2>1. jump(target) \in Outputs
      BY <1>4 DEF Outputs
    <2> QED BY <1>4, <2>1 DEF Outputs, Keeps
  <1>6. ASSUME NEW target \in Address
        PROVE  /\ Done(trap(target)) /\ trap(target).pc_set = target
               /\ trap(target).csr = csr_n
               /\ trap(target).debug_force_wakeup = debug_force_wakeup_q
               /\ trap(target).ns = IF single_step THEN "DBG_TAKEN_IF" ELSE "DECODE"
    <2>1. /\ Done(jump(target)) /\ jump(target).pc_set = target
          /\ jump(target).csr = csr_n /\ jump(target).ns = "DECODE"
          /\ jump(target).debug_force_wakeup = debug_force_wakeup_q
      BY <1>5 DEF Keeps
    <2> HIDE DEF done, jump
    <2> DEFINE ns == IF single_step THEN "DBG_TAKEN_IF" ELSE "DECODE"
    <2>2. trap(target) = [jump(target) EXCEPT !.illegal = FALSE, !.ns = ns]
      BY <2>1
    <2>3. ns \in States
      BY DEF States
    <2> HIDE DEF ns, trap
    <2>4. trap(target) \in Outputs
      BY <2>1, <2>2, <2>3, Redirected
    <2>5. Done(trap(target))
      BY <2>1, <2>2, <2>4 DEF Outputs
    <2> QED BY <2>1, <2>2, <2>5 DEF Outputs, ns
  <1>7. /\ Done(mret) /\ Keeps(mret) /\ mret.pc_set = None /\ mret.ns = "XRET_JUMP"
        /\ mret.csr = IF debug_mode_q THEN csr_n ELSE Restored(csr_n)
    <2> DEFINE after == IF debug_mode_q THEN csr_n ELSE Restored(csr_n)
    <2>1. after \in Csrs
      BY <1>2, CsrChanges, JumpTypes DEF Causes, Good
    <2>2. mret = [done EXCEPT !.ns = "XRET_JUMP", !.csr = after]
      BY <1>4
    <2> HIDE DEF after, mret, done
    <2>3. /\ Done(mret) /\ Keeps(mret) /\ mret.pc_set = None /\ mret.ns = "XRET_JUMP"
          /\ mret.csr = after
      BY <1>4, <2>1, <2>2 DEF Outputs, States, Keeps
    <2> QED BY <2>3 DEF after
  <1>8. /\ Done(dret) /\ Keeps(dret) /\ dret.pc_set = None /\ dret.ns = "XRET_JUMP"
        /\ dret.csr = csr_n
        /\ Done(sleep) /\ Keeps(sleep) /\ sleep.pc_set = None /\ sleep.ns = "WAIT_SLEEP"
        /\ sleep.csr = csr_n
        /\ Done(halt) /\ halt.pc_set = None /\ halt.ns = "DBG_TAKEN_IF"
        /\ halt.csr = csr_n /\ halt.debug_force_wakeup = TRUE
    <2> HIDE DEF done
    <2> QED BY <1>4 DEF Outputs, States, Keeps
  <1>9. ASSUME NEW o, Done(o), Clock(in, o), o.ns # "DECODE_HWLOOP" PROVE Clears(in, o)
    BY <1>9 DEF Clears, Cycled
  <1>10. exception \in Address /\ EXCEPTION \in Address /\ Plus(pc_id, 1) \in Address
    BY <1>0, JumpTypes
  <1>11. /\ Ecall \notin {Ebreak, Mret, Dret, Wfi, Fencei} /\ ~csr_status(Ecall)
         /\ Ebreak \notin {Mret, Dret, Wfi, Fencei} /\ ~csr_status(Ebreak)
         /\ Mret \notin {Dret, Wfi, Fencei} /\ ~csr_status(Mret)
         /\ Dret \notin {Wfi, Fencei} /\ ~csr_status(Dret)
         /\ Wfi # Fencei /\ ~csr_status(Wfi) /\ ~csr_status(Fencei)
    BY DEF Ecall, Ebreak, Mret, Dret, Wfi, Fencei, csr_status, EnableIrqs, Skip, Debugger,
           Plain
  <1> HIDE DEF Done, done, jump, trap, ending, mret, dret, loop, halt, sleep
  <1>12. \/ (illegal_insn_q \/ insn = Ecall) /\ Clock(in, trap(exception))
         \/ ~illegal_insn_q /\ insn = Ebreak /\ Clock(in, trap(EXCEPTION))
         \/ ~illegal_insn_q /\ insn = Mret /\ Clock(in, mret)
         \/ ~illegal_insn_q /\ insn = Dret /\ Clock(in, dret)
         \/ ~traps /\ insn \notin {Mret, Dret} /\ Clock(in, done)
         \/ ~traps /\ insn = Wfi /\ (Clock(in, halt) \/ Clock(in, sleep))
         \/ ~traps /\ insn = Fencei /\ Clock(in, jump(Plus(pc_id, 1)))
    BY <1>1, <1>3, <1>11 DEF traps
  <1>20. ASSUME NEW target \in {exception, EXCEPTION}
         PROVE  /\ trap(target).pc_set = target /\ target # None
                /\ trap(target).csr = csr_n
                /\ trap(target).debug_mode = debug_mode_q
                /\ trap(target).debug_req_entry = debug_req_entry_q
                /\ trap(target).debug_force_wakeup = debug_force_wakeup_q
                /\ trap(target).ns = IF single_step THEN "DBG_TAKEN_IF" ELSE "DECODE"
    <2>1. target \in Address
      BY <1>10
    <2>2. target # None
      BY <2>1, NoneAssumption
    <2>3. Done(trap(target))
      BY <1>6, <2>1
    <2> QED BY <1>6, <2>1, <2>2, <2>3 DEF Done
  <1>13. CASE (illegal_insn_q \/ insn = Ecall) /\ Clock(in, trap(exception))
    <2>1. Clears(in, trap(exception))
      BY <1>6, <1>9, <1>10, <1>13
    <2> QED BY <1>0, <1>20, <1>13, <2>1, FlushEnds DEF traps
  <1>14. CASE ~illegal_insn_q /\ insn = Ebreak /\ Clock(in, trap(EXCEPTION))
    <2>1. Clears(in, trap(EXCEPTION))
      BY <1>6, <1>9, <1>10, <1>14
    <2>2. exception = EXCEPTION
      BY <1>2, <1>14 DEF exception, Flushed
    <2> QED BY <1>0, <1>20, <1>14, <2>1, <2>2, FlushEnds DEF traps
  <1>15. CASE ~illegal_insn_q /\ insn = Mret /\ Clock(in, mret)
    <2>1. Clears(in, mret)
      BY <1>7, <1>9, <1>15
    <2>2. ~traps
      BY <1>11, <1>15 DEF traps
    <2> QED BY <1>0, <1>7, <1>15, <2>1, <2>2, Returns
  <1>16. CASE ~illegal_insn_q /\ insn = Dret /\ Clock(in, dret)
    <2>1. Clears(in, dret)
      BY <1>8, <1>9, <1>16
    <2>2. ~traps /\ insn # Mret
      BY <1>11, <1>16 DEF traps
    <2> QED BY <1>0, <1>8, <1>16, <2>1, <2>2, Returns
  <1>17. CASE ~traps /\ insn \notin {Mret, Dret} /\ Clock(in, done)
    <2>1. Clears(in, done)
      BY <1>4, <1>9, <1>17
    <2> QED BY <1>0, <1>4, <1>17, <2>1, FlushEnds DEF Keeps
  <1>18. CASE ~traps /\ insn = Wfi /\ (Clock(in, halt) \/ Clock(in, sleep))
    <2>1. insn \notin {Mret, Dret} /\ ~debug_mode_q
      BY <1>2, <1>11, <1>18 DEF Flushed
    <2>2. CASE Clock(in, halt)
      <3>1. Clears(in, halt)
        BY <1>8, <1>9, <2>2
      <3> QED BY <1>0, <1>8, <1>18, <2>1, <3>1, FlushEnds DEF Done
    <2>3. CASE Clock(in, sleep)
      <3>1. Clears(in, sleep)
        BY <1>8, <1>9, <2>3
      <3> QED BY <1>0, <1>8, <1>18, <2>1, <3>1, FlushEnds DEF Keeps
    <2> QED BY <1>18, <2>2, <2>3
  <1>19. CASE ~traps /\ insn = Fencei /\ Clock(in, jump(Plus(pc_id, 1)))
    <2>1. Clears(in, jump(Plus(pc_id, 1)))
      BY <1>5, <1>9, <1>10, <1>19
    <2>2. pc_if = Plus(pc_id, 1) /\ insn \notin {Mret, Dret}
      BY <1>2, <1>11, <1>19 DEF Flushed
    <2> QED BY <1>0, <1>5, <1>10, <1>19, <2>1, <2>2, FlushEnds DEF Keeps
  <1> QED BY <1>12, <1>13, <1>14, <1>15, <1>16, <1>17, <1>18, <1>19
------------------------------------------------------------------------------
(* Debug mode is entered in the hart's eyes when the core goes to the ROM. *)
LEMMA EntersRom ==
  ASSUME Good, NEW in, NEW out, Clears(in, out), ctrl_fsm_cs # "DECODE_HWLOOP",
         ~arch_debug, out.ns = "DECODE", out.pc_set = DEBUG_ROM,
         out.debug_mode = TRUE,
         NEW cause \in {"step", "trigger", "ebreak", "haltreq"},
         cause = "step" <=> arch_stepped,
         cause = "trigger" => arch_pc = csr_n.trigger,
         cause = "ebreak" => Hart!insn = Ebreak /\ csr_n.dcsr = "ebreakm",
         out.csr = Halted(csr_n, arch_pc, cause)
  PROVE  HartStep
  <1>1. /\ instr_valid_id' = FALSE /\ branch_ex' = None /\ csr_n' = out.csr
        /\ pc_if' = DEBUG_ROM /\ ctrl_fsm_cs' = "DECODE" /\ debug_mode_q' = TRUE
    BY Cleared, JumpTypes, NoneAssumption DEF Good
  <1>2. arch_pc' = DEBUG_ROM
    BY <1>1, ArchPcNext DEF ArchPc, In
  <1>3. arch_debug' = TRUE /\ arch_stepped' = FALSE
    BY <1>1, ArchFlagsNext DEF ArchFlags, In
  <1>4. Cycled(in, out)
    BY DEF Clears
  <1>5. Hart!Halt(cause)
    BY <1>1, <1>2, <1>3, <1>4, HartSame, HartIsa, HartOperators DEF Hart!Halt
  <1> QED BY <1>5 DEF HartStep, Hart!HartNext

LEMMA InRom ==
  ASSUME Good, NEW in, NEW out, Clears(in, out), out.ns = "DECODE",
         out.debug_force_wakeup = FALSE, out.debug_req_entry = FALSE
  PROVE  Course'
  <1>1. /\ instr_valid_id' = FALSE /\ branch_ex' = None /\ csr_ex' = None
        /\ ctrl_fsm_cs' = "DECODE" /\ debug_req_entry_q' = FALSE
        /\ debug_force_wakeup_q' = FALSE
        /\ NoLoop' /\ CsrPending' /\ NextIs'
    BY Cleared
  <1> QED BY <1>1 DEF Course, FlagsInState, History, In

LEMMA DebugFlushSteps ==
  ASSUME Good, NEW in \in Inputs, DBG_WAIT_BRANCH(in) \/ DBG_FLUSH(in)
  PROVE  HartStep /\ Course'
  <1>0. Types
    BY DEF Good
  <1>1. CASE DBG_WAIT_BRANCH(in)
    <2> DEFINE out == [Quiet EXCEPT !.halt_if = TRUE, !.pc_set = branch_ex,
                                    !.ns = "DBG_FLUSH"]
    <2>0. ctrl_fsm_cs = "DBG_WAIT_BRANCH" /\ Clock(in, out)
      BY <1>1 DEF DBG_WAIT_BRANCH, In
    <2>1. /\ out \in Outputs /\ out.hwlp_end_4 = None /\ out.dec = {}
          /\ out.halt_if = TRUE /\ out.decoding = FALSE /\ out.csr = csr_n
          /\ out.ns = "DBG_FLUSH" /\ out.pc_set = branch_ex /\ Keeps(out)
      BY <1>0, QuietAnswer, QuietIs, JumpTypes DEF Outputs, States, Keeps
    <2> HIDE DEF out
    <2>2. /\ ~instr_valid_id /\ csr_n = csr /\ ~debug_req_entry_q
          /\ ~debug_force_wakeup_q
          /\ single_step /\ ~trigger_match /\ insn.op = "branch"
      BY <2>0 DEF Good, Course, FlagsInState, History, In, csr_n
    <2>3. Clears(in, out)
      BY <2>0, <2>1, <2>2 DEF Clears, Cycled
    <2>4. /\ instr_valid_id' = FALSE /\ pc_id' = pc_id /\ insn' = insn
          /\ branch_ex' = None /\ csr_ex' = None /\ csr_n' = csr_n /\ csr' = csr
          /\ pc_if' = IF branch_ex # None THEN branch_ex ELSE pc_if
          /\ ctrl_fsm_cs' = "DBG_FLUSH" /\ debug_mode_q' = debug_mode_q
          /\ debug_req_entry_q' = debug_req_entry_q
          /\ debug_force_wakeup_q' = debug_force_wakeup_q
          /\ NoLoop' /\ CsrPending' /\ NextIs'
      BY <2>1, <2>2, <2>3, Cleared DEF Keeps
    <2>5. single_step' /\ ~debug_mode_q /\ ~trigger_match'
      BY <2>2, <2>4 DEF single_step, trigger_match
    <2>6. insn # Ebreak
      BY <2>2 DEF Ebreak, Plain
    <2>7. ~taken_in_id'
      BY <2>2, <2>4, <2>5, <2>6 DEF taken_in_id
    <2>8. arch_pc' = arch_pc
      BY <2>0, <2>4, <2>7, ArchPcIs, ArchPcNext DEF ArchPc, In
    <2>9. (arch_debug' <=> arch_debug) /\ (arch_stepped' <=> arch_stepped)
      BY <2>0, <2>2, <2>4, <2>5, <2>7, ArchFlagsAre, ArchFlagsNext DEF ArchFlags, In
    <2>10. HartStep
      BY <2>3, <2>4, <2>8, <2>9, Idles DEF Clears
    <2>11. FlagsInState' /\ History'
      BY <2>2, <2>4, <2>5 DEF FlagsInState, History, In
    <2> QED BY <2>4, <2>10, <2>11 DEF Course
  <1>2. CASE DBG_FLUSH(in)
    <2> DEFINE out == [Stalled EXCEPT !.ns = IF taken_in_id THEN "DBG_TAKEN_ID"
                                             ELSE "DBG_TAKEN_IF"]
    <2>0. ctrl_fsm_cs = "DBG_FLUSH" /\ Clock(in, out)
      BY <1>2 DEF DBG_FLUSH, In
    <2>1. /\ out \in Outputs /\ out.hwlp_end_4 = None /\ out.dec = {}
          /\ out.halt_if = TRUE /\ out.halt_id = TRUE /\ out.decoding = FALSE
          /\ out.csr = csr_n /\ out.pc_set = None /\ Keeps(out)
          /\ out.ns = IF taken_in_id THEN "DBG_TAKEN_ID" ELSE "DBG_TAKEN_IF"
      BY <1>0, StalledAnswer, StalledIs DEF Outputs, States, Keeps
    <2> HIDE DEF out
    <2>2. Clears(in, out)
      BY <2>0, <2>1 DEF Clears, Cycled
    <2>3. /\ instr_valid_id' = FALSE /\ pc_id' = pc_id /\ insn' = insn
          /\ branch_ex' = None /\ csr_ex' = None /\ csr_n' = csr_n /\ csr' = csr_n
          /\ pc_if' = pc_if
          /\ ctrl_fsm_cs' = IF taken_in_id THEN "DBG_TAKEN_ID" ELSE "DBG_TAKEN_IF"
          /\ debug_mode_q' = debug_mode_q /\ debug_req_entry_q' = debug_req_entry_q
          /\ debug_force_wakeup_q' = debug_force_wakeup_q
          /\ NoLoop' /\ CsrPending' /\ NextIs'
      BY <2>1, <2>2, Cleared DEF Keeps
    <2>4. /\ taken_in_id \/ single_step
          /\ debug_mode_q => insn = Ebreak
          /\ branch_ex = None /\ ~debug_force_wakeup_q
      BY <2>0 DEF Good, Course, FlagsInState, History, In
    <2>5. csr_n.dcsr = csr.dcsr
      BY <2>0 DEF csr_n, CsrPending, Good, Course
    <2>6. single_step' <=> single_step
      BY <2>3, <2>5 DEF single_step
    <2>7. ~taken_in_id => ~debug_mode_q /\ ~debug_req_entry_q
      BY DEF taken_in_id
    <2>8. arch_pc' = arch_pc
      BY <2>0, <2>3, ArchPcIs, ArchPcNext DEF ArchPc, In
    <2>9. (arch_debug' <=> arch_debug) /\ (arch_stepped' <=> arch_stepped)
      BY <2>0, <2>3, <2>4, <2>6, ArchFlagsAre, ArchFlagsNext DEF ArchFlags, In
    <2>10. HartStep
      BY <2>2, <2>3, <2>8, <2>9, Idles DEF Clears
    <2>11. FlagsInState' /\ History'
      BY <2>3, <2>4, <2>6, <2>7 DEF FlagsInState, History, In
    <2> QED BY <2>3, <2>10, <2>11 DEF Course
  <1> QED BY <1>1, <1>2

LEMMA DebugTakenSteps ==
  ASSUME Good, NEW in \in Inputs, DBG_TAKEN_ID(in) \/ DBG_TAKEN_IF(in)
  PROVE  HartStep /\ Course'
  <1>0. Types
    BY DEF Good
  <1>1. /\ InDebugRom \in Outputs /\ InDebugRom.hwlp_end_4 = None
        /\ InDebugRom.pc_set = DEBUG_ROM /\ InDebugRom.pc_set # None
        /\ InDebugRom.csr = csr_n /\ InDebugRom.dec = {}
        /\ InDebugRom.decoding = FALSE /\ InDebugRom.ns = "DECODE"
        /\ InDebugRom.debug_mode = TRUE
        /\ InDebugRom.debug_req_entry = debug_req_entry_q
        /\ InDebugRom.debug_force_wakeup = debug_force_wakeup_q
    BY <1>0, QuietAnswer, QuietIs, JumpTypes, NoneAssumption
       DEF InDebugRom, Outputs, States
  <1>2. CASE DBG_TAKEN_ID(in)
    <2> DEFINE cause == CASE trigger_match -> "trigger"
                          [] ~trigger_match /\ ebrk_force_debug_mode
                             /\ insn = Ebreak -> "ebreak"
                          [] OTHER -> "haltreq"
               after == IF debug_mode_q THEN InDebugRom.csr
                        ELSE Halted(InDebugRom.csr, pc_id, cause)
               out == [InDebugRom EXCEPT !.debug_req_entry = FALSE, !.csr = after]
    <2>0. ctrl_fsm_cs = "DBG_TAKEN_ID" /\ Clock(in, out)
      BY <1>2 DEF DBG_TAKEN_ID, In
    <2>1. /\ ~instr_valid_id /\ csr_n = csr /\ ~debug_force_wakeup_q
          /\ debug_mode_q => insn = Ebreak
      BY <2>0 DEF Good, Course, FlagsInState, History, In, csr_n
    <2>2. /\ cause \in {"trigger", "ebreak", "haltreq"}
          /\ cause = "trigger" => csr.trigger = pc_id
          /\ cause = "ebreak" => insn = Ebreak /\ csr.dcsr = "ebreakm"
      BY DEF trigger_match, ebrk_force_debug_mode
    <2> HIDE DEF cause
    <2>3. /\ after \in Csrs
          /\ after = IF debug_mode_q THEN csr_n ELSE Halted(csr_n, pc_id, cause)
      <3>1. cause \in Causes
        BY <2>2 DEF Causes
      <3> QED BY <1>0, <1>1, <3>1, Fields, CsrChanges, JumpTypes
    <2> HIDE DEF after
    <2>4. /\ out \in Outputs /\ out.hwlp_end_4 = None /\ out.dec = {}
          /\ out.decoding = FALSE /\ out.csr = after /\ out.ns = "DECODE"
          /\ out.pc_set = DEBUG_ROM /\ out.pc_set # None /\ out.debug_mode = TRUE
          /\ out.debug_req_entry = FALSE /\ out.debug_force_wakeup = FALSE
      BY <1>1, <2>1, <2>3 DEF Outputs
    <2> HIDE DEF out
    <2>5. Clears(in, out)
      BY <2>0, <2>1, <2>4 DEF Clears, Cycled
    <2>6. Course'
      BY <2>4, <2>5, InRom
    <2>7. arch_pc = pc_id /\ ~arch_stepped /\ (arch_debug <=> debug_mode_q)
      BY <2>0, ArchPcIs, ArchFlagsAre DEF ArchPc, ArchFlags, In
    <2>8. Hart!insn = insn
      BY <2>7, HartInsn DEF insn
    <2>9. ASSUME debug_mode_q PROVE HartStep
      <3>1. /\ instr_valid_id' = FALSE /\ branch_ex' = None /\ csr_n' = csr_n
            /\ pc_if' = DEBUG_ROM /\ ctrl_fsm_cs' = "DECODE" /\ debug_mode_q' = TRUE
        BY <2>3, <2>4, <2>5, <2>9, Cleared
      <3>2. arch_pc' = DEBUG_ROM
        BY <3>1, ArchPcNext DEF ArchPc, In
      <3>3. arch_debug' = TRUE /\ ~arch_stepped'
        BY <3>1, ArchFlagsNext DEF ArchFlags, In
      <3>4. arch_debug = TRUE
        BY <2>7, <2>9, ArchFlagsAre DEF ArchFlags
      <3>5. Cycled(in, out)
        BY <2>5 DEF Clears
      <3>6. Hart!GoTo(DEBUG_ROM)
        BY <2>7, <3>2, <3>3, <3>4, <3>5, Goes
      <3>7. Hart!Park
        BY <2>1, <2>8, <2>9, <3>1, <3>3, <3>4, <3>5, <3>6, HartSame, HartIsa
           DEF Hart!Park
      <3> QED BY <3>7 DEF HartStep, Hart!HartNext
    <2>10. ASSUME ~debug_mode_q PROVE HartStep
      BY <2>0, <2>1, <2>2, <2>3, <2>4, <2>5, <2>7, <2>8, <2>10, EntersRom
    <2> QED BY <2>6, <2>9, <2>10
  <1>3. CASE DBG_TAKEN_IF(in)
    <2> DEFINE cause == IF debug_force_wakeup_q THEN "haltreq" ELSE "step"
               after == Halted(InDebugRom.csr, pc_if, cause)
               out == [InDebugRom EXCEPT !.debug_force_wakeup = FALSE, !.csr = after]
    <2>0. ctrl_fsm_cs = "DBG_TAKEN_IF" /\ Clock(in, out)
      BY <1>3 DEF DBG_TAKEN_IF, In
    <2>1. /\ ~instr_valid_id /\ ~debug_req_entry_q /\ ~debug_mode_q
          /\ debug_force_wakeup_q \/ single_step
      BY <2>0 DEF Good, Course, FlagsInState, History, In
    <2>2. /\ cause \in {"step", "haltreq"}
          /\ cause = "step" <=> ~debug_force_wakeup_q
      OBVIOUS
    <2> HIDE DEF cause
    <2>3. after \in Csrs /\ after = Halted(csr_n, pc_if, cause)
      <3>1. cause \in Causes
        BY <2>2 DEF Causes
      <3> QED BY <1>0, <1>1, <3>1, Fields, CsrChanges, JumpTypes
    <2> HIDE DEF after
    <2>4. /\ out \in Outputs /\ out.hwlp_end_4 = None /\ out.dec = {}
          /\ out.decoding = FALSE /\ out.csr = after /\ out.ns = "DECODE"
          /\ out.pc_set = DEBUG_ROM /\ out.pc_set # None /\ out.debug_mode = TRUE
          /\ out.debug_req_entry = FALSE /\ out.debug_force_wakeup = FALSE
      BY <1>1, <2>1, <2>3 DEF Outputs
    <2> HIDE DEF out
    <2>5. Clears(in, out)
      BY <2>0, <2>1, <2>4 DEF Clears, Cycled
    <2>6. Course'
      BY <2>4, <2>5, InRom
    <2>7. /\ arch_pc = pc_if
          /\ arch_stepped <=> ~debug_force_wakeup_q
          /\ ~arch_debug
      BY <2>0, <2>1, ArchPcIs, ArchFlagsAre DEF ArchPc, ArchFlags, In
    <2>8. HartStep
      BY <2>0, <2>2, <2>3, <2>4, <2>5, <2>7, EntersRom
    <2> QED BY <2>6, <2>8
  <1> QED BY <1>2, <1>3

LEMMA ReturnSteps ==
  ASSUME Good, NEW in \in Inputs, XRET_JUMP(in)
  PROVE  HartStep /\ Course'
  <1>0. Types /\ ctrl_fsm_cs = "XRET_JUMP"
    BY DEF Good, XRET_JUMP, In
  <1> DEFINE back == [Quiet EXCEPT !.ns = IF single_step THEN "DBG_TAKEN_IF"
                                          ELSE "DECODE",
                                   !.pc_set = xret_target]
             leave == [back EXCEPT !.debug_mode = FALSE]
  <1>1. \/ insn = Mret /\ Clock(in, back)
        \/ insn # Mret /\ Clock(in, leave)
    <2>1. Clock(in, IF insn = Mret THEN back ELSE leave)
      BY DEF XRET_JUMP
    <2> HIDE DEF back, leave
    <2> QED BY <2>1
  <1>2. /\ ~instr_valid_id /\ csr_n = csr /\ ~debug_req_entry_q
        /\ ~debug_force_wakeup_q
        /\ insn = Mret \/ (insn = Dret /\ debug_mode_q)
    BY <1>0 DEF Good, Course, FlagsInState, History, In, csr_n
  <1>3. /\ back \in Outputs /\ back.hwlp_end_4 = None /\ back.dec = {}
        /\ back.decoding = FALSE /\ back.csr = csr_n /\ back.pc_set = xret_target
        /\ back.ns = IF single_step THEN "DBG_TAKEN_IF" ELSE "DECODE"
        /\ xret_target # None /\ Keeps(back)
    BY <1>0, QuietAnswer, QuietIs, JumpTypes, NoneAssumption DEF Outputs, States, Keeps
  <1>4. /\ leave \in Outputs /\ leave.hwlp_end_4 = None /\ leave.dec = {}
        /\ leave.decoding = FALSE /\ leave.csr = csr_n /\ leave.pc_set = xret_target
        /\ leave.ns = IF single_step THEN "DBG_TAKEN_IF" ELSE "DECODE"
        /\ leave.debug_mode = FALSE /\ leave.debug_req_entry = debug_req_entry_q
        /\ leave.debug_force_wakeup = debug_force_wakeup_q
    <2> HIDE DEF back
    <2> QED BY <1>3 DEF Outputs, Keeps
  <1> HIDE DEF back, leave
  <1>5. Mret # Dret
    BY DEF Mret, Dret, Plain
  <1>6. PICK out : /\ Clears(in, out) /\ out.csr = csr_n /\ out.pc_set = xret_target
                   /\ out.ns = IF single_step THEN "DBG_TAKEN_IF" ELSE "DECODE"
                   /\ out.debug_mode <=> debug_mode_q /\ insn # Dret
                   /\ out.debug_req_entry = debug_req_entry_q
                   /\ out.debug_force_wakeup = debug_force_wakeup_q
    <2>1. CASE insn = Mret /\ Clock(in, back)
      BY <1>2, <1>3, <1>5, <2>1 DEF Clears, Cycled, Keeps
    <2>2. CASE insn # Mret /\ Clock(in, leave)
      BY <1>2, <1>3, <1>4, <2>2 DEF Clears, Cycled
    <2> QED BY <1>1, <2>1, <2>2
  <1>7. /\ instr_valid_id' = FALSE /\ branch_ex' = None /\ csr_ex' = None
        /\ csr_n' = csr_n /\ csr' = csr /\ pc_if' = xret_target
        /\ ctrl_fsm_cs' = IF single_step THEN "DBG_TAKEN_IF" ELSE "DECODE"
        /\ debug_mode_q' <=> debug_mode_q /\ insn # Dret
        /\ ~debug_req_entry_q' /\ ~debug_force_wakeup_q'
        /\ NoLoop' /\ CsrPending' /\ NextIs'
    BY <1>2, <1>3, <1>6, Cleared
  <1>8. arch_pc' = arch_pc
    BY <1>0, <1>7, ArchPcIs, ArchPcNext DEF ArchPc, In
  <1>9. single_step => insn = Mret /\ single_step'
    BY <1>2, <1>7 DEF single_step
  <1>10. (arch_debug' <=> arch_debug) /\ (arch_stepped' <=> arch_stepped)
    BY <1>0, <1>2, <1>7, <1>9, ArchFlagsAre, ArchFlagsNext DEF ArchFlags, In
  <1>11. HartStep
    BY <1>6, <1>7, <1>8, <1>10, Idles DEF Clears
  <1>12. FlagsInState' /\ History'
    <2>1. single_step => ~debug_mode_q'
      BY <1>7 DEF single_step
    <2> QED BY <1>7, <1>9, <2>1 DEF FlagsInState, History, In
  <1> QED BY <1>7, <1>11, <1>12 DEF Course
------------------------------------------------------------------------------
(* Without a clock nothing happens that software could see. *)
LEMMA GatedSteps ==
  ASSUME Good, ClockGated \/ UNCHANGED vars
  PROVE  HartStep /\ Course'
  <1>1. /\ scenario' = scenario
        /\ ctrl_fsm_cs' = ctrl_fsm_cs /\ jump_done_q' = jump_done_q
        /\ illegal_insn_q' = illegal_insn_q /\ debug_mode_q' = debug_mode_q
        /\ debug_req_entry_q' = debug_req_entry_q
        /\ debug_force_wakeup_q' = debug_force_wakeup_q
        /\ pc_if' = pc_if /\ hwlp_then' = hwlp_then
        /\ instr_valid_id' = instr_valid_id /\ pc_id' = pc_id
        /\ branch_ex' = branch_ex /\ csr_ex' = csr_ex /\ csr' = csr
        /\ hwlp_start_q' = hwlp_start_q /\ hwlp_end_q' = hwlp_end_q
        /\ hwlp_counter_q' = hwlp_counter_q
    BY DEF ClockGated, Ungated, vars, fsmRegs, pipeline, hwlpRegs
  <1>2. /\ insn' = insn /\ csr_n' = csr_n /\ single_step' = single_step
        /\ ebrk_force_debug_mode' = ebrk_force_debug_mode
        /\ trigger_match' = trigger_match /\ exception' = exception
        /\ traps' = traps
    BY <1>1 DEF insn, csr_n, single_step, ebrk_force_debug_mode, trigger_match,
                exception, traps
  <1>3. xret_target' = xret_target /\ taken_in_id' = taken_in_id
    BY <1>1, <1>2 DEF xret_target, taken_in_id
  <1>4. arch_pc' = arch_pc
    BY <1>1, <1>2, <1>3 DEF arch_pc, unsettled, In, DecodeStates
  <1>5. arch_debug' = arch_debug /\ arch_stepped' = arch_stepped
    BY <1>1, <1>2, <1>3 DEF arch_debug, arch_stepped, In
  <1>6. HartStep
    BY <1>1, <1>2, <1>4, <1>5, Stutter DEF HartStep
  <1>7. NoLoop' /\ FlagsInState' /\ NextIs'
    BY <1>1, <1>2 DEF Good, Course, NoLoop, FlagsInState, NextIs
  <1>8. CsrPending'
    BY <1>1, <1>2 DEF Good, Course, CsrPending
  <1>9. Flushed' = Flushed
    BY <1>1, <1>2 DEF Flushed, csr_status
  <1>10. History'
    BY <1>1, <1>2, <1>3, <1>9 DEF Good, Course, History, In
  <1> QED BY <1>6, <1>7, <1>8, <1>10 DEF Course

LEMMA CourseNext ==
  ASSUME Good, [Next]_vars
  PROVE  HartStep /\ Good'
  <1>1. ASSUME NEW in \in Inputs, Cycle(in)
        PROVE  HartStep /\ Course'
    BY <1>1, StartSteps, FetchSteps, HaltSteps, ExecutingSteps, FlushExSteps,
       FlushWbSteps, ReturnSteps, DebugFlushSteps, DebugTakenSteps DEF Cycle
  <1>2. HartStep /\ Course'
    BY <1>1, GatedSteps DEF Next
  <1>3. Types'
    BY TypesNext DEF Good
  <1>4. scenario' = scenario
    <2>1. ASSUME NEW in \in Inputs, Cycle(in) PROVE scenario' = scenario
      BY <2>1, CycleAnswered DEF Answered, Clock, Ungated, Good
    <2> QED BY <2>1 DEF Next, ClockGated, Ungated, vars
  <1>5. LoopFree'
    BY <1>4 DEF LoopFree, Good
  <1> QED BY <1>2, <1>3, <1>5 DEF Good

LEMMA CourseInit ==
  ASSUME Init, LoopFree
  PROVE  Good /\ Hart!HartInit
  <1>1. Types
    BY InitTypes
  <1>2. Course
    BY DEF Init, HwlpInit, Course, NoLoop, FlagsInState, CsrPending, NextIs, History, In
  <1>3. arch_pc = Boot /\ ~arch_debug /\ ~arch_stepped
    BY ArchPcIs DEF ArchPc, In, Init, arch_debug, arch_stepped
  <1>4. csr_n = CsrReset
    BY DEF Init, csr_n
  <1>5. /\ hwlp_start_q = [k \in Loops |-> 0] /\ hwlp_end_q = [k \in Loops |-> 0]
        /\ [k \in Loops |-> IF hwlp_counter_q[k] = 0 THEN 0
                            ELSE hwlp_counter_q[k] - 1] = [k \in Loops |-> 0]
    BY DEF Init, HwlpInit
  <1>6. Hart!HartInit
    BY <1>3, <1>4, <1>5, HartIsa DEF Hart!HartInit
  <1> QED BY <1>1, <1>2, <1>6 DEF Good

(* Software that uses no hardware loop sees one instruction after the      *)
(* other, whatever the memory, the interrupt lines, the debugger and the   *)
(* rest of the core do: the controller implements Hart.                    *)
THEOREM StraightCodeIsHart == Spec /\ LoopFree => ImplementsHart
  <1>1. Init /\ LoopFree => Good /\ Hart!HartInit
    BY CourseInit
  <1>2. Good /\ [Next]_vars => HartStep /\ Good'
    BY CourseNext
  <1> QED BY <1>1, <1>2, PTL DEF Spec, ImplementsHart, Hart!HartSpec, HartStep
==============================================================================
