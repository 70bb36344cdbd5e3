----------------------------- MODULE ControlFlow -----------------------------
(***************************************************************************)
(* The control flow of the core: rtl/cv32e40p_controller.sv, composed with *)
(* the hardware-loop registers, the interrupt controller, the sleep unit,  *)
(* the CSRs that direct it, and the parts of the decode and execute stages *)
(* it reads.  The fetch stage is represented by what it promises,          *)
(* InstrStream, which module IfStage implements.                           *)
(*                                                                         *)
(* One step is one edge of the free-running clock.  PULP_XPULP = 1,        *)
(* PULP_CLUSTER = 0, PULP_SECURE = 0; the memory reports no errors.  A     *)
(* scenario is a program with the number of interrupts, the number of      *)
(* halt requests and debugger choices, and the addresses of triggers.      *)
(***************************************************************************)
EXTENDS HwloopRegs, IntController, SleepUnit

CONSTANTS Scenarios, Line

ASSUME LineAssumption == Line \in IRQ_MASK
ASSUME NoneAssumption ==
  /\ None \notin Address /\ None \notin Csrs
  /\ \A a \in Address : None # << a, << a >> >>
ASSUME ScenariosAssumption ==
  \A i \in DOMAIN Scenarios :
    /\ Scenarios[i].code \in Seq(Instructions(0 .. COUNT - 1))
    /\ Scenarios[i].irqs \in Nat /\ Scenarios[i].debugs \in Nat
    /\ Scenarios[i].choices \in Nat /\ Scenarios[i].triggers \subseteq Address

(* No body ends one instruction behind another, nor where a body would end *)
(* whose end was never written: the ends of nested loops are at least two  *)
(* instructions apart (corev_hw_loop.rst:61-63).                           *)
ASSUME LoopsAssumption ==
  \A i \in DOMAIN Scenarios :
    \A e \in {0} \cup LoopEnds(Scenarios[i].code) :
      Plus(e, 1) \notin {0} \cup LoopEnds(Scenarios[i].code)

VARIABLES
  scenario,
  (* the controller *)
  ctrl_fsm_cs, jump_done_q, illegal_insn_q, hwlp_end_4_id_q,
  debug_mode_q, debug_req_q, debug_req_entry_q, debug_force_wakeup_q,
  (* the fetch stage: next address, pending loop target, last handover *)
  pc_if, hwlp_then, issued, if_busy,
  (* the IF/ID registers *)
  instr_valid_id, pc_id,
  (* the execute stage: target of a taken branch; value a CSR instruction *)
  (* is about to write; something takes several cycles *)
  branch_ex, csr_ex, ex_busy,
  csr,
  (* the environment *)
  irq_i, debug_req_i, fetch_enable_i, irqs, debugs, choices

fsmRegs == << ctrl_fsm_cs, jump_done_q, illegal_insn_q, hwlp_end_4_id_q,
              debug_mode_q, debug_req_entry_q, debug_force_wakeup_q >>
pipeline == << pc_if, hwlp_then, issued, instr_valid_id, pc_id,
               branch_ex, csr_ex, ex_busy, csr, choices >>
inputs == << irq_i, debug_req_i, fetch_enable_i, irqs, debugs >>
vars == << scenario, fsmRegs, debug_req_q, pipeline, if_busy, inputs,
           hwlpRegs, irq_q, sleepRegs >>

if_stage_i == INSTANCE InstrStream
  WITH HALVES <- SPACE, long <- {}, pc <- pc_if, then <- hwlp_then

Init ==
  /\ \E i \in DOMAIN Scenarios : scenario = Scenarios[i]
  /\ ctrl_fsm_cs = "RESET"
  /\ jump_done_q = FALSE /\ illegal_insn_q = FALSE /\ hwlp_end_4_id_q = FALSE
  /\ debug_mode_q = FALSE /\ debug_req_q = FALSE
  /\ debug_req_entry_q = FALSE /\ debug_force_wakeup_q = FALSE
  /\ pc_if = 0 /\ hwlp_then = None /\ issued = None /\ if_busy = FALSE
  /\ instr_valid_id = FALSE /\ pc_id = 0
  /\ branch_ex = None /\ csr_ex = None /\ ex_busy = FALSE
  /\ csr = CsrReset
  /\ irq_i = {} /\ debug_req_i = FALSE /\ fetch_enable_i = FALSE
  /\ irqs = scenario.irqs /\ debugs = scenario.debugs
  /\ choices = scenario.choices
  /\ HwlpInit /\ IntInit /\ SleepInit
------------------------------------------------------------------------------
(* The instruction in decode.  It stays in the IF/ID register after it has *)
(* been handed on, which FLUSH_WB and XRET_JUMP rely on.                   *)
insn == Code(scenario.code, pc_id)

(* The value of the CSRs once the CSR instruction in EX has written.       *)
csr_n == IF csr_ex = None THEN csr ELSE csr_ex
mie_bypass == csr_n.lines
m_irq_enable == csr.mie /\ csr.dcsr # "step"

single_step == csr.dcsr = "step" /\ ~debug_mode_q
ebrk_force_debug_mode == csr.dcsr = "ebreakm"
trigger_match == csr.trigger = pc_id

debug_req_pending == debug_req_i \/ debug_req_q
irq_req == irq_req_ctrl_o(mie_bypass, m_irq_enable)
sleeps_through_irq == debug_req_pending \/ debug_mode_q
wake_from_sleep ==
  irq_wu_ctrl_o(irq_i, mie_bypass) \/ debug_req_pending \/ debug_mode_q

wfi_active ==
  insn = Wfi /\ ~(debug_mode_q \/ debug_req_pending
                  \/ csr.dcsr = "step" \/ trigger_match)

hwlp_end_eq_pc(k) == hwlp_end_q[k] = Plus(pc_id, 1)
hwlp_end_eq_pc_plus8(k) == hwlp_end_q[k] = Plus(pc_id, 3)
hwlp_end_eq_pc_plus4(k) == hwlp_end_q[k] = Plus(pc_id, 2)
hwlp_counter_gt_1(k) == hwlp_counter_q[k] > 1
hwlp_in_range(k) ==
  hwlp_start_q[k] <= pc_id /\ hwlp_end_q[k] >= Plus(pc_id, 1)
is_hwlp_body == \E k \in Loops : hwlp_in_range(k) /\ hwlp_counter_gt_1(k)

(* The loop whose start is the target of a PC_HWLOOP jump.                 *)
hwlp_targ == IF hwlp_in_range(1) /\ ~hwlp_in_range(0) THEN 1 ELSE 0

(* The debug registers and dret exist in debug mode only.                  *)
csr_illegal == insn = Debugger /\ ~debug_mode_q
illegal_insn == (insn = Dret /\ ~debug_mode_q) \/ csr_illegal
not_in_hwlp == insn.op \in {"jump", "branch", "mret", "dret", "fencei"}
               \/ wfi_active
is_hwlp_illegal ==
  not_in_hwlp /\ (ctrl_fsm_cs = "DECODE" => is_hwlp_body)
------------------------------------------------------------------------------
(***************************************************************************)
(* The outputs of the controller in one cycle: next state, jump target,    *)
(* loop-jump target with hwlp_end_4_id_d, loops to decrement, next values  *)
(* of its registers and of the CSRs.                                       *)
(***************************************************************************)
Quiet ==
  [ns |-> ctrl_fsm_cs, req |-> TRUE, busy |-> TRUE, decoding |-> FALSE,
   halt_if |-> FALSE, halt_id |-> FALSE, pc_set |-> None,
   jump_done |-> jump_done_q, hwlp_end_4 |-> None, dec |-> {}, mask |-> FALSE,
   illegal |-> illegal_insn_q, debug_mode |-> debug_mode_q,
   debug_req_entry |-> debug_req_entry_q,
   debug_force_wakeup |-> debug_force_wakeup_q, ack |-> FALSE,
   drained |-> FALSE, csr |-> csr_n]

Stalled == [Quiet EXCEPT !.halt_if = TRUE, !.halt_id = TRUE]

Decoded ==
  [Quiet EXCEPT !.decoding = TRUE,
                !.illegal = @ /\ ctrl_fsm_cs = "DECODE_HWLOOP"]

InterruptTaken(out, pc) ==
  [out EXCEPT !.halt_if = TRUE, !.halt_id = TRUE, !.pc_set = IRQ,
              !.ack = TRUE, !.csr = Trapped(@, pc), !.ns = "DECODE"]

(* The inputs: whether the fetch stage offers an instruction and whether   *)
(* decode may hand its own on, which only something in EX or WB prevents.  *)
Inputs == {in \in [offer : BOOLEAN, id_ready : BOOLEAN] :
             ~in.id_ready => ex_busy}

handover(in, out) ==
  in.offer /\ out.req /\ ~out.halt_if /\ in.id_ready /\ out.pc_set = None

clear_instr_valid(in, out) == in.id_ready \/ out.halt_id \/ branch_ex # None

(* The instruction in decode enters EX with its effects.                   *)
issue(in, out) ==
  out.decoding /\ in.id_ready /\ ~out.halt_id /\ ~illegal_insn

Fetch(in, out) ==
  \/ /\ out.pc_set # None
     /\ if_stage_i!Branch(out.pc_set)
  \/ /\ out.pc_set = None
     /\ IF out.hwlp_end_4 # None /\ ~hwlp_end_4_id_q
          THEN /\ if_stage_i!LoopJump(out.hwlp_end_4)
               /\ issued' # None <=> handover(in, out)
          ELSE IF handover(in, out) THEN if_stage_i!Issue ELSE if_stage_i!Wait

IfIdRegs(in, out) ==
  IF handover(in, out)
    THEN instr_valid_id' = TRUE /\ pc_id' = pc_if
    ELSE /\ instr_valid_id' = (instr_valid_id /\ ~clear_instr_valid(in, out))
         /\ UNCHANGED pc_id

(* The debugger asks for a mode or a trigger as often as the scenario      *)
(* leaves it.                                                              *)
Choices(set, default) == IF choices > 0 THEN set ELSE default

IdExRegs(in, out) ==
  LET writes == CsrWrites(csr_n, insn, Choices(DebugModes, {"none"}),
                          Choices(scenario.triggers, {}))
  IN  /\ csr_ex' \in IF issue(in, out) /\ writes # {} THEN writes ELSE {None}
      /\ choices' = IF csr_ex' # None /\ insn = Debugger
                       /\ << csr_ex'.dcsr, csr_ex'.trigger >> # << "none", None >>
                     THEN choices - 1 ELSE choices
      /\ branch_ex' \in IF issue(in, out) /\ insn.op = "branch"
                          THEN {None, Target(pc_id, insn)} ELSE {None}
      /\ ex_busy' \in IF \/ issue(in, out) /\ insn = Load
                         \/ ex_busy /\ ~out.drained
                      THEN BOOLEAN ELSE {FALSE}

LoopRegs(in, out) ==
  HwlpClock(IF insn.op = "hwloop" /\ out.decoding /\ ~out.mask /\ in.id_ready
              THEN insn ELSE None,
            pc_id, out.dec, instr_valid_id /\ clear_instr_valid(in, out))

(* An interrupt line stays up until it is acknowledged; a halt request may *)
(* be a pulse and ends in debug mode.                                      *)
Environment(ack) ==
  /\ IF irq_i = {}
       THEN irq_i' \in {{}} \cup (IF irqs > 0 THEN {{Line}} ELSE {})
       ELSE irq_i' = IF ack THEN {} ELSE irq_i
  /\ irqs' = IF irq_i = {} /\ irq_i' # {} THEN irqs - 1 ELSE irqs
  /\ debug_req_i' \in {FALSE} \cup
       (IF debug_req_i THEN {~debug_mode_q} ELSE {debugs > 0})
  /\ debugs' = IF ~debug_req_i /\ debug_req_i' THEN debugs - 1 ELSE debugs
  /\ fetch_enable_i' \in {TRUE, fetch_enable_i}

(* A halt request is kept until the core is in debug mode.                 *)
debug_req_pulse == debug_req_i
debug_req_d == debug_req_i \/ (debug_req_q /\ ~debug_mode_q)

(* What is clocked while the core sleeps.                                  *)
Ungated(busy, ack) ==
  /\ SleepClock(fetch_enable_i, if_busy, busy, ex_busy)
  /\ debug_req_q' = debug_req_d
  /\ Environment(ack)
  /\ UNCHANGED scenario

Clock(in, out) ==
  /\ clock_en(wake_from_sleep)
  /\ ctrl_fsm_cs' = out.ns
  /\ jump_done_q' = (out.jump_done /\ ~in.id_ready)
  /\ illegal_insn_q' = out.illegal
  /\ hwlp_end_4_id_q' = (out.hwlp_end_4 # None)
  /\ debug_mode_q' = out.debug_mode
  /\ debug_req_entry_q' = out.debug_req_entry
  /\ debug_force_wakeup_q' = out.debug_force_wakeup
  /\ csr' = out.csr
  /\ Fetch(in, out) /\ IfIdRegs(in, out) /\ IdExRegs(in, out)
  /\ if_busy' \in IF out.req THEN {TRUE} ELSE {FALSE, if_busy}
  /\ LoopRegs(in, out)
  /\ IntClock(irq_i)
  /\ Ungated(out.busy, out.ack)

(* The clock of the core is off.                                           *)
ClockGated ==
  /\ ~clock_en(wake_from_sleep)
  /\ Ungated(ctrl_fsm_cs \notin {"WAIT_SLEEP", "SLEEP"}, FALSE)
  /\ UNCHANGED << fsmRegs, pipeline, if_busy, hwlpRegs, irq_q >>
------------------------------------------------------------------------------
(* The states of the controller, one action per case.                      *)
In(states) == ctrl_fsm_cs \in states

RESET(in) ==
  /\ In({"RESET"})
  /\ Clock(in, [Quiet EXCEPT !.req = FALSE,
                            !.ns = IF fetch_enable_q THEN "BOOT_SET" ELSE @])

(* A halt request while the core starts or sleeps is taken at once, with   *)
(* the address of the next instruction.                                    *)
Awake(out) ==
  [out EXCEPT
     !.ns = IF debug_req_pending THEN "DBG_TAKEN_IF" ELSE "FIRST_FETCH",
     !.debug_force_wakeup = @ \/ debug_req_pending]

BOOT_SET(in) ==
  In({"BOOT_SET"}) /\ Clock(in, Awake([Quiet EXCEPT !.pc_set = Boot]))

WAIT_SLEEP(in) ==
  /\ In({"WAIT_SLEEP"})
  /\ Clock(in, [Stalled EXCEPT !.busy = FALSE, !.req = FALSE, !.ns = "SLEEP"])

SLEEP(in) ==
  LET asleep == [Stalled EXCEPT !.req = FALSE]
  IN  /\ In({"SLEEP"})
      /\ Clock(in, IF wake_from_sleep THEN Awake(asleep)
                   ELSE [asleep EXCEPT !.busy = FALSE])

FIRST_FETCH(in) ==
  /\ In({"FIRST_FETCH"})
  /\ Clock(in, IF irq_req /\ ~(debug_req_pending \/ debug_mode_q)
                 THEN InterruptTaken(Quiet, pc_if)
                 ELSE [Quiet EXCEPT !.ns = "DECODE"])
------------------------------------------------------------------------------
DecodeStates == {"DECODE", "DECODE_HWLOOP"}

BranchTaken(in) ==
  /\ In({"DECODE"}) /\ branch_ex # None
  /\ Clock(in, [Quiet EXCEPT !.pc_set = branch_ex])

NoInstruction(in) ==
  /\ In(DecodeStates) /\ ~instr_valid_id
  /\ In({"DECODE"}) => branch_ex = None
  /\ Clock(in, Quiet)

Decoding ==
  /\ In(DecodeStates) /\ instr_valid_id
  /\ In({"DECODE"}) => branch_ex = None

halt_for_debug == (debug_req_pending \/ trigger_match) /\ ~debug_mode_q

HaltForDebug(in) ==
  /\ Decoding /\ halt_for_debug
  /\ Clock(in, [Decoded EXCEPT !.halt_if = TRUE, !.halt_id = TRUE,
                              !.ns = "DBG_FLUSH", !.debug_req_entry = TRUE])

TakeInterrupt(in) ==
  /\ Decoding /\ ~halt_for_debug /\ irq_req /\ ~debug_mode_q
  /\ Clock(in, InterruptTaken([Decoded EXCEPT !.decoding = FALSE, !.mask = TRUE],
                             pc_id))

Executing == Decoding /\ ~halt_for_debug /\ ~(irq_req /\ ~debug_mode_q)

(* What single-stepping makes of the next state, once the instruction goes. *)
step_ns ==
  CASE illegal_insn \/ insn.op \in {"ecall", "mret"}
       \/ (insn = Ebreak /\ ~ebrk_force_debug_mode) -> "FLUSH_EX"
    [] insn.op = "branch" -> "DBG_WAIT_BRANCH"
    [] OTHER -> "DBG_FLUSH"

Execute(in, out) ==
  Clock(in, IF ~single_step THEN out
            ELSE [out EXCEPT !.halt_if = TRUE,
                             !.ns = IF in.id_ready THEN step_ns ELSE @])

(* The instruction waits in decode until it can be flushed; at the end of  *)
(* a loop body (DECODE_HWLOOP) it is at once.                              *)
Flushing(in) ==
  [Decoded EXCEPT !.halt_if = TRUE,
                  !.ns = IF in.id_ready THEN "FLUSH_EX" ELSE @]
FlushingNow(in) ==
  IF In({"DECODE"}) THEN Flushing(in)
  ELSE [Decoded EXCEPT !.halt_if = TRUE, !.halt_id = TRUE, !.ns = "FLUSH_EX"]

illegal == illegal_insn \/ is_hwlp_illegal

IllegalInstruction(in) ==
  /\ Executing /\ illegal
  /\ Execute(in, [FlushingNow(in) EXCEPT !.illegal = TRUE])

(* A jump that waits in decode has been made (jump_done_q), unless it      *)
(* waits for its own operand.                                              *)
JumpInDecode(in) ==
  /\ Executing /\ ~illegal /\ insn.op = "jump"
  /\ \E jr_stall \in {FALSE, ~in.id_ready} :
       Execute(in, IF jr_stall \/ jump_done_q THEN Decoded
                   ELSE [Decoded EXCEPT !.pc_set = Target(pc_id, insn),
                                        !.jump_done = TRUE])

EbreakInDecode(in) ==
  /\ Executing /\ ~illegal /\ insn = Ebreak
  /\ Execute(in, IF debug_mode_q \/ ebrk_force_debug_mode
                   THEN [Decoded EXCEPT !.halt_if = TRUE,
                                        !.halt_id = In({"DECODE_HWLOOP"}),
                                        !.ns = "DBG_FLUSH"]
                   ELSE FlushingNow(in))

EcallInDecode(in) ==
  /\ Executing /\ ~illegal /\ insn = Ecall
  /\ Execute(in, FlushingNow(in))

flushes == \/ insn.op \in {"fencei", "mret", "dret"} \/ wfi_active
           \/ csr_status(insn)

FlushInDecode(in) ==
  /\ Executing /\ ~illegal /\ flushes
  /\ Execute(in, Flushing(in))

plain == ~illegal /\ ~flushes /\ insn.op \notin {"jump", "ebreak", "ecall"}

(* From the last instruction but one DECODE_HWLOOP would come too late.     *)
body_ns_always == "DECODE_HWLOOP"
body_ns == IF \E k \in Loops : hwlp_end_eq_pc_plus4(k) THEN "DECODE"
           ELSE "DECODE_HWLOOP"

(* Elsewhere, and for the instruction at which a loop body is entered,     *)
(* also in the middle by a return from a handler.  A return to the last    *)
(* one jumps at once.                                                      *)
PlainInDecode(in) ==
  LET ending == {k \in Loops : hwlp_end_eq_pc(k) /\ hwlp_counter_gt_1(k)}
      body == [Decoded EXCEPT !.ns = body_ns]
  IN  /\ In({"DECODE"}) /\ Executing /\ plain
      /\ Execute(in,
           CASE ~is_hwlp_body -> Decoded
             [] is_hwlp_body /\ (ending = {} \/ jump_done_q) -> body
             [] OTHER -> [body EXCEPT !.pc_set = hwlp_start_q[hwlp_targ],
                                      !.jump_done = TRUE, !.dec = ending])

(* Within a loop body: the jump is made while the last instruction but one *)
(* is in decode.  Loop 0 has precedence.                                   *)
PlainInHwloop(in) ==
  LET near == {k \in Loops : hwlp_end_eq_pc_plus4(k)}
      k == IF 0 \in near THEN 0 ELSE 1
      jumping == {j \in near : hwlp_counter_gt_1(j)}
      j == IF 0 \in jumping THEN 0 ELSE 1
  IN  /\ In({"DECODE_HWLOOP"}) /\ Executing /\ plain
      /\ Execute(in,
           [Decoded EXCEPT
              !.dec = {i \in Loops : hwlp_end_eq_pc(i)},
              !.hwlp_end_4 = IF jumping = {} THEN None ELSE hwlp_start_q[j],
              !.ns = IF near = {} \/ hwlp_counter_gt_1(k) \/ is_hwlp_body
                       THEN "DECODE_HWLOOP" ELSE "DECODE"])
------------------------------------------------------------------------------
(* The instruction has entered EX; everything before it is completed.      *)
FLUSH_EX(in) ==
  /\ In({"FLUSH_EX"})
  /\ \/ ex_busy /\ Clock(in, Stalled)
     \/ LET traps == illegal_insn_q \/ insn \in {Ebreak, Ecall}
             silent == debug_mode_q /\ (illegal_insn_q \/ insn = Ecall)
         IN  Clock(in, [Stalled EXCEPT
                          !.ns = "FLUSH_WB", !.drained = TRUE,
                          !.csr = IF traps /\ ~silent THEN Trapped(@, pc_id)
                                  ELSE @])

exception == IF debug_mode_q THEN DEBUG_EXCEPTION ELSE EXCEPTION

FLUSH_WB(in) ==
  LET done == [Stalled EXCEPT !.ns = "DECODE"]
      jump(target) == [done EXCEPT !.pc_set = target]
      trap(target) ==
        [jump(target) EXCEPT !.illegal = FALSE,
                             !.ns = IF single_step THEN "DBG_TAKEN_IF" ELSE @]
      ending == {k \in Loops : hwlp_end_eq_pc(k) /\ hwlp_counter_gt_1(k)}
  IN  /\ In({"FLUSH_WB"})
      /\ Clock(in,
           CASE illegal_insn_q \/ insn = Ecall -> trap(exception)
             [] ~illegal_insn_q /\ insn = Ebreak -> trap(EXCEPTION)
             [] ~illegal_insn_q /\ insn = Mret ->
                  [done EXCEPT !.ns = "XRET_JUMP",
                               !.csr = IF debug_mode_q THEN @ ELSE Restored(@)]
             [] ~illegal_insn_q /\ insn = Dret -> [done EXCEPT !.ns = "XRET_JUMP"]
             [] ~illegal_insn_q /\ csr_status(insn) ->
                  IF ending = {} THEN done
                  ELSE [jump(hwlp_start_q[hwlp_targ]) EXCEPT !.dec = ending]
             [] ~illegal_insn_q /\ insn = Wfi ->
                  IF debug_req_pending
                    THEN [done EXCEPT !.ns = "DBG_TAKEN_IF",
                                      !.debug_force_wakeup = TRUE]
                    ELSE [done EXCEPT !.ns = "WAIT_SLEEP"]
             [] ~illegal_insn_q /\ insn = Fencei -> jump(Plus(pc_id, 1))
             [] OTHER -> done)

xret_target == IF insn = Dret THEN csr.dpc
               ELSE IF debug_mode_q THEN DEBUG_EXCEPTION ELSE csr.mepc

XRET_JUMP(in) ==
  LET back == [Quiet EXCEPT !.ns = IF single_step THEN "DBG_TAKEN_IF"
                                   ELSE "DECODE",
                          !.pc_set = xret_target]
  IN  /\ In({"XRET_JUMP"})
      /\ Clock(in, IF insn = Mret THEN back
                   ELSE [back EXCEPT !.debug_mode = FALSE])

(* A branch is stepped over: where it goes is known one cycle later.       *)
DBG_WAIT_BRANCH(in) ==
  /\ In({"DBG_WAIT_BRANCH"})
  /\ Clock(in, [Quiet EXCEPT !.halt_if = TRUE, !.pc_set = branch_ex,
                            !.ns = "DBG_FLUSH"])

(* Everything but a single step goes through DBG_TAKEN_ID.                 *)
taken_in_id == \/ debug_mode_q \/ trigger_match \/ debug_req_entry_q
               \/ ebrk_force_debug_mode /\ insn = Ebreak

DBG_FLUSH(in) ==
  /\ In({"DBG_FLUSH"})
  /\ Clock(in, [Stalled EXCEPT !.ns = IF taken_in_id THEN "DBG_TAKEN_ID"
                                     ELSE "DBG_TAKEN_IF"])

InDebugRom == [Quiet EXCEPT !.ns = "DECODE", !.pc_set = DEBUG_ROM,
                            !.debug_mode = TRUE]

DBG_TAKEN_ID(in) ==
  LET cause == CASE trigger_match -> "trigger"
                 [] ~trigger_match /\ ebrk_force_debug_mode /\ insn = Ebreak ->
                      "ebreak"
                 [] OTHER -> "haltreq"
  IN  /\ In({"DBG_TAKEN_ID"})
      /\ Clock(in, [InDebugRom EXCEPT
                      !.debug_req_entry = FALSE,
                      !.csr = IF debug_mode_q THEN @ ELSE Halted(@, pc_id, cause)])

DBG_TAKEN_IF(in) ==
  /\ In({"DBG_TAKEN_IF"})
  /\ Clock(in, [InDebugRom EXCEPT
                  !.debug_force_wakeup = FALSE,
                  !.csr = Halted(@, pc_if, IF debug_force_wakeup_q THEN "haltreq"
                                           ELSE "step")])

Cycle(in) ==
  \/ RESET(in) \/ BOOT_SET(in) \/ WAIT_SLEEP(in) \/ SLEEP(in)
  \/ FIRST_FETCH(in)
  \/ BranchTaken(in) \/ NoInstruction(in) \/ HaltForDebug(in)
  \/ TakeInterrupt(in) \/ IllegalInstruction(in) \/ JumpInDecode(in)
  \/ EbreakInDecode(in) \/ EcallInDecode(in) \/ FlushInDecode(in)
  \/ PlainInDecode(in) \/ PlainInHwloop(in)
  \/ FLUSH_EX(in) \/ FLUSH_WB(in) \/ XRET_JUMP(in)
  \/ DBG_WAIT_BRANCH(in) \/ DBG_FLUSH(in)
  \/ DBG_TAKEN_ID(in) \/ DBG_TAKEN_IF(in)

Next == ClockGated \/ \E in \in Inputs : Cycle(in)

Spec == Init /\ [][Next]_vars

(* The fetch stage goes on offering instructions (PrefetchBuffer, IfStage) *)
(* and what takes several cycles ends (LoadStore): both again and again in *)
(* one cycle.  Fetch is enabled some day.                                  *)
Smooth == [offer |-> TRUE, id_ready |-> TRUE]

Fairness ==
  /\ WF_vars(/\ Cycle(Smooth)
             /\ ~ex_busy' /\ fetch_enable_i'
             /\ In({"SLEEP"}) => ~if_busy')
  /\ WF_vars(ClockGated /\ fetch_enable_i')

FairSpec == Spec /\ Fairness
------------------------------------------------------------------------------
States ==
  {"RESET", "BOOT_SET", "WAIT_SLEEP", "SLEEP", "FIRST_FETCH", "DECODE",
   "DECODE_HWLOOP", "FLUSH_EX", "FLUSH_WB", "XRET_JUMP", "DBG_WAIT_BRANCH",
   "DBG_FLUSH", "DBG_TAKEN_ID", "DBG_TAKEN_IF"}

TypeOK ==
  /\ ctrl_fsm_cs \in States
  /\ \A b \in {jump_done_q, illegal_insn_q, hwlp_end_4_id_q, debug_mode_q,
               debug_req_q, debug_req_entry_q, debug_force_wakeup_q, if_busy,
               instr_valid_id, ex_busy, debug_req_i, fetch_enable_i,
               core_busy_q, fetch_enable_q} : b \in BOOLEAN
  /\ pc_if \in Address /\ pc_id \in Address
  /\ hwlp_then \in Address \cup {None} /\ branch_ex \in Address \cup {None}
  /\ hwlp_start_q \in [Loops -> Address] /\ hwlp_end_q \in [Loops -> Address]
  /\ hwlp_counter_q \in [Loops -> 0 .. COUNT - 1]
  /\ irq_i \in {{}, {Line}} /\ irq_q \in {{}, {Line}}
  /\ csr \in Csrs /\ csr_ex \in Csrs \cup {None}
  /\ irqs \in 0 .. scenario.irqs /\ debugs \in 0 .. scenario.debugs
  /\ choices \in 0 .. scenario.choices

(***************************************************************************)
(* The state software sees.  An instruction is executed when it leaves     *)
(* decode; the one being flushed when its effect on the PC is settled.     *)
(***************************************************************************)
traps == illegal_insn_q \/ insn \in {Ebreak, Ecall}

(* The instruction in the IF/ID register is still the one to be executed.  *)
unsettled ==
  \/ In(DecodeStates) /\ instr_valid_id
  \/ In({"FLUSH_EX"}) /\ (traps \/ insn \in {Mret, Dret})
  \/ In({"FLUSH_WB"}) /\ ~traps /\ insn \in {Mret, Dret}
  \/ In({"DBG_TAKEN_ID"}) \/ (In({"DBG_FLUSH"}) /\ taken_in_id)

arch_pc ==
  CASE In({"RESET", "BOOT_SET"}) -> Boot
    [] In({"FLUSH_WB"}) /\ traps -> exception
    [] In({"XRET_JUMP"}) -> xret_target
    [] In({"DECODE", "DBG_WAIT_BRANCH"}) /\ branch_ex # None -> branch_ex
    [] unsettled /\ ~(In({"DECODE"}) /\ branch_ex # None) -> pc_id
    [] OTHER -> pc_if

arch_debug == debug_mode_q /\ ~(In({"XRET_JUMP"}) /\ insn = Dret)

arch_stepped ==
  /\ single_step
  /\ \/ In({"DBG_WAIT_BRANCH"})
     \/ In({"DBG_TAKEN_IF"}) /\ ~debug_force_wakeup_q
     \/ In({"DBG_FLUSH"}) /\ ~taken_in_id
     \/ In({"FLUSH_WB"}) /\ traps
     \/ In({"XRET_JUMP"}) /\ insn = Mret

Hart == INSTANCE Hart
  WITH code <- scenario.code, triggers <- scenario.triggers,
       pc <- arch_pc, csr <- csr_n, debug <- arch_debug,
       stepped <- arch_stepped, start <- hwlp_start_q, end <- hwlp_end_q,
       again <- [k \in Loops |-> IF hwlp_counter_q[k] = 0 THEN 0
                                 ELSE hwlp_counter_q[k] - 1]

(* Software sees one instruction after the other: with stalls, interrupts, *)
(* halt requests, triggers, single steps and sleep in any order, no        *)
(* instruction is lost or executed twice, mepc and dpc are where execution *)
(* goes on, and a loop body is run as often as its counter says.           *)
ImplementsHart == Hart!HartSpec

(* A loop jump reaches the fetch stage only while the last but one         *)
(* instruction is in decode and the last one is next to be fetched, once:  *)
(* what IfStage assumes (cv32e40p_controller.sv:1251-1258).                *)
LoopJumpsFit ==
  [][~hwlp_end_4_id_q /\ hwlp_end_4_id_q' =>
       /\ instr_valid_id /\ hwlp_then = None
       /\ pc_if = Plus(pc_id, 1)
       /\ \E k \in Loops : hwlp_end_q[k] = Plus(pc_if, 1)]_vars

(* Whenever the last instruction of a loop body is executed the counter of *)
(* the loop is decremented (corev_hw_loop.rst:32-33).                      *)
LoopEndsCounted ==
  [][\A k \in Loops :
       /\ hwlp_in_range(k) /\ hwlp_end_eq_pc(k) /\ hwlp_counter_gt_1(k)
       /\ \/ Executing /\ plain /\ (instr_valid_id' => issued' # None)
          \/ In({"FLUSH_WB"}) /\ ~illegal_insn_q /\ csr_status(insn)
       => hwlp_counter_q'[k] = hwlp_counter_q[k] - 1]_vars

(* The clock is gated only while nothing is under way whose answer would   *)
(* be lost (cv32e40p_sleep_unit.sv:126).                                   *)
NoAnswerLost ==
  ~clock_en(wake_from_sleep) /\ fetch_enable_q => ~if_busy /\ ~ex_busy

(* A halt request, even a pulse while the clock is gated, is answered.     *)
HaltTaken == debug_req_q ~> debug_mode_q

(* An interrupt line that rises is served, unless software masks it.       *)
InterruptServed == irq_i # {} ~> irq_i = {} \/ csr.lines = {}

(* The program gets to its end, or sleeps with no reason to wake up.       *)
Finishes ==
  \/ <>(instr_valid_id /\ pc_id = Stop(scenario.code))
  \/ <>[](In({"SLEEP"}) /\ ~wake_from_sleep)
==============================================================================
