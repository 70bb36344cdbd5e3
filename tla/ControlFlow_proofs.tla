-------------------------- MODULE ControlFlow_proofs --------------------------
EXTENDS ControlFlow, Integers, TLAPS

(***************************************************************************)
(* Three theorems.  SleepsOnlyWhenIdle has an invariant of its own;        *)
(* TypeCorrect and LoopJumpFits share a description of what the controller *)
(* answers in each cycle, one lemma for each group of actions, on which    *)
(* Hart_proofs rests as well.                                              *)
(***************************************************************************)

(***************************************************************************)
(* The sleep unit registers whether anything was busy, and the registers   *)
(* it has asked may have changed in the same cycle.  What makes the stale  *)
(* answer safe is the inductive invariant: once the unit has seen nothing  *)
(* busy, nothing became busy behind its back.                              *)
(***************************************************************************)
IdleIsIdle == ~core_busy_q => ~if_busy /\ ~ex_busy

(* The controller is busy, or it neither requests nor issues instructions. *)
Calm(out) == out.busy = TRUE \/ (out.req = FALSE /\ out.decoding = FALSE)

LEMMA NoAnswerLostWhenIdle == IdleIsIdle => NoAnswerLost
  BY DEF IdleIsIdle, NoAnswerLost, clock_en

LEMMA CalmCycle ==
  ASSUME NEW in, NEW out, Calm(out), Clock(in, out)
  PROVE  IdleIsIdle'
  <1>1. /\ core_busy_q' = (if_busy \/ out.busy \/ ex_busy)
        /\ if_busy' \in IF out.req THEN {TRUE} ELSE {FALSE, if_busy}
        /\ ex_busy' \in IF \/ issue(in, out) /\ insn = Load
                           \/ ex_busy /\ ~out.drained
                        THEN BOOLEAN ELSE {FALSE}
    BY DEF Clock, Ungated, SleepClock, core_busy_d, IdExRegs
  <1>2. SUFFICES ASSUME ~if_busy, ~out.busy, ~ex_busy
                 PROVE  ~if_busy' /\ ~ex_busy'
    BY <1>1 DEF IdleIsIdle
  <1>3. out.req = FALSE /\ ~issue(in, out)
    BY <1>2 DEF Calm, issue
  <1> QED BY <1>1, <1>2, <1>3

(* What execution adds for a single step leaves an output busy.            *)
LEMMA CalmExecution ==
  ASSUME NEW in, NEW out, "busy" \in DOMAIN out, out.busy = TRUE, Execute(in, out)
  PROVE  IdleIsIdle'
  <1> DEFINE stepped == [out EXCEPT !.halt_if = TRUE,
                                    !.ns = IF in.id_ready THEN step_ns ELSE @]
  <1>1. Clock(in, IF ~single_step THEN out ELSE stepped)
    BY DEF Execute
  <1>2. stepped.busy = TRUE
    OBVIOUS
  <1> HIDE DEF stepped
  <1> QED BY <1>1, <1>2, CalmCycle DEF Calm

(* The outputs the actions start from. *)
LEMMA QuietOutputs ==
  /\ "busy" \in DOMAIN Quiet /\ Quiet.busy = TRUE
  /\ "busy" \in DOMAIN Stalled /\ Stalled.busy = TRUE
  /\ "busy" \in DOMAIN Decoded /\ Decoded.busy = TRUE
  BY DEF Quiet, Stalled, Decoded

LEMMA FlushingOutputs ==
  ASSUME NEW in
  PROVE  /\ "busy" \in DOMAIN Flushing(in) /\ Flushing(in).busy = TRUE
         /\ "busy" \in DOMAIN FlushingNow(in) /\ FlushingNow(in).busy = TRUE
  BY QuietOutputs DEF Flushing, FlushingNow

LEMMA InterruptOutputs ==
  ASSUME NEW out, NEW pc, "busy" \in DOMAIN out, out.busy = TRUE
  PROVE  InterruptTaken(out, pc).busy = TRUE
  BY DEF InterruptTaken

LEMMA AwakeOutputs ==
  ASSUME NEW out, "busy" \in DOMAIN out, out.busy = TRUE
  PROVE  Awake(out).busy = TRUE
  BY DEF Awake
------------------------------------------------------------------------------
LEMMA StartCalm ==
  ASSUME NEW in, RESET(in) \/ BOOT_SET(in) \/ WAIT_SLEEP(in) \/ SLEEP(in)
                 \/ FIRST_FETCH(in)
  PROVE  IdleIsIdle'
  <1>1. CASE RESET(in)
    <2> DEFINE out == [Quiet EXCEPT !.req = FALSE,
                                    !.ns = IF fetch_enable_q THEN "BOOT_SET" ELSE @]
    <2>1. Clock(in, out)
      BY <1>1 DEF RESET
    <2>2. out.busy = TRUE
      BY QuietOutputs
    <2> HIDE DEF out
    <2> QED BY <2>1, <2>2, CalmCycle DEF Calm
  <1>2. CASE BOOT_SET(in)
    <2> DEFINE set == [Quiet EXCEPT !.pc_set = Boot]
    <2>1. "busy" \in DOMAIN set /\ set.busy = TRUE
      BY QuietOutputs
    <2>2. Clock(in, Awake(set))
      BY <1>2 DEF BOOT_SET
    <2> HIDE DEF set
    <2> QED BY <2>1, <2>2, AwakeOutputs, CalmCycle DEF Calm
  <1>3. CASE WAIT_SLEEP(in)
    <2> DEFINE out == [Stalled EXCEPT !.busy = FALSE, !.req = FALSE, !.ns = "SLEEP"]
    <2>1. Clock(in, out)
      BY <1>3 DEF WAIT_SLEEP
    <2>2. out.req = FALSE /\ out.decoding = FALSE
      BY DEF Stalled, Quiet
    <2> HIDE DEF out
    <2> QED BY <2>1, <2>2, CalmCycle DEF Calm
  <1>4. CASE SLEEP(in)
    <2> DEFINE asleep == [Stalled EXCEPT !.req = FALSE]
               quiet == [asleep EXCEPT !.busy = FALSE]
    <2>1. Clock(in, IF wake_from_sleep THEN Awake(asleep) ELSE quiet)
      BY <1>4 DEF SLEEP
    <2>2. "busy" \in DOMAIN asleep /\ asleep.busy = TRUE
      BY QuietOutputs
    <2>3. quiet.req = FALSE /\ quiet.decoding = FALSE
      BY DEF Stalled, Quiet
    <2> HIDE DEF asleep, quiet
    <2> QED BY <2>1, <2>2, <2>3, AwakeOutputs, CalmCycle DEF Calm
  <1>5. CASE FIRST_FETCH(in)
    <2> DEFINE decode == [Quiet EXCEPT !.ns = "DECODE"]
               taken == InterruptTaken(Quiet, pc_if)
    <2>1. decode.busy = TRUE /\ taken.busy = TRUE
      BY QuietOutputs, InterruptOutputs
    <2>2. Clock(in, taken) \/ Clock(in, decode)
      BY <1>5 DEF FIRST_FETCH
    <2> HIDE DEF decode, taken
    <2> QED BY <2>1, <2>2, CalmCycle DEF Calm
  <1> QED BY <1>1, <1>2, <1>3, <1>4, <1>5
------------------------------------------------------------------------------
LEMMA DecodeCalm ==
  ASSUME NEW in, BranchTaken(in) \/ NoInstruction(in) \/ HaltForDebug(in)
                 \/ TakeInterrupt(in)
  PROVE  IdleIsIdle'
  <1>1. CASE BranchTaken(in)
    <2> DEFINE out == [Quiet EXCEPT !.pc_set = branch_ex]
    <2>1. Clock(in, out)
      BY <1>1 DEF BranchTaken
    <2>2. out.busy = TRUE
      BY QuietOutputs
    <2> HIDE DEF out
    <2> QED BY <2>1, <2>2, CalmCycle DEF Calm
  <1>2. CASE NoInstruction(in)
    BY <1>2, QuietOutputs, CalmCycle DEF NoInstruction, Calm
  <1>3. CASE HaltForDebug(in)
    <2> DEFINE out == [Decoded EXCEPT !.halt_if = TRUE, !.halt_id = TRUE,
                                      !.ns = "DBG_FLUSH", !.debug_req_entry = TRUE]
    <2>1. Clock(in, out)
      BY <1>3 DEF HaltForDebug
    <2>2. out.busy = TRUE
      BY QuietOutputs
    <2> HIDE DEF out
    <2> QED BY <2>1, <2>2, CalmCycle DEF Calm
  <1>4. CASE TakeInterrupt(in)
    <2> DEFINE masked == [Decoded EXCEPT !.decoding = FALSE, !.mask = TRUE]
    <2>1. "busy" \in DOMAIN masked /\ masked.busy = TRUE
      BY QuietOutputs
    <2>2. Clock(in, InterruptTaken(masked, pc_id))
      BY <1>4 DEF TakeInterrupt
    <2> HIDE DEF masked
    <2> QED BY <2>1, <2>2, InterruptOutputs, CalmCycle DEF Calm
  <1> QED BY <1>1, <1>2, <1>3, <1>4

LEMMA ExecuteCalm ==
  ASSUME NEW in, IllegalInstruction(in) \/ JumpInDecode(in) \/ EbreakInDecode(in)
                 \/ EcallInDecode(in) \/ FlushInDecode(in) \/ PlainInDecode(in)
                 \/ PlainInHwloop(in)
  PROVE  IdleIsIdle'
  <1>1. CASE IllegalInstruction(in)
    <2> DEFINE out == [FlushingNow(in) EXCEPT !.illegal = TRUE]
    <2>1. Execute(in, out)
      BY <1>1 DEF IllegalInstruction
    <2>2. "busy" \in DOMAIN out /\ out.busy = TRUE
      BY FlushingOutputs
    <2> HIDE DEF out
    <2> QED BY <2>1, <2>2, CalmExecution
  <1>2. CASE JumpInDecode(in)
    <2> DEFINE jump == [Decoded EXCEPT !.pc_set = Target(pc_id, insn),
                                       !.jump_done = TRUE]
    <2>1. Execute(in, Decoded) \/ Execute(in, jump)
      BY <1>2 DEF JumpInDecode
    <2>2. "busy" \in DOMAIN jump /\ jump.busy = TRUE
      BY QuietOutputs
    <2> HIDE DEF jump
    <2> QED BY <2>1, <2>2, QuietOutputs, CalmExecution
  <1>3. CASE EbreakInDecode(in)
    <2> DEFINE halt == [Decoded EXCEPT !.halt_if = TRUE,
                                       !.halt_id = In({"DECODE_HWLOOP"}),
                                       !.ns = "DBG_FLUSH"]
    <2>1. Execute(in, halt) \/ Execute(in, FlushingNow(in))
      BY <1>3 DEF EbreakInDecode
    <2>2. "busy" \in DOMAIN halt /\ halt.busy = TRUE
      BY QuietOutputs
    <2> HIDE DEF halt
    <2> QED BY <2>1, <2>2, FlushingOutputs, CalmExecution
  <1>4. CASE EcallInDecode(in) \/ FlushInDecode(in)
    BY <1>4, FlushingOutputs, CalmExecution DEF EcallInDecode, FlushInDecode
  <1>5. CASE PlainInDecode(in)
    <2> DEFINE ending == {k \in Loops : hwlp_end_eq_pc(k) /\ hwlp_counter_gt_1(k)}
               body == [Decoded EXCEPT !.ns = body_ns]
               jump == [body EXCEPT !.pc_set = hwlp_start_q[hwlp_targ],
                                    !.jump_done = TRUE, !.dec = ending]
    <2>1. \/ Execute(in, Decoded) \/ Execute(in, body) \/ Execute(in, jump)
      <3>1. Execute(in,
              CASE ~is_hwlp_body -> Decoded
                [] is_hwlp_body /\ (ending = {} \/ jump_done_q) -> body
                [] OTHER -> jump)
        BY <1>5 DEF PlainInDecode
      <3> HIDE DEF ending, body, jump
      <3> QED BY <3>1
    <2>2. "busy" \in DOMAIN body /\ body.busy = TRUE
      BY QuietOutputs
    <2>3. "busy" \in DOMAIN jump /\ jump.busy = TRUE
      BY QuietOutputs
    <2> HIDE DEF body, jump
    <2> QED BY <2>1, <2>2, <2>3, QuietOutputs, CalmExecution
  <1>6. CASE PlainInHwloop(in)
    <2>1. PICK dec, target, ns :
            Execute(in, [Decoded EXCEPT !.dec = dec, !.hwlp_end_4 = target, !.ns = ns])
      BY <1>6 DEF PlainInHwloop
    <2> DEFINE out == [Decoded EXCEPT !.dec = dec, !.hwlp_end_4 = target, !.ns = ns]
    <2>2. "busy" \in DOMAIN out /\ out.busy = TRUE
      BY QuietOutputs
    <2>3. Execute(in, out)
      BY <2>1
    <2> HIDE DEF out
    <2> QED BY <2>2, <2>3, CalmExecution
  <1> QED BY <1>1, <1>2, <1>3, <1>4, <1>5, <1>6
------------------------------------------------------------------------------
LEMMA FlushCalm ==
  ASSUME NEW in, FLUSH_EX(in) \/ FLUSH_WB(in)
  PROVE  IdleIsIdle'
  <1>1. CASE FLUSH_EX(in)
    <2>1. \/ Clock(in, Stalled)
          \/ \E after : Clock(in, [Stalled EXCEPT !.ns = "FLUSH_WB", !.drained = TRUE,
                                                  !.csr = after])
      <3> DEFINE silent == debug_mode_q /\ (illegal_insn_q \/ insn = Ecall)
                 trapped == (illegal_insn_q \/ insn \in {Ebreak, Ecall}) /\ ~silent
                 after == IF trapped THEN Trapped(Stalled.csr, pc_id) ELSE Stalled.csr
      <3>1. \/ Clock(in, Stalled)
            \/ Clock(in, [Stalled EXCEPT !.ns = "FLUSH_WB", !.drained = TRUE,
                                         !.csr = IF trapped THEN Trapped(@, pc_id)
                                                 ELSE @])
        BY <1>1 DEF FLUSH_EX
      <3> QED BY <3>1
    <2>2. ASSUME NEW after
          PROVE  [Stalled EXCEPT !.ns = "FLUSH_WB", !.drained = TRUE,
                                 !.csr = after].busy = TRUE
      BY QuietOutputs
    <2> QED BY <2>1, <2>2, QuietOutputs, CalmCycle DEF Calm
  <1>2. CASE FLUSH_WB(in)
    <2> DEFINE done == [Stalled EXCEPT !.ns = "DECODE"]
               jump(target) == [done EXCEPT !.pc_set = target]
               trap(target) ==
                 [jump(target) EXCEPT !.illegal = FALSE,
                                      !.ns = IF single_step THEN "DBG_TAKEN_IF" ELSE @]
               ending == {k \in Loops : hwlp_end_eq_pc(k) /\ hwlp_counter_gt_1(k)}
               mret == [done EXCEPT !.ns = "XRET_JUMP",
                                    !.csr = IF debug_mode_q THEN @ ELSE Restored(@)]
               dret == [done EXCEPT !.ns = "XRET_JUMP"]
               loop == [jump(hwlp_start_q[hwlp_targ]) EXCEPT !.dec = ending]
               halt == [done EXCEPT !.ns = "DBG_TAKEN_IF", !.debug_force_wakeup = TRUE]
               sleep == [done EXCEPT !.ns = "WAIT_SLEEP"]
    <2>1. Clock(in,
           CASE illegal_insn_q \/ insn = Ecall -> trap(exception)
             [] ~illegal_insn_q /\ insn = Ebreak -> trap(EXCEPTION)
             [] ~illegal_insn_q /\ insn = Mret -> mret
             [] ~illegal_insn_q /\ insn = Dret -> dret
             [] ~illegal_insn_q /\ csr_status(insn) -> IF ending = {} THEN done ELSE loop
             [] ~illegal_insn_q /\ insn = Wfi -> IF debug_req_pending THEN halt ELSE sleep
             [] ~illegal_insn_q /\ insn = Fencei -> jump(Plus(pc_id, 1))
             [] OTHER -> done)
      BY <1>2 DEF FLUSH_WB
    <2>2. done.busy = TRUE /\ "busy" \in DOMAIN done
      BY QuietOutputs
    <2>3. \A target : jump(target).busy = TRUE /\ "busy" \in DOMAIN jump(target)
      BY <2>2
    <2>4. \A target : trap(target).busy = TRUE
      BY <2>3
    <2>5. /\ mret.busy = TRUE /\ dret.busy = TRUE /\ loop.busy = TRUE
          /\ halt.busy = TRUE /\ sleep.busy = TRUE
      BY <2>2, <2>3
    <2>6. ASSUME NEW out, out.busy = TRUE, Clock(in, out)
          PROVE  IdleIsIdle'
      BY <2>6, CalmCycle DEF Calm
    <2> HIDE DEF done, jump, trap, ending, mret, dret, loop, halt, sleep
    <2>7. \/ Clock(in, trap(exception)) \/ Clock(in, trap(EXCEPTION))
          \/ Clock(in, mret) \/ Clock(in, dret) \/ Clock(in, done) \/ Clock(in, loop)
          \/ Clock(in, halt) \/ Clock(in, sleep) \/ Clock(in, jump(Plus(pc_id, 1)))
      BY <2>1
    <2> QED BY <2>2, <2>3, <2>4, <2>5, <2>6, <2>7
  <1> QED BY <1>1, <1>2

LEMMA DebugCalm ==
  ASSUME NEW in, XRET_JUMP(in) \/ DBG_WAIT_BRANCH(in) \/ DBG_FLUSH(in)
                 \/ DBG_TAKEN_ID(in) \/ DBG_TAKEN_IF(in)
  PROVE  IdleIsIdle'
  <1>1. ASSUME NEW out, out.busy = TRUE, Clock(in, out)
        PROVE  IdleIsIdle'
    BY <1>1, CalmCycle DEF Calm
  <1>2. CASE XRET_JUMP(in)
    <2> DEFINE back == [Quiet EXCEPT !.ns = IF single_step THEN "DBG_TAKEN_IF"
                                            ELSE "DECODE",
                                     !.pc_set = xret_target]
               leave == [back EXCEPT !.debug_mode = FALSE]
    <2>1. Clock(in, IF insn = Mret THEN back ELSE leave)
      BY <1>2 DEF XRET_JUMP
    <2>2. back.busy = TRUE /\ leave.busy = TRUE
      BY QuietOutputs
    <2> HIDE DEF back, leave
    <2> QED BY <1>1, <2>1, <2>2
  <1>3. CASE DBG_WAIT_BRANCH(in)
    <2> DEFINE out == [Quiet EXCEPT !.halt_if = TRUE, !.pc_set = branch_ex,
                                    !.ns = "DBG_FLUSH"]
    <2>1. Clock(in, out)
      BY <1>3 DEF DBG_WAIT_BRANCH
    <2>2. out.busy = TRUE
      BY QuietOutputs
    <2> HIDE DEF out
    <2> QED BY <1>1, <2>1, <2>2
  <1>4. CASE DBG_FLUSH(in)
    <2>1. PICK ns : Clock(in, [Stalled EXCEPT !.ns = ns])
      BY <1>4 DEF DBG_FLUSH
    <2>2. [Stalled EXCEPT !.ns = ns].busy = TRUE
      BY QuietOutputs
    <2> QED BY <1>1, <2>1, <2>2
  <1> DEFINE rom == [Quiet EXCEPT !.ns = "DECODE", !.pc_set = DEBUG_ROM,
                                  !.debug_mode = TRUE]
  <1>5. "busy" \in DOMAIN rom /\ rom.busy = TRUE /\ InDebugRom = rom
    BY QuietOutputs DEF InDebugRom
  <1>6. CASE DBG_TAKEN_ID(in)
    <2>1. PICK after : Clock(in, [InDebugRom EXCEPT !.debug_req_entry = FALSE,
                                                    !.csr = after])
      BY <1>6 DEF DBG_TAKEN_ID
    <2> DEFINE out == [InDebugRom EXCEPT !.debug_req_entry = FALSE, !.csr = after]
    <2>2. out.busy = TRUE
      BY <1>5
    <2> HIDE DEF out
    <2> QED BY <1>1, <2>1, <2>2 DEF out
  <1>7. CASE DBG_TAKEN_IF(in)
    <2>1. PICK after : Clock(in, [InDebugRom EXCEPT !.debug_force_wakeup = FALSE,
                                                    !.csr = after])
      BY <1>7 DEF DBG_TAKEN_IF
    <2>2. [InDebugRom EXCEPT !.debug_force_wakeup = FALSE, !.csr = after].busy = TRUE
      BY <1>5
    <2> QED BY <1>1, <2>1, <2>2
  <1> QED BY <1>2, <1>3, <1>4, <1>6, <1>7
------------------------------------------------------------------------------
(* The clock is gated only while nothing is under way whose answer would   *)
(* be lost (cv32e40p_sleep_unit.sv:126).                                   *)
THEOREM SleepsOnlyWhenIdle == Spec => []NoAnswerLost
  <1>1. Init => IdleIsIdle
    BY DEF Init, IdleIsIdle
  <1>2. IdleIsIdle /\ [Next]_vars => IdleIsIdle'
    <2>1. ASSUME NEW in \in Inputs, Cycle(in)
          PROVE  IdleIsIdle'
      BY <2>1, StartCalm, DecodeCalm, ExecuteCalm, FlushCalm, DebugCalm DEF Cycle
    <2>2. CASE ClockGated
      BY <2>2 DEF ClockGated, Ungated, SleepClock, core_busy_d, IdleIsIdle, pipeline
    <2>3. ASSUME IdleIsIdle, UNCHANGED vars
          PROVE  IdleIsIdle'
      BY <2>3 DEF vars, pipeline, sleepRegs, IdleIsIdle
    <2> QED BY <2>1, <2>2, <2>3 DEF Next
  <1> QED BY <1>1, <1>2, NoAnswerLostWhenIdle, PTL DEF Spec
------------------------------------------------------------------------------
(* The scenario is one of those given. *)
Known == \E i \in DOMAIN Scenarios : scenario = Scenarios[i]

Types == TypeOK /\ Known

Instrs == Instructions(0 .. COUNT - 1)

(* What the controller may answer in a cycle. *)
Outputs ==
  [ns : States, req : BOOLEAN, busy : BOOLEAN, decoding : BOOLEAN,
   halt_if : BOOLEAN, halt_id : BOOLEAN, pc_set : Address \cup {None},
   jump_done : BOOLEAN, hwlp_end_4 : Address \cup {None}, dec : SUBSET Loops,
   mask : BOOLEAN, illegal : BOOLEAN, debug_mode : BOOLEAN,
   debug_req_entry : BOOLEAN, debug_force_wakeup : BOOLEAN, ack : BOOLEAN,
   drained : BOOLEAN, csr : Csrs]
------------------------------------------------------------------------------
LEMMA PlusTypes ==
  ASSUME NEW a \in Nat, NEW n \in Nat
  PROVE  Plus(a, n) \in Address
  BY DEF Plus, Address, SPACE

LEMMA NextTypes ==
  ASSUME NEW a \in Address
  PROVE  a \in Nat /\ Plus(a, 1) \in Address /\ Plus(a, 2) \in Address
  BY DEF Plus, Address, SPACE

LEMMA PlusIs ==
  ASSUME NEW a \in Address
  PROVE  /\ Plus(Plus(a, 1), 1) = Plus(a, 2)
         /\ Plus(a, 1) # a
  BY DEF Plus, Address, SPACE

LEMMA PlainTypes ==
  /\ Alu \in Instrs /\ Load \in Instrs /\ Ecall \in Instrs /\ Ebreak \in Instrs
  /\ Mret \in Instrs /\ Dret \in Instrs /\ Skip \in Instrs
  /\ Debugger \in Instrs /\ \A n \in Nat : Jump(n) \in Instrs
  BY DEF Instrs, Instructions, Alu, Load, Ecall, Ebreak, Mret, Dret, Skip,
         Debugger, Jump, Plain

LEMMA CodeTypes ==
  ASSUME NEW program \in Seq(Instrs), NEW a \in Address
  PROVE  Code(program, a) \in Instrs
  <1>1. \A i \in 1 .. Len(program) : program[i] \in Instrs
    OBVIOUS
  <1>2. Len(program) \in Nat
    OBVIOUS
  <1>3. Within(Boot, program, a) => At(Boot, program, a) \in Instrs
    BY <1>1, <1>2 DEF Within, At, Boot, Address
  <1>4. Within(EXCEPTION, sw_irq_handler, a) => At(EXCEPTION, sw_irq_handler, a) \in Instrs
    BY PlainTypes DEF Within, At, EXCEPTION, sw_irq_handler, Address
  <1>5. Within(IRQ, verification_irq_handler, a) =>
          At(IRQ, verification_irq_handler, a) \in Instrs
    BY PlainTypes DEF Within, At, IRQ, verification_irq_handler, Address
  <1>6. Within(DEBUG_ROM, debug_rom, a) => At(DEBUG_ROM, debug_rom, a) \in Instrs
    BY PlainTypes DEF Within, At, DEBUG_ROM, debug_rom, Address
  <1>7. Within(DEBUG_EXCEPTION, debug_exception, a) =>
          At(DEBUG_EXCEPTION, debug_exception, a) \in Instrs
    BY PlainTypes DEF Within, At, DEBUG_EXCEPTION, debug_exception, Address
  <1> QED BY <1>3, <1>4, <1>5, <1>6, <1>7, PlainTypes DEF Code

LEMMA ScenarioTypes ==
  ASSUME Known
  PROVE  /\ scenario.code \in Seq(Instrs)
         /\ scenario.irqs \in Nat /\ scenario.debugs \in Nat
         /\ scenario.choices \in Nat /\ scenario.triggers \subseteq Address
  BY ScenariosAssumption DEF Known, Instrs

LEMMA InsnTypes ==
  ASSUME Types
  PROVE  insn \in Instrs
  BY ScenarioTypes, CodeTypes DEF Types, TypeOK, insn

LEMMA InstrsAre ==
  ASSUME NEW i \in Instrs
  PROVE  /\ i.op \in {"jump", "branch"} => i.offset \in Nat
         /\ i.op = "csrs mie" => i.lines \subseteq 0 .. 31
         /\ i.op = "hwloop" => /\ i.k \in Loops
                               /\ i.start \in Nat \cup {None}
                               /\ i.end \in Nat \cup {None}
                               /\ i.count \in (0 .. COUNT - 1) \cup {None}
  <1>1. CASE i \in {Plain(op) : op \in
                     {"alu", "load", "ecall", "ebreak", "mret", "dret", "wfi",
                      "fencei", "csrs mstatus.mie", "csrw mepc", "csrc mie",
                      "csrw dcsr"}}
    <2>1. PICK op \in {"alu", "load", "ecall", "ebreak", "mret", "dret", "wfi",
                       "fencei", "csrs mstatus.mie", "csrw mepc", "csrc mie",
                       "csrw dcsr"} : i = [op |-> op]
      BY <1>1 DEF Plain
    <2>2. i.op = op
      BY <2>1
    <2> QED BY <2>1, <2>2
  <1>2. CASE i \in [op : {"jump", "branch"}, offset : Nat]
    BY <1>2
  <1>3. CASE i \in [op : {"csrs mie"}, lines : SUBSET (0 .. 31)]
    BY <1>3
  <1>4. CASE i \in [op : {"hwloop"}, k : Loops, start : Nat \cup {None},
                    end : Nat \cup {None}, count : (0 .. COUNT - 1) \cup {None}]
    BY <1>4
  <1> QED BY <1>1, <1>2, <1>3, <1>4 DEF Instrs, Instructions
------------------------------------------------------------------------------
(* The values a CSR instruction may write. *)
LEMMA CsrChanges ==
  ASSUME NEW c \in Csrs, NEW a \in Address, NEW cause \in Causes
  PROVE  /\ Trapped(c, a) \in Csrs /\ Restored(c) \in Csrs
         /\ Halted(c, a, cause) \in Csrs
  BY DEF Csrs, Trapped, Restored, Halted

LEMMA CsrFields ==
  ASSUME NEW c \in Csrs
  PROVE  /\ c.mie \in BOOLEAN /\ c.mpie \in BOOLEAN /\ c.mepc \in Address
         /\ c.lines \in SUBSET (0 .. 31) /\ c.dcsr \in DebugModes
         /\ c.cause \in Causes /\ c.dpc \in Address
         /\ c.trigger \in Address \cup {None}
  BY DEF Csrs

LEMMA ResumedTypes ==
  ASSUME NEW c \in Csrs, NEW mode \in DebugModes, NEW trigger \in Address \cup {None}
  PROVE  /\ Resumed(c, mode, trigger) \in Csrs
         /\ Resumed(c, mode, trigger).dcsr = mode
         /\ Resumed(c, mode, trigger).trigger = trigger
  <1>1. Plus(c.dpc, 1) \in Address
    BY CsrFields, NextTypes
  <1> QED BY <1>1 DEF Csrs, Resumed

LEMMA WritesTypes ==
  ASSUME NEW c \in Csrs, NEW i \in Instrs, NEW modes \in SUBSET DebugModes,
         NEW triggers \in SUBSET Address
  PROVE  /\ CsrWrites(c, i, modes, triggers) \subseteq Csrs
         /\ i = Debugger =>
              \A w \in CsrWrites(c, i, modes, triggers) :
                w.dcsr \in modes /\ w.trigger \in triggers \cup {None}
  <1>1. [c EXCEPT !.mie = TRUE] \in Csrs /\ [c EXCEPT !.lines = {}] \in Csrs
    BY DEF Csrs
  <1>2. [c EXCEPT !.mepc = Plus(@, 1)] \in Csrs
    <2>1. Plus(c.mepc, 1) \in Address
      BY CsrFields, NextTypes
    <2> QED BY <2>1 DEF Csrs
  <1>3. i.op = "csrs mie" => [c EXCEPT !.lines = @ \cup i.lines] \in Csrs
    <2>1. i.op = "csrs mie" => c.lines \cup i.lines \in SUBSET (0 .. 31)
      BY CsrFields, InstrsAre
    <2> QED BY <2>1 DEF Csrs
  <1>4. \A w \in Resumptions(c, modes, triggers) :
          w \in Csrs /\ w.dcsr \in modes /\ w.trigger \in triggers \cup {None}
    BY ResumedTypes DEF Resumptions
  <1>5. /\ Debugger # EnableIrqs /\ Debugger # Skip /\ Debugger # MaskLine
        /\ Debugger.op # "csrs mie"
    BY DEF Debugger, EnableIrqs, Skip, MaskLine, Plain
  <1> SUFFICES ASSUME NEW w \in CsrWrites(c, i, modes, triggers)
               PROVE  /\ w \in Csrs
                      /\ i = Debugger => w.dcsr \in modes /\ w.trigger \in triggers \cup {None}
    OBVIOUS
  <1>6. \/ i # Debugger /\ w = [c EXCEPT !.mie = TRUE]
        \/ i # Debugger /\ w = [c EXCEPT !.mepc = Plus(@, 1)]
        \/ i # Debugger /\ w = [c EXCEPT !.lines = {}]
        \/ i # Debugger /\ i.op = "csrs mie" /\ w = [c EXCEPT !.lines = @ \cup i.lines]
        \/ w \in Resumptions(c, modes, triggers)
    BY <1>5 DEF CsrWrites
  <1> QED BY <1>1, <1>2, <1>3, <1>4, <1>6
------------------------------------------------------------------------------
(* The registers after a cycle have their types if the controller's answer *)
(* has its type.                                                           *)
LEMMA Flags ==
  ASSUME TypeOK
  PROVE  /\ jump_done_q \in BOOLEAN /\ illegal_insn_q \in BOOLEAN
         /\ hwlp_end_4_id_q \in BOOLEAN /\ debug_mode_q \in BOOLEAN
         /\ debug_req_q \in BOOLEAN /\ debug_req_entry_q \in BOOLEAN
         /\ debug_force_wakeup_q \in BOOLEAN /\ if_busy \in BOOLEAN
         /\ instr_valid_id \in BOOLEAN /\ ex_busy \in BOOLEAN
         /\ debug_req_i \in BOOLEAN /\ fetch_enable_i \in BOOLEAN
         /\ core_busy_q \in BOOLEAN /\ fetch_enable_q \in BOOLEAN
  BY DEF TypeOK

LEMMA Fields ==
  ASSUME NEW out \in Outputs
  PROVE  /\ out.ns \in States /\ out.req \in BOOLEAN /\ out.busy \in BOOLEAN
         /\ out.decoding \in BOOLEAN /\ out.halt_if \in BOOLEAN
         /\ out.halt_id \in BOOLEAN /\ out.pc_set \in Address \cup {None}
         /\ out.jump_done \in BOOLEAN /\ out.hwlp_end_4 \in Address \cup {None}
         /\ out.dec \in SUBSET Loops /\ out.mask \in BOOLEAN
         /\ out.illegal \in BOOLEAN /\ out.debug_mode \in BOOLEAN
         /\ out.debug_req_entry \in BOOLEAN /\ out.debug_force_wakeup \in BOOLEAN
         /\ out.ack \in BOOLEAN /\ out.drained \in BOOLEAN /\ out.csr \in Csrs
  BY DEF Outputs

(* Another next state leaves an answer one that the controller can give. *)
LEMMA Redirected ==
  ASSUME NEW out \in Outputs, NEW ns \in States, NEW halt \in BOOLEAN
  PROVE  /\ [out EXCEPT !.halt_if = TRUE, !.halt_id = halt, !.ns = ns] \in Outputs
         /\ [out EXCEPT !.illegal = halt, !.ns = ns] \in Outputs
         /\ [out EXCEPT !.illegal = halt] \in Outputs
  BY DEF Outputs

LEMMA InputFields ==
  ASSUME NEW in \in Inputs
  PROVE  in.offer \in BOOLEAN /\ in.id_ready \in BOOLEAN
  BY DEF Inputs

LEMMA CsrTypes ==
  ASSUME TypeOK
  PROVE  csr_n \in Csrs
  BY DEF TypeOK, csr_n

LEMMA FetchTypes ==
  ASSUME TypeOK, NEW in \in Inputs, NEW out \in Outputs, Fetch(in, out)
  PROVE  pc_if' \in Address /\ hwlp_then' \in Address \cup {None}
  <1>1. /\ pc_if \in Address /\ hwlp_then \in Address \cup {None}
        /\ out.pc_set \in Address \cup {None}
        /\ out.hwlp_end_4 \in Address \cup {None}
    BY Fields DEF TypeOK
  <1>2. if_stage_i!Issue => pc_if' \in Address /\ hwlp_then' = None
    <2>1. if_stage_i!Size(pc_if) = 1 /\ if_stage_i!After(pc_if, 1) = Plus(pc_if, 1)
      BY DEF if_stage_i!Size, if_stage_i!After, Plus
    <2>2. Plus(pc_if, 1) \in Address
      BY <1>1, NextTypes
    <2> QED BY <1>1, <2>1, <2>2 DEF if_stage_i!Issue
  <1>3. if_stage_i!Wait => pc_if' = pc_if /\ hwlp_then' = hwlp_then
    BY DEF if_stage_i!Wait
  <1>4. if_stage_i!Branch(out.pc_set) => pc_if' = out.pc_set /\ hwlp_then' = None
    BY DEF if_stage_i!Branch
  <1>5. if_stage_i!LoopJump(out.hwlp_end_4) =>
          \/ pc_if' = pc_if /\ hwlp_then' = out.hwlp_end_4
          \/ pc_if' = out.hwlp_end_4 /\ hwlp_then' = None
    BY DEF if_stage_i!LoopJump
  <1> QED BY <1>1, <1>2, <1>3, <1>4, <1>5 DEF Fetch

LEMMA IfIdTypes ==
  ASSUME TypeOK, NEW in \in Inputs, NEW out \in Outputs, IfIdRegs(in, out)
  PROVE  pc_id' \in Address /\ instr_valid_id' \in BOOLEAN
  <1>1. pc_if \in Address /\ pc_id \in Address /\ instr_valid_id \in BOOLEAN
    BY Flags DEF TypeOK
  <1>2. (instr_valid_id /\ ~clear_instr_valid(in, out)) \in BOOLEAN
    OBVIOUS
  <1> QED BY <1>1, <1>2 DEF IfIdRegs

LEMMA IdExTypes ==
  ASSUME Types, NEW in \in Inputs, NEW out \in Outputs, IdExRegs(in, out)
  PROVE  /\ csr_ex' \in Csrs \cup {None}
         /\ branch_ex' \in Address \cup {None} /\ ex_busy' \in BOOLEAN
         /\ choices' \in 0 .. scenario.choices
  <1> DEFINE modes == Choices(DebugModes, {"none"})
             triggers == Choices(scenario.triggers, {})
             writes == CsrWrites(csr_n, insn, modes, triggers)
  <1>1. insn \in Instrs /\ csr_n \in Csrs
    BY InsnTypes, CsrTypes DEF Types
  <1>2. modes \in SUBSET DebugModes /\ triggers \in SUBSET Address
    BY ScenarioTypes DEF Choices, DebugModes, Types
  <1>3. /\ writes \subseteq Csrs
        /\ insn = Debugger => \A w \in writes : w.dcsr \in modes /\ w.trigger \in triggers \cup {None}
    <2> HIDE DEF modes, triggers
    <2> QED BY <1>1, <1>2, WritesTypes
  <1>4. csr_ex' \in writes \cup {None}
    <2> HIDE DEF writes
    <2>1. csr_ex' \in IF issue(in, out) /\ writes # {} THEN writes ELSE {None}
      BY DEF IdExRegs, writes
    <2> QED BY <2>1
  <1>5. branch_ex' \in Address \cup {None}
    <2>1. insn.op = "branch" => Target(pc_id, insn) \in Address
      <3>1. insn.op = "branch" => insn.offset \in Nat
        BY <1>1, InstrsAre
      <3> QED BY <3>1, NextTypes, PlusTypes DEF Target, Types, TypeOK
    <2>2. branch_ex' \in IF issue(in, out) /\ insn.op = "branch"
                           THEN {None, Target(pc_id, insn)} ELSE {None}
      BY DEF IdExRegs
    <2> QED BY <2>1, <2>2
  <1>6. ex_busy' \in BOOLEAN
    <2>1. ex_busy' \in IF \/ issue(in, out) /\ insn = Load
                          \/ ex_busy /\ ~out.drained
                       THEN BOOLEAN ELSE {FALSE}
      BY DEF IdExRegs
    <2> QED BY <2>1
  <1>7. choices' \in 0 .. scenario.choices
    <2>1. choices \in 0 .. scenario.choices /\ scenario.choices \in Nat
      BY ScenarioTypes DEF Types, TypeOK
    <2>2. CASE /\ csr_ex' # None /\ insn = Debugger
               /\ << csr_ex'.dcsr, csr_ex'.trigger >> # << "none", None >>
      <3>1. csr_ex'.dcsr \in modes /\ csr_ex'.trigger \in triggers \cup {None}
        BY <1>3, <1>4, <2>2
      <3>2. choices > 0
        <4>1. ~(csr_ex'.dcsr = "none" /\ csr_ex'.trigger = None)
          BY <2>2
        <4>2. ~(choices > 0) => modes = {"none"} /\ triggers = {}
          BY DEF Choices
        <4> QED BY <3>1, <4>1, <4>2
      <3>3. choices' = choices - 1
        BY <2>2 DEF IdExRegs
      <3> QED BY <2>1, <3>2, <3>3
    <2>3. CASE ~(/\ csr_ex' # None /\ insn = Debugger
                 /\ << csr_ex'.dcsr, csr_ex'.trigger >> # << "none", None >>)
      <3>1. choices' = choices
        BY <2>3 DEF IdExRegs
      <3> QED BY <2>1, <3>1
    <2> QED BY <2>2, <2>3
  <1> QED BY <1>3, <1>4, <1>5, <1>6, <1>7

LEMMA LoopTypes ==
  ASSUME Types, NEW in \in Inputs, NEW out \in Outputs, LoopRegs(in, out)
  PROVE  /\ hwlp_start_q' \in [Loops -> Address]
         /\ hwlp_end_q' \in [Loops -> Address]
         /\ hwlp_counter_q' \in [Loops -> 0 .. COUNT - 1]
  <1> DEFINE we == IF insn.op = "hwloop" /\ out.decoding /\ ~out.mask /\ in.id_ready
                     THEN insn ELSE None
             valid == instr_valid_id /\ clear_instr_valid(in, out)
  <1>1. /\ hwlp_start_q \in [Loops -> Address] /\ hwlp_end_q \in [Loops -> Address]
        /\ hwlp_counter_q \in [Loops -> 0 .. COUNT - 1] /\ pc_id \in Nat
    BY NextTypes DEF Types, TypeOK
  <1>2. we # None => /\ we.k \in Loops /\ we.start \in Nat \cup {None}
                     /\ we.end \in Nat \cup {None}
                     /\ we.count \in (0 .. COUNT - 1) \cup {None}
    BY InsnTypes, InstrsAre
  <1>3. HwlpClock(we, pc_id, out.dec, valid)
    BY DEF LoopRegs
  <1> HIDE DEF we, valid
  <1>4. \A k \in Loops : hwlp_counter_n(k) \in 0 .. COUNT - 1
    BY <1>1, CountAssumption DEF hwlp_counter_n
  <1>5. hwlp_counter_q' \in [Loops -> 0 .. COUNT - 1]
    <2>1. hwlp_counter_q' =
            [k \in Loops |->
               IF we # None /\ we.k = k /\ we.count # None THEN we.count
               ELSE IF k \in out.dec /\ valid THEN hwlp_counter_n(k)
               ELSE hwlp_counter_q[k]]
      BY <1>3 DEF HwlpClock
    <2> QED BY <1>1, <1>2, <1>4, <2>1
  <1>6. CASE we = None
    <2>1. hwlp_start_q' = hwlp_start_q /\ hwlp_end_q' = hwlp_end_q
      BY <1>3, <1>6 DEF HwlpClock
    <2> QED BY <1>1, <1>5, <2>1
  <1>7. CASE we # None
    <2>1. /\ hwlp_start_q' = [hwlp_start_q EXCEPT ![we.k] =
                                IF we.start # None THEN Plus(pc_id, we.start) ELSE @]
          /\ hwlp_end_q' = [hwlp_end_q EXCEPT ![we.k] =
                              IF we.end # None THEN Plus(pc_id, we.end) ELSE @]
      BY <1>3, <1>7 DEF HwlpClock, Written
    <2>2. /\ we.start # None => Plus(pc_id, we.start) \in Address
          /\ we.end # None => Plus(pc_id, we.end) \in Address
      BY <1>1, <1>2, <1>7, PlusTypes
    <2> QED BY <1>1, <1>2, <1>5, <1>7, <2>1, <2>2
  <1> QED BY <1>6, <1>7

LEMMA EnvironmentTypes ==
  ASSUME Types, NEW busy \in BOOLEAN, NEW ack \in BOOLEAN, Ungated(busy, ack)
  PROVE  /\ irq_i' \in {{}, {Line}} /\ debug_req_i' \in BOOLEAN
         /\ fetch_enable_i' \in BOOLEAN /\ core_busy_q' \in BOOLEAN
         /\ fetch_enable_q' \in BOOLEAN /\ debug_req_q' \in BOOLEAN
         /\ irqs' \in 0 .. scenario.irqs /\ debugs' \in 0 .. scenario.debugs
         /\ scenario' = scenario /\ Known'
  <1>1. /\ irq_i \in {{}, {Line}} /\ irqs \in 0 .. scenario.irqs
        /\ debugs \in 0 .. scenario.debugs
        /\ scenario.irqs \in Nat /\ scenario.debugs \in Nat
    BY ScenarioTypes DEF Types, TypeOK
  <1>2. Environment(ack) /\ scenario' = scenario
    BY DEF Ungated
  <1>3. irq_i' \in {{}, {Line}} /\ irqs' \in 0 .. scenario.irqs
    <2>1. CASE irq_i = {}
      <3>1. irq_i' = {} \/ (irq_i' = {Line} /\ irqs > 0)
        BY <1>2, <2>1 DEF Environment
      <3>2. irqs' = IF irq_i' # {} THEN irqs - 1 ELSE irqs
        BY <1>2, <2>1 DEF Environment
      <3> QED BY <1>1, <3>1, <3>2
    <2>2. CASE irq_i # {}
      <3>1. irq_i' = (IF ack THEN {} ELSE irq_i) /\ irqs' = irqs
        BY <1>2, <2>2 DEF Environment
      <3> QED BY <1>1, <3>1
    <2> QED BY <2>1, <2>2
  <1>4. debug_req_i' \in BOOLEAN /\ debugs' \in 0 .. scenario.debugs
    <2>1. debug_req_i' \in {FALSE} \cup
            (IF debug_req_i THEN {~debug_mode_q} ELSE {debugs > 0})
      BY <1>2 DEF Environment
    <2>2. debugs' = IF ~debug_req_i /\ debug_req_i' THEN debugs - 1 ELSE debugs
      BY <1>2 DEF Environment
    <2>3. debug_req_i' \in BOOLEAN
      <3>1. CASE debug_req_i
        BY <2>1, <3>1
      <3>2. CASE ~debug_req_i
        <4> DEFINE some == debugs > 0
        <4>1. debug_req_i' = FALSE \/ debug_req_i' = some
          <5> HIDE DEF some
          <5>1. debug_req_i' \in {FALSE} \cup {some}
            BY <2>1, <3>2 DEF some
          <5> QED BY <5>1
        <4>2. some \in BOOLEAN
          OBVIOUS
        <4> HIDE DEF some
        <4> QED BY <4>1, <4>2
      <3> QED BY <3>1, <3>2
    <2>4. debugs' \in 0 .. scenario.debugs
      <3>1. CASE ~debug_req_i /\ debug_req_i'
        <4>1. debugs > 0 /\ debugs' = debugs - 1
          BY <2>1, <2>2, <3>1
        <4> QED BY <1>1, <4>1
      <3>2. CASE ~(~debug_req_i /\ debug_req_i')
        <4>1. debugs' = debugs
          BY <2>2, <3>2
        <4> QED BY <1>1, <4>1
      <3> QED BY <3>1, <3>2
    <2> QED BY <2>3, <2>4
  <1>5. fetch_enable_i' \in BOOLEAN
    BY <1>2, Flags DEF Environment, Types
  <1>6. core_busy_q' \in BOOLEAN /\ fetch_enable_q' \in BOOLEAN /\ debug_req_q' \in BOOLEAN
    <2>1. /\ core_busy_q' = (if_busy \/ busy \/ ex_busy)
          /\ fetch_enable_q' = (fetch_enable_i \/ fetch_enable_q)
          /\ debug_req_q' = (debug_req_i \/ (debug_req_q /\ ~debug_mode_q))
      BY DEF Ungated, SleepClock, core_busy_d, debug_req_d
    <2> QED BY <2>1
  <1>7. Known'
    BY <1>2 DEF Known, Types
  <1> QED BY <1>2, <1>3, <1>4, <1>5, <1>6, <1>7

LEMMA TypesStep ==
  ASSUME Types, NEW in \in Inputs, NEW out \in Outputs, Clock(in, out)
  PROVE  Types'
  <1>1. /\ pc_if' \in Address /\ hwlp_then' \in Address \cup {None}
        /\ pc_id' \in Address /\ instr_valid_id' \in BOOLEAN
    BY FetchTypes, IfIdTypes DEF Clock, Types
  <1>2. /\ csr_ex' \in Csrs \cup {None} /\ branch_ex' \in Address \cup {None}
        /\ ex_busy' \in BOOLEAN /\ choices' \in 0 .. scenario.choices
    BY IdExTypes DEF Clock
  <1>3. /\ hwlp_start_q' \in [Loops -> Address] /\ hwlp_end_q' \in [Loops -> Address]
        /\ hwlp_counter_q' \in [Loops -> 0 .. COUNT - 1]
    BY LoopTypes DEF Clock
  <1>4. out.busy \in BOOLEAN /\ out.ack \in BOOLEAN
    BY Fields
  <1>5. /\ irq_i' \in {{}, {Line}} /\ debug_req_i' \in BOOLEAN
        /\ fetch_enable_i' \in BOOLEAN /\ core_busy_q' \in BOOLEAN
        /\ fetch_enable_q' \in BOOLEAN /\ debug_req_q' \in BOOLEAN
        /\ irqs' \in 0 .. scenario.irqs /\ debugs' \in 0 .. scenario.debugs
        /\ scenario' = scenario /\ Known'
    BY <1>4, EnvironmentTypes DEF Clock
  <1>6. irq_q' \in {{}, {Line}}
    BY LineAssumption DEF Clock, IntClock, Types, TypeOK
  <1>7. if_busy' \in BOOLEAN
    BY Flags DEF Clock, Types
  <1>8. /\ ctrl_fsm_cs' \in States /\ illegal_insn_q' \in BOOLEAN
        /\ debug_mode_q' \in BOOLEAN /\ debug_req_entry_q' \in BOOLEAN
        /\ debug_force_wakeup_q' \in BOOLEAN /\ csr' \in Csrs
    BY Fields DEF Clock
  <1>9. jump_done_q' \in BOOLEAN /\ hwlp_end_4_id_q' \in BOOLEAN
    <2>1. /\ jump_done_q' = (out.jump_done /\ ~in.id_ready)
          /\ hwlp_end_4_id_q' = (out.hwlp_end_4 # None)
      BY DEF Clock
    <2> QED BY <2>1
  <1>10. TypeOK'
    BY <1>1, <1>2, <1>3, <1>5, <1>6, <1>7, <1>8, <1>9 DEF TypeOK
  <1> QED BY <1>5, <1>10 DEF Types
------------------------------------------------------------------------------
(***************************************************************************)
(* A loop jump fits because three things go together: the instruction in   *)
(* decode is the one before the next address, unless it is a jump or the   *)
(* last one of a loop body; a loop target that waits in the fetch stage    *)
(* waits for the last instruction of a body; and the controller asks for   *)
(* it again as long as the instruction before that one stays in decode.    *)
(***************************************************************************)
Ends == {0} \cup LoopEnds(scenario.code)

Near == \E k \in Loops : hwlp_end_eq_pc_plus4(k) /\ hwlp_counter_gt_1(k)

EndsKnown == \A k \in Loops : hwlp_end_q[k] \in Ends

ValidInDecode ==
  instr_valid_id => ctrl_fsm_cs \in {"DECODE", "DECODE_HWLOOP", "DBG_FLUSH"}

NextFollows ==
  instr_valid_id =>
    pc_if = Plus(pc_id, 1) \/ insn.op = "jump" \/ Plus(pc_id, 1) \in Ends

TargetWaits ==
  hwlp_then # None =>
    /\ Plus(pc_if, 1) \in Ends
    /\ instr_valid_id => /\ Near /\ ~csr_status(insn)
                         /\ ctrl_fsm_cs = "DECODE_HWLOOP" => hwlp_end_4_id_q

Fit == EndsKnown /\ ValidInDecode /\ NextFollows /\ TargetWaits

(* The instruction stays in decode. *)
Kept(in, out) == instr_valid_id /\ ~clear_instr_valid(in, out)

(* What the answers of the controller have in common. *)
Shape(in, out) ==
  /\ out.hwlp_end_4 # None =>
       /\ ctrl_fsm_cs = "DECODE_HWLOOP" /\ instr_valid_id /\ Near
       /\ insn.op # "jump" /\ ~csr_status(insn)
  /\ handover(in, out) \/ Kept(in, out) =>
       out.ns \in {"DECODE", "DECODE_HWLOOP", "DBG_FLUSH"}
  /\ Kept(in, out) /\ out.pc_set # None =>
       insn.op = "jump" \/ Plus(pc_id, 1) \in Ends
  /\ Kept(in, out) /\ hwlp_then # None /\ out.pc_set = None
     /\ out.ns = "DECODE_HWLOOP" => out.hwlp_end_4 # None

Answered(in) == \E out \in Outputs : Clock(in, out) /\ (Fit => Shape(in, out))

LEMMA HaltedShape ==
  ASSUME NEW in \in Inputs, NEW out \in Outputs,
         out.halt_if = TRUE, out.halt_id = TRUE, out.hwlp_end_4 = None
  PROVE  Shape(in, out)
  BY DEF Shape, handover, Kept, clear_instr_valid

LEMMA EmptyShape ==
  ASSUME NEW in \in Inputs, NEW out \in Outputs,
         ~instr_valid_id \/ branch_ex # None, out.hwlp_end_4 = None,
         \/ out.req = FALSE \/ out.halt_if = TRUE \/ out.pc_set # None
         \/ out.ns \in DecodeStates
  PROVE  Shape(in, out)
  BY DEF Shape, handover, Kept, clear_instr_valid, DecodeStates

LEMMA NotInDecode ==
  ASSUME Types, Fit,
         ctrl_fsm_cs \notin {"DECODE", "DECODE_HWLOOP", "DBG_FLUSH"}
  PROVE  ~instr_valid_id
  BY DEF Fit, ValidInDecode

(* The answers the actions start from. *)
LEMMA QuietAnswer ==
  ASSUME Types
  PROVE  /\ Quiet \in Outputs /\ Quiet.ns = ctrl_fsm_cs /\ Quiet.halt_if = FALSE
         /\ Quiet.halt_id = FALSE /\ Quiet.pc_set = None
         /\ Quiet.hwlp_end_4 = None /\ Quiet.csr = csr_n
  <1>1. ctrl_fsm_cs \in States /\ csr_n \in Csrs
    BY CsrTypes DEF Types, TypeOK
  <1> QED BY <1>1, Flags DEF Quiet, Outputs, Types

LEMMA StalledAnswer ==
  ASSUME Types
  PROVE  /\ Stalled \in Outputs /\ Stalled.ns = ctrl_fsm_cs /\ Stalled.halt_if = TRUE
         /\ Stalled.halt_id = TRUE /\ Stalled.pc_set = None
         /\ Stalled.hwlp_end_4 = None /\ Stalled.csr = csr_n
  BY QuietAnswer DEF Stalled, Outputs

LEMMA DecodedAnswer ==
  ASSUME Types
  PROVE  /\ Decoded \in Outputs /\ Decoded.ns = ctrl_fsm_cs /\ Decoded.halt_if = FALSE
         /\ Decoded.halt_id = FALSE /\ Decoded.pc_set = None
         /\ Decoded.hwlp_end_4 = None /\ Decoded.csr = csr_n
  <1>1. (Quiet.illegal /\ ctrl_fsm_cs = "DECODE_HWLOOP") \in BOOLEAN
    OBVIOUS
  <1> QED BY <1>1, QuietAnswer DEF Decoded, Outputs
------------------------------------------------------------------------------
(* Addresses the controller jumps to. *)
LEMMA JumpTypes ==
  ASSUME Types
  PROVE  /\ Boot \in Address /\ IRQ \in Address /\ EXCEPTION \in Address
         /\ DEBUG_ROM \in Address /\ DEBUG_EXCEPTION \in Address
         /\ exception \in Address /\ xret_target \in Address
         /\ hwlp_start_q[hwlp_targ] \in Address /\ Plus(pc_id, 1) \in Address
         /\ branch_ex \in Address \cup {None}
         /\ pc_if \in Address /\ pc_id \in Address
  <1>1. /\ Boot \in Address /\ IRQ \in Address /\ EXCEPTION \in Address
        /\ DEBUG_ROM \in Address /\ DEBUG_EXCEPTION \in Address
    BY DEF Boot, IRQ, EXCEPTION, DEBUG_ROM, DEBUG_EXCEPTION, Address, SPACE
  <1>2. exception \in Address
    BY <1>1 DEF exception
  <1>3. xret_target \in Address
    BY <1>1, CsrFields DEF xret_target, Types, TypeOK
  <1>4. hwlp_start_q[hwlp_targ] \in Address
    BY DEF hwlp_targ, Loops, Types, TypeOK
  <1> QED BY <1>1, <1>2, <1>3, <1>4, NextTypes DEF Types, TypeOK

LEMMA AwakeAnswer ==
  ASSUME Types, NEW out \in Outputs
  PROVE  /\ Awake(out) \in Outputs /\ Awake(out).req = out.req
         /\ Awake(out).halt_if = out.halt_if /\ Awake(out).halt_id = out.halt_id
         /\ Awake(out).pc_set = out.pc_set
         /\ Awake(out).hwlp_end_4 = out.hwlp_end_4
  <1> DEFINE ns == IF debug_req_pending THEN "DBG_TAKEN_IF" ELSE "FIRST_FETCH"
  <1>1. PICK force \in BOOLEAN :
          Awake(out) = [out EXCEPT !.ns = ns, !.debug_force_wakeup = force]
    BY DEF Awake
  <1>2. ns \in States
    BY DEF States
  <1> HIDE DEF ns
  <1>3. Awake(out) \in Outputs
    BY <1>1, <1>2 DEF Outputs
  <1> QED BY <1>1, <1>3 DEF Outputs

LEMMA InterruptAnswer ==
  ASSUME Types, NEW out \in Outputs, NEW pc \in Address
  PROVE  /\ InterruptTaken(out, pc) \in Outputs
         /\ InterruptTaken(out, pc).halt_if = TRUE
         /\ InterruptTaken(out, pc).halt_id = TRUE
         /\ InterruptTaken(out, pc).hwlp_end_4 = out.hwlp_end_4
  <1>1. Trapped(out.csr, pc) \in Csrs
    BY Fields, CsrChanges DEF Causes
  <1> QED BY <1>1, JumpTypes DEF InterruptTaken, Outputs, States

LEMMA StartAnswered ==
  ASSUME Types, NEW in \in Inputs,
         RESET(in) \/ BOOT_SET(in) \/ WAIT_SLEEP(in) \/ SLEEP(in) \/ FIRST_FETCH(in)
  PROVE  Answered(in)
  <1>1. Fit => ~instr_valid_id
    BY NotInDecode DEF RESET, BOOT_SET, WAIT_SLEEP, SLEEP, FIRST_FETCH, In
  <1>2. CASE RESET(in)
    <2> DEFINE out == [Quiet EXCEPT !.req = FALSE,
                                    !.ns = IF fetch_enable_q THEN "BOOT_SET" ELSE @]
    <2>1. out \in Outputs /\ out.req = FALSE /\ out.hwlp_end_4 = None
      BY QuietAnswer DEF Outputs, States
    <2>2. Clock(in, out)
      BY <1>2 DEF RESET
    <2> HIDE DEF out
    <2> QED BY <1>1, <2>1, <2>2, EmptyShape DEF Answered
  <1>3. CASE BOOT_SET(in)
    <2> DEFINE set == [Quiet EXCEPT !.pc_set = Boot]
    <2>1. set \in Outputs /\ set.hwlp_end_4 = None /\ set.pc_set # None
      BY QuietAnswer, JumpTypes, NoneAssumption DEF Outputs
    <2>2. Clock(in, Awake(set))
      BY <1>3 DEF BOOT_SET
    <2> HIDE DEF set
    <2> QED BY <1>1, <2>1, <2>2, AwakeAnswer, EmptyShape DEF Answered
  <1>4. CASE WAIT_SLEEP(in)
    <2> DEFINE out == [Stalled EXCEPT !.busy = FALSE, !.req = FALSE, !.ns = "SLEEP"]
    <2>1. /\ out \in Outputs /\ out.halt_if = TRUE /\ out.halt_id = TRUE
          /\ out.hwlp_end_4 = None
      BY StalledAnswer DEF Outputs, States
    <2>2. Clock(in, out)
      BY <1>4 DEF WAIT_SLEEP
    <2> HIDE DEF out
    <2> QED BY <2>1, <2>2, HaltedShape DEF Answered
  <1>5. CASE SLEEP(in)
    <2> DEFINE asleep == [Stalled EXCEPT !.req = FALSE]
               quiet == [asleep EXCEPT !.busy = FALSE]
    <2>1. /\ asleep \in Outputs /\ asleep.halt_if = TRUE /\ asleep.halt_id = TRUE
          /\ asleep.hwlp_end_4 = None
      BY StalledAnswer DEF Outputs
    <2>2. /\ quiet \in Outputs /\ quiet.halt_if = TRUE /\ quiet.halt_id = TRUE
          /\ quiet.hwlp_end_4 = None
      BY <2>1 DEF Outputs
    <2>3. Clock(in, IF wake_from_sleep THEN Awake(asleep) ELSE quiet)
      BY <1>5 DEF SLEEP
    <2> HIDE DEF asleep, quiet
    <2>4. /\ Awake(asleep) \in Outputs /\ Awake(asleep).halt_if = TRUE
          /\ Awake(asleep).halt_id = TRUE /\ Awake(asleep).hwlp_end_4 = None
      BY <2>1, AwakeAnswer
    <2>5. Clock(in, Awake(asleep)) \/ Clock(in, quiet)
      BY <2>3
    <2> QED BY <2>2, <2>4, <2>5, HaltedShape DEF Answered
  <1>6. CASE FIRST_FETCH(in)
    <2> DEFINE decode == [Quiet EXCEPT !.ns = "DECODE"]
               taken == InterruptTaken(Quiet, pc_if)
    <2>1. decode \in Outputs /\ decode.hwlp_end_4 = None /\ decode.ns \in DecodeStates
      BY QuietAnswer DEF Outputs, States, DecodeStates
    <2>2. /\ taken \in Outputs /\ taken.halt_if = TRUE /\ taken.halt_id = TRUE
          /\ taken.hwlp_end_4 = None
      BY QuietAnswer, JumpTypes, InterruptAnswer
    <2>3. Clock(in, taken) \/ Clock(in, decode)
      BY <1>6 DEF FIRST_FETCH
    <2> HIDE DEF decode, taken
    <2> QED BY <1>1, <2>1, <2>2, <2>3, EmptyShape, HaltedShape DEF Answered
  <1> QED BY <1>2, <1>3, <1>4, <1>5, <1>6

LEMMA DecodeAnswered ==
  ASSUME Types, NEW in \in Inputs,
         BranchTaken(in) \/ NoInstruction(in) \/ HaltForDebug(in) \/ TakeInterrupt(in)
  PROVE  Answered(in)
  <1>1. CASE BranchTaken(in)
    <2> DEFINE out == [Quiet EXCEPT !.pc_set = branch_ex]
    <2>1. out \in Outputs /\ out.hwlp_end_4 = None /\ out.pc_set = branch_ex
      BY QuietAnswer, JumpTypes DEF Outputs
    <2>2. Clock(in, out) /\ branch_ex # None
      BY <1>1 DEF BranchTaken
    <2> HIDE DEF out
    <2> QED BY <2>1, <2>2, EmptyShape DEF Answered
  <1>2. CASE NoInstruction(in)
    <2>1. Clock(in, Quiet) /\ ~instr_valid_id /\ Quiet.ns \in DecodeStates
      BY <1>2, QuietAnswer DEF NoInstruction, In
    <2> QED BY <2>1, QuietAnswer, EmptyShape DEF Answered
  <1>3. CASE HaltForDebug(in)
    <2> DEFINE out == [Decoded EXCEPT !.halt_if = TRUE, !.halt_id = TRUE,
                                      !.ns = "DBG_FLUSH", !.debug_req_entry = TRUE]
    <2>1. /\ out \in Outputs /\ out.halt_if = TRUE /\ out.halt_id = TRUE
          /\ out.hwlp_end_4 = None
      BY DecodedAnswer DEF Outputs, States
    <2>2. Clock(in, out)
      BY <1>3 DEF HaltForDebug
    <2> HIDE DEF out
    <2> QED BY <2>1, <2>2, HaltedShape DEF Answered
  <1>4. CASE TakeInterrupt(in)
    <2> DEFINE masked == [Decoded EXCEPT !.decoding = FALSE, !.mask = TRUE]
    <2>1. masked \in Outputs /\ masked.hwlp_end_4 = None
      <3>1. Decoded \in Outputs /\ Decoded.hwlp_end_4 = None
        BY DecodedAnswer
      <3>2. masked \in Outputs
        BY <3>1 DEF Outputs
      <3> QED BY <3>1, <3>2 DEF Outputs
    <2>2. Clock(in, InterruptTaken(masked, pc_id))
      BY <1>4 DEF TakeInterrupt
    <2> DEFINE out == InterruptTaken(masked, pc_id)
    <2> HIDE DEF masked
    <2>3. /\ out \in Outputs /\ out.halt_if = TRUE /\ out.halt_id = TRUE
          /\ out.hwlp_end_4 = None
      BY <2>1, JumpTypes, InterruptAnswer
    <2> HIDE DEF out
    <2>4. Clock(in, out)
      BY <2>2 DEF out
    <2> QED BY <2>3, <2>4, HaltedShape DEF Answered
  <1> QED BY <1>1, <1>2, <1>3, <1>4

LEMMA FlushAnswered ==
  ASSUME Types, NEW in \in Inputs, FLUSH_EX(in) \/ FLUSH_WB(in)
  PROVE  Answered(in)
  <1> DEFINE Halts(out) == /\ out \in Outputs /\ out.halt_if = TRUE
                           /\ out.halt_id = TRUE /\ out.hwlp_end_4 = None
  <1>1. ASSUME NEW out, Halts(out), Clock(in, out)
        PROVE  Answered(in)
    BY <1>1, HaltedShape DEF Answered
  <1>2. Halts(Stalled) /\ Stalled.csr = csr_n /\ csr_n \in Csrs
    BY StalledAnswer, CsrTypes DEF Types
  <1>3. CASE FLUSH_EX(in)
    <2> DEFINE silent == debug_mode_q /\ (illegal_insn_q \/ insn = Ecall)
               trapped == (illegal_insn_q \/ insn \in {Ebreak, Ecall}) /\ ~silent
               after == IF trapped THEN Trapped(Stalled.csr, pc_id) ELSE Stalled.csr
               out == [Stalled EXCEPT !.ns = "FLUSH_WB", !.drained = TRUE,
                                      !.csr = after]
    <2>1. Clock(in, Stalled) \/ Clock(in, out)
      <3>1. \/ Clock(in, Stalled)
            \/ Clock(in, [Stalled EXCEPT !.ns = "FLUSH_WB", !.drained = TRUE,
                                         !.csr = IF trapped THEN Trapped(@, pc_id)
                                                 ELSE @])
        BY <1>3 DEF FLUSH_EX
      <3> QED BY <3>1
    <2>2. after \in Csrs
      BY <1>2, CsrChanges, JumpTypes DEF Causes
    <2>3. Halts(out)
      <3> HIDE DEF after
      <3> QED BY <1>2, <2>2 DEF Outputs, States
    <2> HIDE DEF out, Halts
    <2> QED BY <1>1, <1>2, <2>1, <2>3
  <1>4. CASE FLUSH_WB(in)
    <2> DEFINE done == [Stalled EXCEPT !.ns = "DECODE"]
               jump(target) == [done EXCEPT !.pc_set = target]
               trap(target) ==
                 [jump(target) EXCEPT !.illegal = FALSE,
                                      !.ns = IF single_step THEN "DBG_TAKEN_IF" ELSE @]
               ending == {k \in Loops : hwlp_end_eq_pc(k) /\ hwlp_counter_gt_1(k)}
               mret == [done EXCEPT !.ns = "XRET_JUMP",
                                    !.csr = IF debug_mode_q THEN @ ELSE Restored(@)]
               dret == [done EXCEPT !.ns = "XRET_JUMP"]
               loop == [jump(hwlp_start_q[hwlp_targ]) EXCEPT !.dec = ending]
               halt == [done EXCEPT !.ns = "DBG_TAKEN_IF", !.debug_force_wakeup = TRUE]
               sleep == [done EXCEPT !.ns = "WAIT_SLEEP"]
    <2>1. Clock(in,
           CASE illegal_insn_q \/ insn = Ecall -> trap(exception)
             [] ~illegal_insn_q /\ insn = Ebreak -> trap(EXCEPTION)
             [] ~illegal_insn_q /\ insn = Mret -> mret
             [] ~illegal_insn_q /\ insn = Dret -> dret
             [] ~illegal_insn_q /\ csr_status(insn) -> IF ending = {} THEN done ELSE loop
             [] ~illegal_insn_q /\ insn = Wfi -> IF debug_req_pending THEN halt ELSE sleep
             [] ~illegal_insn_q /\ insn = Fencei -> jump(Plus(pc_id, 1))
             [] OTHER -> done)
      BY <1>4 DEF FLUSH_WB
    <2>2. Halts(done) /\ done.csr = csr_n
      BY <1>2 DEF Outputs, States
    <2>3. ASSUME NEW target \in Address
          PROVE  Halts(jump(target))
      BY <2>2 DEF Outputs
    <2>4. ASSUME NEW target \in Address
          PROVE  Halts(trap(target))
      <3> DEFINE ns == IF single_step THEN "DBG_TAKEN_IF" ELSE jump(target).ns
      <3>1. ns \in States
        BY <2>3, Fields DEF States
      <3>2. trap(target) = [jump(target) EXCEPT !.illegal = FALSE, !.ns = ns]
        OBVIOUS
      <3>3. Halts(jump(target))
        BY <2>3
      <3> HIDE DEF ns, done, jump, trap
      <3>4. trap(target) \in Outputs
        BY <3>1, <3>2, <3>3, Redirected
      <3> QED BY <3>2, <3>3, <3>4 DEF Outputs
    <2>5. Halts(mret)
      <3> DEFINE after == IF debug_mode_q THEN done.csr ELSE Restored(done.csr)
      <3>1. after \in Csrs
        BY <1>2, <2>2, CsrChanges, JumpTypes DEF Causes
      <3>2. mret = [done EXCEPT !.ns = "XRET_JUMP", !.csr = after]
        OBVIOUS
      <3> HIDE DEF after, mret, done
      <3> QED BY <2>2, <3>1, <3>2 DEF Outputs, States
    <2>6. Halts(dret) /\ Halts(halt) /\ Halts(sleep)
      <3> HIDE DEF done
      <3>1. Halts(dret)
        BY <2>2 DEF Outputs, States
      <3>2. Halts(halt)
        BY <2>2 DEF Outputs, States
      <3>3. Halts(sleep)
        BY <2>2 DEF Outputs, States
      <3> QED BY <3>1, <3>2, <3>3
    <2>7. Halts(loop)
      <3> DEFINE first == jump(hwlp_start_q[hwlp_targ])
      <3>1. Halts(first) /\ ending \in SUBSET Loops
        BY <2>3, JumpTypes
      <3>2. loop = [first EXCEPT !.dec = ending]
        OBVIOUS
      <3> HIDE DEF first, ending, loop
      <3> QED BY <3>1, <3>2 DEF Outputs
    <2>8. /\ Halts(trap(exception)) /\ Halts(trap(EXCEPTION))
          /\ Halts(jump(Plus(pc_id, 1)))
      BY <2>3, <2>4, JumpTypes
    <2> HIDE DEF Halts, done, jump, trap, ending, mret, dret, loop, halt, sleep
    <2>9. \/ Clock(in, trap(exception)) \/ Clock(in, trap(EXCEPTION))
          \/ Clock(in, mret) \/ Clock(in, dret) \/ Clock(in, done) \/ Clock(in, loop)
          \/ Clock(in, halt) \/ Clock(in, sleep) \/ Clock(in, jump(Plus(pc_id, 1)))
      BY <2>1
    <2> QED BY <1>1, <2>2, <2>5, <2>6, <2>7, <2>8, <2>9
  <1> QED BY <1>3, <1>4

LEMMA DebugAnswered ==
  ASSUME Types, NEW in \in Inputs,
         XRET_JUMP(in) \/ DBG_WAIT_BRANCH(in) \/ DBG_FLUSH(in)
         \/ DBG_TAKEN_ID(in) \/ DBG_TAKEN_IF(in)
  PROVE  Answered(in)
  <1>1. CASE DBG_FLUSH(in)
    <2> DEFINE out == [Stalled EXCEPT !.ns = IF taken_in_id THEN "DBG_TAKEN_ID"
                                             ELSE "DBG_TAKEN_IF"]
    <2>1. Clock(in, out)
      BY <1>1 DEF DBG_FLUSH
    <2>2. /\ out \in Outputs /\ out.halt_if = TRUE /\ out.halt_id = TRUE
          /\ out.hwlp_end_4 = None
      BY StalledAnswer DEF Outputs, States
    <2> HIDE DEF out
    <2> QED BY <2>1, <2>2, HaltedShape DEF Answered
  <1>2. ~DBG_FLUSH(in) => (Fit => ~instr_valid_id)
    BY NotInDecode DEF XRET_JUMP, DBG_WAIT_BRANCH, DBG_TAKEN_ID, DBG_TAKEN_IF, In
  <1>3. ASSUME NEW out \in Outputs, Clock(in, out), out.hwlp_end_4 = None,
               out.halt_if = TRUE \/ out.pc_set # None, ~DBG_FLUSH(in)
        PROVE  Answered(in)
    BY <1>2, <1>3, EmptyShape DEF Answered
  <1>4. CASE XRET_JUMP(in)
    <2> DEFINE back == [Quiet EXCEPT !.ns = IF single_step THEN "DBG_TAKEN_IF"
                                            ELSE "DECODE",
                                     !.pc_set = xret_target]
               leave == [back EXCEPT !.debug_mode = FALSE]
    <2>1. Clock(in, back) \/ Clock(in, leave)
      <3>1. Clock(in, IF insn = Mret THEN back ELSE leave)
        BY <1>4 DEF XRET_JUMP
      <3> HIDE DEF back, leave
      <3> QED BY <3>1
    <2>2. back \in Outputs /\ back.hwlp_end_4 = None /\ back.pc_set # None
      BY QuietAnswer, JumpTypes, NoneAssumption DEF Outputs, States
    <2>3. leave \in Outputs /\ leave.hwlp_end_4 = None /\ leave.pc_set # None
      <3> HIDE DEF back
      <3> QED BY <2>2 DEF Outputs
    <2>4. ~DBG_FLUSH(in)
      BY <1>4 DEF XRET_JUMP, DBG_FLUSH, In
    <2> HIDE DEF back, leave
    <2> QED BY <1>3, <2>1, <2>2, <2>3, <2>4
  <1>5. CASE DBG_WAIT_BRANCH(in)
    <2> DEFINE out == [Quiet EXCEPT !.halt_if = TRUE, !.pc_set = branch_ex,
                                    !.ns = "DBG_FLUSH"]
    <2>1. Clock(in, out)
      BY <1>5 DEF DBG_WAIT_BRANCH
    <2>2. out \in Outputs /\ out.hwlp_end_4 = None /\ out.halt_if = TRUE
      BY QuietAnswer, JumpTypes DEF Outputs, States
    <2>3. ~DBG_FLUSH(in)
      BY <1>5 DEF DBG_WAIT_BRANCH, DBG_FLUSH, In
    <2> HIDE DEF out
    <2> QED BY <1>3, <2>1, <2>2, <2>3
  <1>6. /\ InDebugRom \in Outputs /\ InDebugRom.hwlp_end_4 = None
        /\ InDebugRom.pc_set # None /\ InDebugRom.csr = csr_n
    BY QuietAnswer, JumpTypes, NoneAssumption DEF InDebugRom, Outputs, States
  <1>7. CASE DBG_TAKEN_ID(in)
    <2> DEFINE cause == CASE trigger_match -> "trigger"
                          [] ~trigger_match /\ ebrk_force_debug_mode
                             /\ insn = Ebreak -> "ebreak"
                          [] OTHER -> "haltreq"
               after == IF debug_mode_q THEN InDebugRom.csr
                        ELSE Halted(InDebugRom.csr, pc_id, cause)
               out == [InDebugRom EXCEPT !.debug_req_entry = FALSE, !.csr = after]
    <2>1. Clock(in, out)
      BY <1>7 DEF DBG_TAKEN_ID
    <2>2. after \in Csrs
      <3>1. cause \in Causes
        BY DEF Causes
      <3> HIDE DEF cause
      <3> QED BY <1>6, <3>1, Fields, CsrChanges, JumpTypes
    <2>3. out \in Outputs /\ out.hwlp_end_4 = None /\ out.pc_set # None
      <3> HIDE DEF after
      <3> QED BY <1>6, <2>2 DEF Outputs
    <2>4. ~DBG_FLUSH(in)
      BY <1>7 DEF DBG_TAKEN_ID, DBG_FLUSH, In
    <2> HIDE DEF out
    <2> QED BY <1>3, <2>1, <2>3, <2>4
  <1>8. CASE DBG_TAKEN_IF(in)
    <2> DEFINE cause == IF debug_force_wakeup_q THEN "haltreq" ELSE "step"
               after == Halted(InDebugRom.csr, pc_if, cause)
               out == [InDebugRom EXCEPT !.debug_force_wakeup = FALSE, !.csr = after]
    <2>1. Clock(in, out)
      BY <1>8 DEF DBG_TAKEN_IF
    <2>2. after \in Csrs
      <3>1. cause \in Causes
        BY DEF Causes
      <3> HIDE DEF cause
      <3> QED BY <1>6, <3>1, Fields, CsrChanges, JumpTypes
    <2>3. out \in Outputs /\ out.hwlp_end_4 = None /\ out.pc_set # None
      <3> HIDE DEF after
      <3> QED BY <1>6, <2>2 DEF Outputs
    <2>4. ~DBG_FLUSH(in)
      BY <1>8 DEF DBG_TAKEN_IF, DBG_FLUSH, In
    <2> HIDE DEF out
    <2> QED BY <1>3, <2>1, <2>3, <2>4
  <1> QED BY <1>1, <1>4, <1>5, <1>7, <1>8
------------------------------------------------------------------------------
(* What a single step changes of an answer leaves its shape.               *)
LEMMA ExecuteAnswered ==
  ASSUME Types, NEW in \in Inputs, NEW out \in Outputs, Execute(in, out),
         Fit => Shape(in, out)
  PROVE  Answered(in)
  <1> DEFINE stepped == [out EXCEPT !.halt_if = TRUE,
                                    !.ns = IF in.id_ready THEN step_ns ELSE @]
  <1>1. Clock(in, out) \/ Clock(in, stepped)
    BY DEF Execute
  <1>2. stepped \in Outputs
    <2>1. step_ns \in States
      BY DEF step_ns, States
    <2> QED BY <2>1 DEF Outputs
  <1>3. /\ stepped.halt_if = TRUE /\ stepped.halt_id = out.halt_id
        /\ stepped.hwlp_end_4 = out.hwlp_end_4 /\ stepped.pc_set = out.pc_set
        /\ ~in.id_ready => stepped.ns = out.ns
    BY DEF Outputs
  <1>4. Shape(in, out) => Shape(in, stepped)
    <2> HIDE DEF stepped
    <2> QED BY <1>3 DEF Shape, handover, Kept, clear_instr_valid
  <1> HIDE DEF stepped
  <1> QED BY <1>1, <1>2, <1>4 DEF Answered

(* An instruction that is not a plain one asks for no loop jump. *)
LEMMA WaitingShape ==
  ASSUME Types, NEW in \in Inputs, NEW out \in Outputs,
         out.hwlp_end_4 = None, out.pc_set = None, ctrl_fsm_cs \in DecodeStates,
         \/ out.ns \in {"DECODE", "DBG_FLUSH"}
         \/ out.halt_if = TRUE /\ out.halt_id = TRUE
         \/ out.halt_if = TRUE /\ in.id_ready
         \/ /\ out.halt_if = TRUE /\ out.ns = ctrl_fsm_cs
            /\ Fit /\ hwlp_then # None => ctrl_fsm_cs = "DECODE"
  PROVE  Fit => Shape(in, out)
  BY DEF Shape, handover, Kept, clear_instr_valid, DecodeStates

LEMMA FlushingAnswer ==
  ASSUME Types, NEW in \in Inputs
  PROVE  /\ Flushing(in) \in Outputs /\ Flushing(in).halt_if = TRUE
         /\ Flushing(in).hwlp_end_4 = None /\ Flushing(in).pc_set = None
         /\ ~in.id_ready => Flushing(in).ns = ctrl_fsm_cs
         /\ FlushingNow(in) \in Outputs /\ FlushingNow(in).halt_if = TRUE
         /\ FlushingNow(in).hwlp_end_4 = None /\ FlushingNow(in).pc_set = None
         /\ \/ ctrl_fsm_cs = "DECODE" /\ FlushingNow(in).ns = ctrl_fsm_cs
            \/ FlushingNow(in).halt_id = TRUE \/ in.id_ready
  <1>1. /\ Flushing(in) \in Outputs /\ Flushing(in).halt_if = TRUE
        /\ Flushing(in).hwlp_end_4 = None /\ Flushing(in).pc_set = None
        /\ ~in.id_ready => Flushing(in).ns = ctrl_fsm_cs
    BY DecodedAnswer DEF Flushing, Outputs, States
  <1> DEFINE now == [Decoded EXCEPT !.halt_if = TRUE, !.halt_id = TRUE,
                                    !.ns = "FLUSH_EX"]
  <1>2. /\ now \in Outputs /\ now.halt_if = TRUE /\ now.halt_id = TRUE
        /\ now.hwlp_end_4 = None /\ now.pc_set = None
    BY DecodedAnswer DEF Outputs, States
  <1>3. FlushingNow(in) = IF ctrl_fsm_cs = "DECODE" THEN Flushing(in) ELSE now
    BY DEF FlushingNow, In
  <1> HIDE DEF now
  <1> QED BY <1>1, <1>2, <1>3

LEMMA FlushesAnswered ==
  ASSUME Types, NEW in \in Inputs,
         IllegalInstruction(in) \/ EbreakInDecode(in) \/ EcallInDecode(in)
         \/ FlushInDecode(in)
  PROVE  Answered(in)
  <1>1. ctrl_fsm_cs \in DecodeStates /\ instr_valid_id
    BY DEF IllegalInstruction, EbreakInDecode, EcallInDecode, FlushInDecode,
           Executing, Decoding, In
  <1>2. Fit => Shape(in, FlushingNow(in))
    BY <1>1, FlushingAnswer, WaitingShape
  <1>3. CASE IllegalInstruction(in)
    <2> DEFINE out == [FlushingNow(in) EXCEPT !.illegal = TRUE]
    <2>1. Execute(in, out)
      BY <1>3 DEF IllegalInstruction
    <2>2. out \in Outputs
      <3>1. FlushingNow(in) \in Outputs /\ FlushingNow(in).ns \in States
        BY FlushingAnswer, Fields
      <3> QED BY <3>1, Redirected
    <2>3. /\ out.halt_if = FlushingNow(in).halt_if
          /\ out.halt_id = FlushingNow(in).halt_id
          /\ out.hwlp_end_4 = FlushingNow(in).hwlp_end_4
          /\ out.pc_set = FlushingNow(in).pc_set
          /\ out.ns = FlushingNow(in).ns /\ out.req = FlushingNow(in).req
      BY FlushingAnswer DEF Outputs
    <2>4. Fit => Shape(in, out)
      <3> HIDE DEF out
      <3> QED BY <1>2, <2>3 DEF Shape, handover, Kept, clear_instr_valid
    <2> HIDE DEF out
    <2> QED BY <2>1, <2>2, <2>4, ExecuteAnswered
  <1>4. CASE EbreakInDecode(in)
    <2> DEFINE halt == [Decoded EXCEPT !.halt_if = TRUE,
                                       !.halt_id = In({"DECODE_HWLOOP"}),
                                       !.ns = "DBG_FLUSH"]
    <2>1. Execute(in, halt) \/ Execute(in, FlushingNow(in))
      BY <1>4 DEF EbreakInDecode
    <2>2. halt \in Outputs /\ halt.hwlp_end_4 = None /\ halt.pc_set = None
          /\ halt.ns = "DBG_FLUSH"
      <3>1. In({"DECODE_HWLOOP"}) \in BOOLEAN
        BY DEF In
      <3> QED BY <3>1, DecodedAnswer DEF Outputs, States
    <2>3. Fit => Shape(in, halt)
      <3> HIDE DEF halt
      <3> QED BY <1>1, <2>2, WaitingShape
    <2> HIDE DEF halt
    <2> QED BY <1>2, <2>1, <2>2, <2>3, FlushingAnswer, ExecuteAnswered
  <1>5. CASE EcallInDecode(in)
    BY <1>2, <1>5, FlushingAnswer, ExecuteAnswered DEF EcallInDecode
  <1>6. CASE FlushInDecode(in)
    <2>1. Execute(in, Flushing(in)) /\ ~illegal /\ flushes
      BY <1>6 DEF FlushInDecode
    <2>2. ASSUME ctrl_fsm_cs = "DECODE_HWLOOP"
          PROVE  csr_status(insn)
      BY <2>1, <2>2 DEF illegal, is_hwlp_illegal, not_in_hwlp, flushes
    <2>3. Fit /\ hwlp_then # None => ctrl_fsm_cs = "DECODE"
      BY <1>1, <2>2 DEF Fit, TargetWaits, DecodeStates
    <2>4. Fit => Shape(in, Flushing(in))
      BY <1>1, <2>3, FlushingAnswer, WaitingShape, InputFields
    <2> QED BY <2>1, <2>4, FlushingAnswer, ExecuteAnswered
  <1> QED BY <1>3, <1>4, <1>5, <1>6

LEMMA JumpAnswered ==
  ASSUME Types, NEW in \in Inputs, JumpInDecode(in)
  PROVE  Answered(in)
  <1> DEFINE jump == [Decoded EXCEPT !.pc_set = Target(pc_id, insn),
                                     !.jump_done = TRUE]
  <1>1. /\ ctrl_fsm_cs \in DecodeStates /\ ~illegal /\ insn.op = "jump"
        /\ Execute(in, Decoded) \/ Execute(in, jump)
    BY DEF JumpInDecode, Executing, Decoding, In
  <1>2. ctrl_fsm_cs = "DECODE"
    BY <1>1 DEF illegal, is_hwlp_illegal, not_in_hwlp, DecodeStates
  <1>3. Fit => Shape(in, Decoded)
    BY <1>1, <1>2, DecodedAnswer, WaitingShape
  <1>4. Target(pc_id, insn) \in Address
    <2>1. insn.offset \in Nat /\ pc_id \in Nat
      BY <1>1, InsnTypes, InstrsAre, JumpTypes, NextTypes
    <2> QED BY <2>1, PlusTypes DEF Target
  <1>5. /\ jump \in Outputs /\ jump.hwlp_end_4 = None /\ jump.ns = "DECODE"
    BY <1>2, <1>4, DecodedAnswer DEF Outputs
  <1>6. Shape(in, jump)
    <2> HIDE DEF jump
    <2> QED BY <1>1, <1>5 DEF Shape
  <1> HIDE DEF jump
  <1> QED BY <1>1, <1>3, <1>5, <1>6, DecodedAnswer, ExecuteAnswered

LEMMA PlainAnswered ==
  ASSUME Types, NEW in \in Inputs, PlainInDecode(in)
  PROVE  Answered(in)
  <1> DEFINE ending == {k \in Loops : hwlp_end_eq_pc(k) /\ hwlp_counter_gt_1(k)}
             body == [Decoded EXCEPT !.ns = body_ns]
             jump == [body EXCEPT !.pc_set = hwlp_start_q[hwlp_targ],
                                  !.jump_done = TRUE, !.dec = ending]
  <1>1. \/ Execute(in, Decoded) \/ Execute(in, body)
        \/ Execute(in, jump) /\ ending # {}
    <2>1. Execute(in,
            CASE ~is_hwlp_body -> Decoded
              [] is_hwlp_body /\ (ending = {} \/ jump_done_q) -> body
              [] OTHER -> jump)
      BY DEF PlainInDecode
    <2> HIDE DEF ending, body, jump
    <2> QED BY <2>1
  <1>2. ctrl_fsm_cs = "DECODE" /\ instr_valid_id
    BY DEF PlainInDecode, Executing, Decoding, In
  <1>3. Fit => Shape(in, Decoded)
    BY <1>2, DecodedAnswer, WaitingShape DEF DecodeStates
  <1>4. /\ body \in Outputs /\ body.hwlp_end_4 = None /\ body.pc_set = None
        /\ body.ns = body_ns
    BY DecodedAnswer DEF Outputs, States, body_ns
  <1>5. body_ns \in {"DECODE", "DECODE_HWLOOP"} /\ (Near => body_ns = "DECODE")
    BY DEF body_ns, Near
  <1>6. Fit => Shape(in, body)
    <2> HIDE DEF body
    <2> QED BY <1>2, <1>4, <1>5 DEF Shape, Fit, TargetWaits
  <1>7. /\ jump \in Outputs /\ jump.hwlp_end_4 = None /\ jump.ns = body_ns
        /\ jump.pc_set # None
    <2>1. ending \in SUBSET Loops
      OBVIOUS
    <2> HIDE DEF body, ending
    <2> QED BY <1>4, <2>1, JumpTypes, NoneAssumption DEF Outputs
  <1>8. ending # {} => (Fit => Shape(in, jump))
    <2> SUFFICES ASSUME ending # {}, Fit
                 PROVE  Shape(in, jump)
      OBVIOUS
    <2>1. Plus(pc_id, 1) \in Ends
      BY DEF Fit, EndsKnown, hwlp_end_eq_pc
    <2> HIDE DEF jump
    <2> QED BY <1>5, <1>7, <2>1 DEF Shape
  <1> HIDE DEF ending, body, jump
  <1> QED BY <1>1, <1>3, <1>4, <1>6, <1>7, <1>8, DecodedAnswer, ExecuteAnswered

LEMMA HwloopAnswered ==
  ASSUME Types, NEW in \in Inputs, PlainInHwloop(in)
  PROVE  Answered(in)
  <1> DEFINE near == {k \in Loops : hwlp_end_eq_pc_plus4(k)}
             k == IF 0 \in near THEN 0 ELSE 1
             jumping == {j \in near : hwlp_counter_gt_1(j)}
             j == IF 0 \in jumping THEN 0 ELSE 1
             dec == {i \in Loops : hwlp_end_eq_pc(i)}
             target == IF jumping = {} THEN None ELSE hwlp_start_q[j]
             ns == IF near = {} \/ hwlp_counter_gt_1(k) \/ is_hwlp_body
                     THEN "DECODE_HWLOOP" ELSE "DECODE"
             out == [Decoded EXCEPT !.dec = dec, !.hwlp_end_4 = target, !.ns = ns]
  <1>1. /\ Execute(in, out) /\ ctrl_fsm_cs = "DECODE_HWLOOP" /\ instr_valid_id
        /\ plain
    BY DEF PlainInHwloop, Executing, Decoding, In
  <1>2. dec \in SUBSET Loops /\ ns \in {"DECODE", "DECODE_HWLOOP"}
    OBVIOUS
  <1>3. target \in Address \cup {None} /\ (target # None <=> Near)
    <2>1. jumping # {} <=> Near
      BY DEF Near
    <2>2. hwlp_start_q[j] \in Address
      BY DEF Types, TypeOK, Loops
    <2> HIDE DEF jumping, j
    <2> QED BY <2>1, <2>2, NoneAssumption
  <1>4. /\ out \in Outputs /\ out.hwlp_end_4 = target /\ out.ns = ns
        /\ out.pc_set = None
    <2> HIDE DEF dec, target, ns
    <2> QED BY <1>2, <1>3, DecodedAnswer DEF Outputs, States
  <1>5. insn.op # "jump" /\ ~csr_status(insn)
    BY <1>1 DEF plain, flushes
  <1>6. Fit => Shape(in, out)
    <2> HIDE DEF out, dec, target, ns
    <2> QED BY <1>1, <1>2, <1>3, <1>4, <1>5 DEF Shape, Fit, TargetWaits
  <1> HIDE DEF out
  <1> QED BY <1>1, <1>4, <1>6, ExecuteAnswered

LEMMA CycleAnswered ==
  ASSUME Types, NEW in \in Inputs, Cycle(in)
  PROVE  Answered(in)
  BY StartAnswered, DecodeAnswered, FlushAnswered, DebugAnswered, FlushesAnswered,
     JumpAnswered, PlainAnswered, HwloopAnswered DEF Cycle
------------------------------------------------------------------------------
LEMMA InitTypes == Init => Types
  <1> SUFFICES ASSUME Init PROVE Types
    OBVIOUS
  <1>1. Known
    BY DEF Init, Known
  <1>2. CsrReset \in Csrs
    BY DEF CsrReset, Csrs, Address, SPACE, DebugModes, Causes
  <1>3. /\ scenario.irqs \in Nat /\ scenario.debugs \in Nat
        /\ scenario.choices \in Nat
    BY <1>1, ScenarioTypes
  <1>4. TypeOK
    <2>1. 0 \in Address /\ 0 \in 0 .. COUNT - 1
      BY CountAssumption DEF Address, SPACE
    <2>2. /\ hwlp_start_q \in [Loops -> Address] /\ hwlp_end_q \in [Loops -> Address]
          /\ hwlp_counter_q \in [Loops -> 0 .. COUNT - 1]
      BY <2>1 DEF Init, HwlpInit
    <2>3. \A b \in {jump_done_q, illegal_insn_q, hwlp_end_4_id_q, debug_mode_q,
                    debug_req_q, debug_req_entry_q, debug_force_wakeup_q, if_busy,
                    instr_valid_id, ex_busy, debug_req_i, fetch_enable_i,
                    core_busy_q, fetch_enable_q} : b = FALSE
      BY DEF Init, SleepInit
    <2>4. /\ irqs \in 0 .. scenario.irqs /\ debugs \in 0 .. scenario.debugs
          /\ choices \in 0 .. scenario.choices
      BY <1>3 DEF Init
    <2>5. /\ ctrl_fsm_cs \in States /\ pc_if \in Address /\ pc_id \in Address
          /\ hwlp_then \in Address \cup {None} /\ branch_ex \in Address \cup {None}
          /\ irq_i \in {{}, {Line}} /\ irq_q \in {{}, {Line}}
          /\ csr \in Csrs /\ csr_ex \in Csrs \cup {None}
      BY <1>2, <2>1 DEF Init, States, IntInit
    <2> QED BY <2>2, <2>3, <2>4, <2>5 DEF TypeOK
  <1> QED BY <1>1, <1>4 DEF Types

LEMMA GatedTypes == Types /\ ClockGated => Types'
  <1> SUFFICES ASSUME Types, ClockGated PROVE Types'
    OBVIOUS
  <1>1. Ungated(ctrl_fsm_cs \notin {"WAIT_SLEEP", "SLEEP"}, FALSE)
    BY DEF ClockGated
  <1>2. (ctrl_fsm_cs \notin {"WAIT_SLEEP", "SLEEP"}) \in BOOLEAN
    OBVIOUS
  <1>3. /\ irq_i' \in {{}, {Line}} /\ debug_req_i' \in BOOLEAN
        /\ fetch_enable_i' \in BOOLEAN /\ core_busy_q' \in BOOLEAN
        /\ fetch_enable_q' \in BOOLEAN /\ debug_req_q' \in BOOLEAN
        /\ irqs' \in 0 .. scenario.irqs /\ debugs' \in 0 .. scenario.debugs
        /\ scenario' = scenario /\ Known'
    BY <1>1, <1>2, EnvironmentTypes
  <1>4. /\ ctrl_fsm_cs' = ctrl_fsm_cs /\ jump_done_q' = jump_done_q
        /\ illegal_insn_q' = illegal_insn_q /\ hwlp_end_4_id_q' = hwlp_end_4_id_q
        /\ debug_mode_q' = debug_mode_q /\ debug_req_entry_q' = debug_req_entry_q
        /\ debug_force_wakeup_q' = debug_force_wakeup_q
        /\ pc_if' = pc_if /\ hwlp_then' = hwlp_then
        /\ instr_valid_id' = instr_valid_id /\ pc_id' = pc_id
        /\ branch_ex' = branch_ex /\ csr_ex' = csr_ex /\ ex_busy' = ex_busy
        /\ csr' = csr /\ choices' = choices /\ if_busy' = if_busy
        /\ hwlp_start_q' = hwlp_start_q /\ hwlp_end_q' = hwlp_end_q
        /\ hwlp_counter_q' = hwlp_counter_q /\ irq_q' = irq_q
    BY DEF ClockGated, fsmRegs, pipeline, hwlpRegs
  <1>5. TypeOK'
    BY <1>3, <1>4, Flags DEF Types, TypeOK
  <1> QED BY <1>3, <1>5 DEF Types

LEMMA TypesNext == Types /\ [Next]_vars => Types'
  <1> SUFFICES ASSUME Types, [Next]_vars PROVE Types'
    OBVIOUS
  <1>1. CASE \E in \in Inputs : Cycle(in)
    BY <1>1, CycleAnswered, TypesStep DEF Answered
  <1>2. CASE ClockGated
    BY <1>2, GatedTypes
  <1>3. CASE UNCHANGED vars
    BY <1>3 DEF vars, fsmRegs, pipeline, inputs, hwlpRegs, sleepRegs, Types, TypeOK,
       Known
  <1> QED BY <1>1, <1>2, <1>3 DEF Next

(* Every register of the control flow keeps its type, whatever the program *)
(* and in whichever order the core stalls, is interrupted, halted, stepped *)
(* and put to sleep: no loop end, jump target or counter leaves its range, *)
(* and no more requests are made than the scenario has.                    *)
THEOREM TypeCorrect == Spec => []TypeOK
  <1>1. Types => TypeOK
    BY DEF Types
  <1> QED BY <1>1, InitTypes, TypesNext, PTL DEF Spec
------------------------------------------------------------------------------
LEMMA InitFit == Init => Fit
  BY DEF Init, HwlpInit, Fit, EndsKnown, ValidInDecode, NextFollows, TargetWaits, Ends,
     Loops

(* What a loop jump meets. *)
LEMMA FitsJump ==
  ASSUME Types, Fit, instr_valid_id, Near, insn.op # "jump"
  PROVE  pc_if = Plus(pc_id, 1) /\ Plus(pc_if, 1) \in Ends
  <1>1. PICK k \in Loops : hwlp_end_q[k] = Plus(pc_id, 2)
    BY DEF Near, hwlp_end_eq_pc_plus4
  <1>2. Plus(pc_id, 2) \in Ends
    BY <1>1 DEF Fit, EndsKnown
  <1>3. pc_id \in Address
    BY DEF Types, TypeOK
  <1>4. Plus(Plus(pc_id, 1), 1) \in Ends
    BY <1>2, <1>3, PlusIs
  <1>5. Plus(pc_id, 1) \notin Ends
    BY <1>4, LoopsAssumption DEF Types, Known, Ends
  <1> QED BY <1>4, <1>5 DEF Fit, NextFollows

LEMMA ClockFits ==
  ASSUME Types, Fit, NEW in \in Inputs, NEW out \in Outputs, Clock(in, out),
         ~hwlp_end_4_id_q, hwlp_end_4_id_q', Shape(in, out)
  PROVE  /\ instr_valid_id /\ hwlp_then = None
         /\ pc_if = Plus(pc_id, 1)
         /\ \E k \in Loops : hwlp_end_q[k] = Plus(pc_if, 1)
  <1>1. out.hwlp_end_4 # None
    <2>1. hwlp_end_4_id_q' = (out.hwlp_end_4 # None)
      BY DEF Clock
    <2> QED BY <2>1
  <1>2. /\ ctrl_fsm_cs = "DECODE_HWLOOP" /\ instr_valid_id /\ Near
        /\ insn.op # "jump"
    BY <1>1 DEF Shape
  <1>3. pc_if = Plus(pc_id, 1)
    BY <1>2, FitsJump
  <1>4. \E k \in Loops : hwlp_end_q[k] = Plus(pc_if, 1)
    <2>1. PICK k \in Loops : hwlp_end_q[k] = Plus(pc_id, 2)
      BY <1>2 DEF Near, hwlp_end_eq_pc_plus4
    <2>2. Plus(Plus(pc_id, 1), 1) = Plus(pc_id, 2)
      BY PlusIs DEF Types, TypeOK
    <2> QED BY <1>3, <2>1, <2>2
  <1>5. hwlp_then = None
    BY <1>2 DEF Fit, TargetWaits
  <1> QED BY <1>2, <1>3, <1>4, <1>5

(* What a cycle leaves of the loops, and of the instruction in decode if   *)
(* it stays there.                                                         *)
LEMMA EndsStay ==
  ASSUME Types, EndsKnown, NEW in \in Inputs, NEW out \in Outputs, Clock(in, out)
  PROVE  Ends' = Ends /\ EndsKnown'
  <1> DEFINE we == IF insn.op = "hwloop" /\ out.decoding /\ ~out.mask /\ in.id_ready
                     THEN insn ELSE None
  <1>1. scenario' = scenario
    BY DEF Clock, Ungated
  <1>2. Ends' = Ends
    BY <1>1 DEF Ends
  <1>3. HwlpClock(we, pc_id, out.dec, instr_valid_id /\ clear_instr_valid(in, out))
    BY DEF Clock, LoopRegs
  <1>4. we # None => /\ we.k \in Loops
                     /\ we.end # None => Plus(pc_id, we.end) \in Ends
    <2>1. ASSUME insn.op = "hwloop"
          PROVE  /\ insn.k \in Loops
                 /\ insn.end # None => Plus(pc_id, insn.end) \in Ends
      <3>1. insn.k \in Loops
        BY <2>1, InsnTypes, InstrsAre
      <3>2. pc_id \in Address
        BY DEF Types, TypeOK
      <3> QED BY <2>1, <3>1, <3>2 DEF Ends, LoopEnds, insn
    <2> QED BY <2>1
  <1> HIDE DEF we
  <1>5. hwlp_end_q \in [Loops -> Address]
    BY DEF Types, TypeOK
  <1>6. CASE we = None
    <2>1. hwlp_end_q' = hwlp_end_q
      BY <1>3, <1>6 DEF HwlpClock
    <2> QED BY <1>2, <2>1 DEF EndsKnown
  <1>7. CASE we # None
    <2>1. hwlp_end_q' = [hwlp_end_q EXCEPT ![we.k] =
                           IF we.end # None THEN Plus(pc_id, we.end) ELSE @]
      BY <1>3, <1>7 DEF HwlpClock, Written
    <2>2. \A k \in Loops : hwlp_end_q'[k] \in Ends
      BY <1>4, <1>5, <1>7, <2>1 DEF EndsKnown
    <2> QED BY <1>2, <2>2 DEF EndsKnown
  <1> QED BY <1>6, <1>7

LEMMA KeptStays ==
  ASSUME Types, NEW in \in Inputs, NEW out \in Outputs, Clock(in, out),
         Kept(in, out), ~handover(in, out)
  PROVE  /\ pc_id' = pc_id /\ insn' = insn
         /\ hwlp_end_q' = hwlp_end_q /\ hwlp_counter_q' = hwlp_counter_q
         /\ Near' = Near
  <1>1. scenario' = scenario /\ pc_id' = pc_id
    BY DEF Clock, Ungated, IfIdRegs
  <1>2. insn' = insn
    BY <1>1 DEF insn
  <1>3. HwlpClock(None, pc_id, out.dec, FALSE)
    <2>1. ~in.id_ready /\ ~clear_instr_valid(in, out)
      BY DEF Kept, clear_instr_valid
    <2>2. (instr_valid_id /\ clear_instr_valid(in, out)) = FALSE
      BY <2>1
    <2>3. (IF insn.op = "hwloop" /\ out.decoding /\ ~out.mask /\ in.id_ready
             THEN insn ELSE None) = None
      BY <2>1
    <2> QED BY <2>2, <2>3 DEF Clock, LoopRegs
  <1>4. hwlp_end_q' = hwlp_end_q /\ hwlp_counter_q' = hwlp_counter_q
    BY <1>3 DEF HwlpClock, Types, TypeOK
  <1>5. Near' = Near
    BY <1>1, <1>4 DEF Near, hwlp_end_eq_pc_plus4, hwlp_counter_gt_1
  <1> QED BY <1>1, <1>2, <1>4, <1>5

(* The ways in which the fetch stage goes on. *)
LEMMA FetchGoesOn ==
  ASSUME Types, NEW in \in Inputs, NEW out \in Outputs, Clock(in, out)
  PROVE  \/ /\ out.pc_set # None /\ ~handover(in, out) /\ hwlp_then' = None
         \/ /\ out.pc_set = None /\ handover(in, out) /\ hwlp_then' = None
            /\ \/ hwlp_then = None /\ pc_if' = Plus(pc_if, 1)
               \/ hwlp_then # None
               \/ out.hwlp_end_4 # None
         \/ /\ out.pc_set = None /\ ~handover(in, out)
            /\ pc_if' = pc_if
            /\ \/ hwlp_then' = hwlp_then
               \/ out.hwlp_end_4 # None
  <1>1. out.pc_set # None => ~handover(in, out)
    BY DEF handover
  <1>2. Fetch(in, out)
    BY DEF Clock
  <1>3. if_stage_i!Issue => hwlp_then' = None /\ (hwlp_then = None => pc_if' = Plus(pc_if, 1))
    BY DEF if_stage_i!Issue, if_stage_i!Size, if_stage_i!After, Plus
  <1>4. if_stage_i!Wait => pc_if' = pc_if /\ hwlp_then' = hwlp_then
    BY DEF if_stage_i!Wait
  <1>5. if_stage_i!Branch(out.pc_set) => hwlp_then' = None
    BY DEF if_stage_i!Branch
  <1>6. ASSUME if_stage_i!LoopJump(out.hwlp_end_4)
        PROVE  IF issued' # None THEN hwlp_then' = None ELSE pc_if' = pc_if
    <2>1. pc_if \in Address
      BY DEF Types, TypeOK
    <2>2. None # << pc_if, if_stage_i!Instr(pc_if) >>
      BY <2>1, NoneAssumption DEF if_stage_i!Instr
    <2> QED BY <1>6, <2>2 DEF if_stage_i!LoopJump
  <1> QED BY <1>1, <1>2, <1>3, <1>4, <1>5, <1>6 DEF Fetch

LEMMA ClockKeepsFit ==
  ASSUME Types, Fit, NEW in \in Inputs, NEW out \in Outputs, Clock(in, out),
         Shape(in, out)
  PROVE  Fit'
  <1>1. Ends' = Ends /\ EndsKnown'
    BY EndsStay DEF Fit
  <1>2. /\ ctrl_fsm_cs' = out.ns
        /\ hwlp_end_4_id_q' = (out.hwlp_end_4 # None)
        /\ handover(in, out) => instr_valid_id' = TRUE /\ pc_id' = pc_if
        /\ ~handover(in, out) =>
             instr_valid_id' = (instr_valid_id /\ ~clear_instr_valid(in, out))
    BY DEF Clock, IfIdRegs
  <1>3. instr_valid_id' => handover(in, out) \/ Kept(in, out)
    BY <1>2 DEF Kept
  <1>4. ValidInDecode'
    BY <1>2, <1>3 DEF Shape, ValidInDecode
  <1>5. out.hwlp_end_4 # None =>
          /\ Near /\ ~csr_status(insn) /\ Plus(pc_if, 1) \in Ends
    BY FitsJump DEF Shape
  <1>6. NextFollows'
    <2> SUFFICES ASSUME instr_valid_id'
                 PROVE  \/ pc_if' = Plus(pc_id', 1) \/ insn'.op = "jump"
                        \/ Plus(pc_id', 1) \in Ends
      BY <1>1 DEF NextFollows
    <2>1. CASE handover(in, out)
      BY <1>2, <1>5, <2>1, FetchGoesOn DEF Fit, TargetWaits
    <2>2. CASE ~handover(in, out)
      <3>1. Kept(in, out) /\ instr_valid_id
        BY <1>3, <2>2 DEF Kept
      <3>2. pc_id' = pc_id /\ insn' = insn
        BY <2>2, <3>1, KeptStays
      <3>3. out.pc_set # None => insn.op = "jump" \/ Plus(pc_id, 1) \in Ends
        BY <3>1 DEF Shape
      <3>4. out.pc_set = None => pc_if' = pc_if
        BY <2>2, FetchGoesOn
      <3> QED BY <3>1, <3>2, <3>3, <3>4 DEF Fit, NextFollows
    <2> QED BY <2>1, <2>2
  <1>7. TargetWaits'
    <2> SUFFICES ASSUME hwlp_then' # None
                 PROVE  /\ Plus(pc_if', 1) \in Ends
                        /\ instr_valid_id' =>
                             /\ Near' /\ ~csr_status(insn')
                             /\ out.ns = "DECODE_HWLOOP" => out.hwlp_end_4 # None
      BY <1>1, <1>2 DEF TargetWaits, csr_status
    <2>1. /\ out.pc_set = None /\ ~handover(in, out) /\ pc_if' = pc_if
          /\ hwlp_then # None \/ out.hwlp_end_4 # None
      BY FetchGoesOn
    <2>2. Plus(pc_if', 1) \in Ends
      BY <1>5, <2>1 DEF Fit, TargetWaits
    <2>3. ASSUME instr_valid_id'
          PROVE  /\ Near' /\ ~csr_status(insn')
                 /\ out.ns = "DECODE_HWLOOP" => out.hwlp_end_4 # None
      <3>1. Kept(in, out) /\ instr_valid_id
        BY <1>3, <2>1, <2>3 DEF Kept
      <3>2. insn' = insn /\ Near' = Near
        BY <2>1, <3>1, KeptStays
      <3>3. Near /\ ~csr_status(insn)
        BY <1>5, <2>1, <3>1 DEF Fit, TargetWaits
      <3>4. out.ns = "DECODE_HWLOOP" => out.hwlp_end_4 # None
        BY <2>1, <3>1 DEF Shape
      <3> QED BY <3>2, <3>3, <3>4
    <2> QED BY <2>2, <2>3
  <1> QED BY <1>1, <1>4, <1>6, <1>7 DEF Fit

LEMMA GatedKeeps ==
  ASSUME ClockGated \/ UNCHANGED vars
  PROVE  (Fit => Fit') /\ hwlp_end_4_id_q' = hwlp_end_4_id_q
  <1>1. /\ scenario' = scenario /\ ctrl_fsm_cs' = ctrl_fsm_cs
        /\ hwlp_end_4_id_q' = hwlp_end_4_id_q
        /\ pc_if' = pc_if /\ hwlp_then' = hwlp_then
        /\ instr_valid_id' = instr_valid_id /\ pc_id' = pc_id
        /\ hwlp_end_q' = hwlp_end_q /\ hwlp_counter_q' = hwlp_counter_q
    BY DEF ClockGated, Ungated, fsmRegs, pipeline, hwlpRegs, vars
  <1>2. /\ Ends' = Ends /\ insn' = insn /\ Near' = Near
        /\ csr_status(insn)' = csr_status(insn)
    BY <1>1 DEF Ends, insn, Near, hwlp_end_eq_pc_plus4, hwlp_counter_gt_1, csr_status
  <1>3. (EndsKnown => EndsKnown') /\ (ValidInDecode => ValidInDecode')
    BY <1>1, <1>2 DEF EndsKnown, ValidInDecode
  <1>4. (NextFollows => NextFollows') /\ (TargetWaits => TargetWaits')
    BY <1>1, <1>2 DEF NextFollows, TargetWaits
  <1> QED BY <1>1, <1>3, <1>4 DEF Fit

(* A loop jump reaches the fetch stage only while the last but one         *)
(* instruction is in decode and the last one is next to be fetched, once:  *)
(* what IfStage assumes (cv32e40p_controller.sv:1251-1258).                *)
THEOREM LoopJumpFits == Spec => LoopJumpsFit
  <1>1. Init => Types /\ Fit
    BY InitTypes, InitFit
  <1>2. Types /\ Fit /\ [Next]_vars => (Types /\ Fit)'
    <2> SUFFICES ASSUME Types, Fit, [Next]_vars PROVE Fit'
      BY TypesNext
    <2>1. CASE \E in \in Inputs : Cycle(in)
      BY <2>1, CycleAnswered, ClockKeepsFit DEF Answered
    <2>2. CASE ClockGated \/ UNCHANGED vars
      BY <2>2, GatedKeeps
    <2> QED BY <2>1, <2>2 DEF Next
  <1>3. Types /\ Fit /\ [Next]_vars =>
          [~hwlp_end_4_id_q /\ hwlp_end_4_id_q' =>
             /\ instr_valid_id /\ hwlp_then = None
             /\ pc_if = Plus(pc_id, 1)
             /\ \E k \in Loops : hwlp_end_q[k] = Plus(pc_if, 1)]_vars
    <2> SUFFICES ASSUME Types, Fit, [Next]_vars, ~hwlp_end_4_id_q, hwlp_end_4_id_q'
                 PROVE  /\ instr_valid_id /\ hwlp_then = None
                        /\ pc_if = Plus(pc_id, 1)
                        /\ \E k \in Loops : hwlp_end_q[k] = Plus(pc_if, 1)
      OBVIOUS
    <2>1. CASE \E in \in Inputs : Cycle(in)
      BY <2>1, CycleAnswered, ClockFits DEF Answered
    <2>2. CASE ClockGated \/ UNCHANGED vars
      <3>1. hwlp_end_4_id_q' = hwlp_end_4_id_q
        BY <2>2, GatedKeeps
      <3> QED BY <3>1
    <2> QED BY <2>1, <2>2 DEF Next
  <1> QED BY <1>1, <1>2, <1>3, PTL DEF Spec, LoopJumpsFit
==============================================================================
