-------------------------------- MODULE Hart --------------------------------
(***************************************************************************)
(* What the core promises to software: one instruction after the other,    *)
(* hardware loops, traps, interrupts and debug mode, as the user manual    *)
(* describes them, with no pipeline.  When interrupts and halt requests    *)
(* come is left open.                                                      *)
(***************************************************************************)
EXTENDS Isa

VARIABLES
  code, triggers,    \* the program, and where a debugger sets triggers
  pc,
  csr,
  debug,             \* in debug mode
  stepped,           \* one instruction has been executed by single-stepping
  start, end,        \* the hardware loops ...
  again              \* ... and how often each still jumps back

hartVars ==
  << code, triggers, pc, csr, debug, stepped, start, end, again >>

insn == Code(code, pc)

HartInit ==
  /\ pc = Boot
  /\ csr = CsrReset
  /\ ~debug /\ ~stepped
  /\ start = [k \in Loops |-> 0] /\ end = [k \in Loops |-> 0]
  /\ again = [k \in Loops |-> 0]

stepping == csr.dcsr = "step" /\ ~debug

InBody(k) == again[k] > 0 /\ start[k] <= pc /\ Plus(pc, 1) <= end[k]
AtEnd(k) == again[k] > 0 /\ Plus(pc, 1) = end[k]

Illegal ==
  \/ insn \in {Dret, Debugger} /\ ~debug
  \/ \E k \in Loops : InBody(k) /\
       \/ insn.op \in {"jump", "branch", "mret", "dret", "fencei"}
       \/ insn = Wfi /\ csr.dcsr # "step"

Unchanged == UNCHANGED << code, triggers >>
SameLoops == UNCHANGED << start, end, again >>

GoTo(target) ==
  /\ ~stepped /\ (debug \/ pc # csr.trigger)
  /\ pc' = target
  /\ stepped' = stepping
  /\ Unchanged

(* At the end of a body that is to be run again the next instruction is    *)
(* the first one of the body.                                              *)
Sequential ==
  \/ /\ \A k \in Loops : ~AtEnd(k)
     /\ GoTo(Plus(pc, 1)) /\ SameLoops
  \/ \E k \in Loops :
       /\ AtEnd(k)
       /\ GoTo(start[k])
       /\ again' = [again EXCEPT ![k] = @ - 1]
       /\ UNCHANGED << start, end >>

Straightforward ==
  /\ ~Illegal /\ insn.op \in {"alu", "load", "wfi", "fencei"}
  /\ Sequential
  /\ UNCHANGED << csr, debug >>

WriteCsr ==
  /\ ~Illegal
  /\ csr' \in CsrWrites(csr, insn, DebugModes, triggers)
  /\ Sequential
  /\ UNCHANGED debug

JumpTo ==
  /\ ~Illegal
  /\ \/ insn.op \in {"jump", "branch"} /\ GoTo(Target(pc, insn))
     \/ insn.op = "branch" /\ GoTo(Plus(pc, 1))
  /\ SameLoops /\ UNCHANGED << csr, debug >>

WriteLoop ==
  /\ insn.op = "hwloop"
  /\ LET set(reg, x) == IF x = None THEN reg ELSE [reg EXCEPT ![insn.k] = x]
     IN  /\ start' = IF insn.start = None THEN start
                     ELSE set(start, Plus(pc, insn.start))
         /\ end' = IF insn.end = None THEN end
                   ELSE set(end, Plus(pc, insn.end))
         /\ again' = IF insn.count = None THEN again
                     ELSE set(again, IF insn.count = 0 THEN 0
                                     ELSE insn.count - 1)

SetLoop == WriteLoop /\ GoTo(Plus(pc, 1)) /\ UNCHANGED << csr, debug >>

(* The core may write the registers of a loop instruction at which it is   *)
(* halted, which is executed again afterwards.                             *)
SetLoopEarly ==
  /\ ~debug /\ ~stepped
  /\ WriteLoop
  /\ Unchanged /\ UNCHANGED << pc, csr, debug, stepped >>

Trap ==
  /\ insn = Ecall \/ Illegal \/ (insn = Ebreak /\ csr.dcsr # "ebreakm")
  /\ IF debug
       THEN /\ insn # Ebreak
            /\ GoTo(DEBUG_EXCEPTION) /\ UNCHANGED csr
       ELSE GoTo(EXCEPTION) /\ csr' = Trapped(csr, pc)
  /\ SameLoops /\ UNCHANGED debug

ReturnFromTrap ==
  /\ insn = Mret /\ ~Illegal
  /\ IF debug THEN GoTo(DEBUG_EXCEPTION) /\ UNCHANGED csr
     ELSE GoTo(csr.mepc) /\ csr' = Restored(csr)
  /\ SameLoops /\ UNCHANGED debug

Interrupt ==
  /\ csr.mie /\ csr.lines # {} /\ ~debug /\ csr.dcsr # "step" /\ ~stepped
  /\ pc' = IRQ /\ csr' = Trapped(csr, pc)
  /\ Unchanged /\ SameLoops /\ UNCHANGED << debug, stepped >>

Halt(cause) ==
  /\ ~debug
  /\ cause = "step" <=> stepped
  /\ cause = "trigger" => pc = csr.trigger
  /\ cause = "ebreak" => insn = Ebreak /\ csr.dcsr = "ebreakm"
  /\ pc' = DEBUG_ROM /\ csr' = Halted(csr, pc, cause)
  /\ debug' = TRUE /\ stepped' = FALSE
  /\ Unchanged /\ SameLoops

(* An ebreak in debug mode goes back to the start of the debug ROM.        *)
Park ==
  /\ debug /\ insn = Ebreak
  /\ GoTo(DEBUG_ROM) /\ SameLoops /\ UNCHANGED << csr, debug >>

Resume ==
  /\ debug /\ insn = Dret
  /\ pc' = csr.dpc
  /\ debug' = FALSE /\ stepped' = FALSE
  /\ Unchanged /\ SameLoops /\ UNCHANGED csr

HartNext ==
  \/ Straightforward \/ WriteCsr \/ JumpTo \/ SetLoop \/ SetLoopEarly
  \/ Trap \/ ReturnFromTrap \/ Interrupt \/ Park \/ Resume
  \/ \E cause \in {"step", "trigger", "ebreak", "haltreq"} : Halt(cause)

HartSpec == HartInit /\ [][HartNext]_hartVars
==============================================================================
