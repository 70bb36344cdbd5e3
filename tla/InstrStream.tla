----------------------------- MODULE InstrStream -----------------------------
(***************************************************************************)
(* What the fetch stage promises to the decode stage: the instructions of  *)
(* the program in program order, each with its address, cut at the right   *)
(* halfwords.  pc is the address of the next instruction and then the      *)
(* target of a hardware-loop jump that follows it, or None.                *)
(***************************************************************************)
EXTENDS Naturals

CONSTANTS
  HALVES,    \* size of the address space, in halfwords
  None

VARIABLES
  long,      \* the halfwords that start a 32-bit instruction
  pc, then,
  issued     \* address and halfwords of the instruction of the last cycle

streamVars == << long, pc, then, issued >>

Half == 0 .. HALVES - 1
After(h, n) == (h + n) % HALVES

Instr(a) == IF a \in long THEN << a, After(a, 1) >> ELSE << a >>
Size(a) == IF a \in long THEN 2 ELSE 1

StreamInit ==
  /\ pc \in Half
  /\ then = None
  /\ issued = None

Issue ==
  /\ issued' = << pc, Instr(pc) >>
  /\ pc' = IF then = None THEN After(pc, Size(pc)) ELSE then
  /\ then' = None

Wait == issued' = None /\ UNCHANGED << pc, then >>

Branch(target) ==
  /\ issued' = None
  /\ pc' = target /\ then' = None

(* The jump comes while the last instruction of the loop body is still to  *)
(* be issued, or in the cycle in which it is.                              *)
LoopJump(target) ==
  \/ issued' = None /\ then' = target /\ UNCHANGED pc
  \/ issued' = << pc, Instr(pc) >> /\ pc' = target /\ then' = None

StreamNext ==
  /\ UNCHANGED long
  /\ \/ Issue
     \/ Wait
     \/ \E target \in Half : Branch(target) \/ LoopJump(target)

StreamSpec == StreamInit /\ [][StreamNext]_streamVars
==============================================================================
