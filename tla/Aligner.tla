------------------------------- MODULE Aligner -------------------------------
(***************************************************************************)
(* rtl/cv32e40p_aligner.sv: cuts the stream of 32-bit words into 16- and   *)
(* 32-bit instructions.  Registers and signals keep the names of the       *)
(* source; one step is one rising clock edge.                              *)
(*                                                                         *)
(* Addresses count halfwords, modulo HALVES.  A halfword is represented by *)
(* its address and a word by the pair of its low and high halfword.  long  *)
(* is the set of the halfwords whose two low bits are 11: an instruction   *)
(* that starts with one of them has 32 bits, any other has 16.             *)
(***************************************************************************)
EXTENDS Naturals

CONSTANT HALVES

VARIABLES
  long,
  state,              \* which halfword of the next word starts an instruction
  r_instr_h,          \* high halfword of the word seen last
  pc_q,               \* address of the next instruction (pc_o)
  aligner_ready_q,    \* the word seen last was taken from the fetch unit
  hwlp_addr_q,        \* target of a hardware-loop jump that waits ...
  hwlp_update_pc_q    \* ... if this is set

alignerVars ==
  << state, r_instr_h, pc_q, aligner_ready_q, hwlp_addr_q, hwlp_update_pc_q >>

Half == 0 .. HALVES - 1

AlignerInit ==
  /\ state = "ALIGNED32"
  /\ r_instr_h = 0
  /\ pc_q = 0
  /\ aligner_ready_q = FALSE
  /\ hwlp_addr_q = 0
  /\ hwlp_update_pc_q = FALSE

(* Faulty variant, not part of the model: the address does not wrap.       *)
PlusWithoutWrap(h, n) == h + n

Plus(h, n) == IF h + n < HALVES THEN h + n ELSE h + n - HALVES
pc_plus2 == Plus(pc_q, 1)
pc_plus4 == Plus(pc_q, 2)

(***************************************************************************)
(* Combinational outputs.  in is the record of this cycle's inputs:        *)
(* fetch_valid, rdata, if_valid, branch, branch_addr, hwlp_update_pc and   *)
(* hwlp_addr.                                                              *)
(***************************************************************************)
Default(in) ==
  [pc_n |-> pc_q, next_state |-> state, aligner_ready |-> TRUE,
   instr |-> in.rdata, instr_valid |-> in.fetch_valid,
   update_state |-> in.fetch_valid /\ in.if_valid]

(* Faulty variant: a word with two instructions yields the second only.    *)
Aligned32DropsShort(in) ==
  IF in.rdata[1] \in long
    THEN [Default(in) EXCEPT
            !.next_state = "ALIGNED32",
            !.pc_n = CASE in.hwlp_update_pc -> in.hwlp_addr
                       [] ~in.hwlp_update_pc /\ hwlp_update_pc_q -> hwlp_addr_q
                       [] OTHER -> pc_plus4]
    ELSE [Default(in) EXCEPT
            !.next_state = "MISALIGNED32", !.pc_n = pc_plus2,
            !.instr_valid = FALSE]

(* The word starts at an instruction.  Only here a loop jump may wait.     *)
Aligned32(in) ==
  IF in.rdata[1] \in long
    THEN [Default(in) EXCEPT
            !.next_state = "ALIGNED32",
            !.pc_n = CASE in.hwlp_update_pc -> in.hwlp_addr
                       [] ~in.hwlp_update_pc /\ hwlp_update_pc_q -> hwlp_addr_q
                       [] OTHER -> pc_plus4]
    ELSE [Default(in) EXCEPT
            !.next_state = "MISALIGNED32", !.pc_n = pc_plus2]

(* Faulty variants: the word offered is taken although its turn is next;   *)
(* the state moves on only if it is taken.                                 *)
Misaligned32TakesWord(in) ==
  IF r_instr_h \in long
    THEN [Default(in) EXCEPT
            !.next_state = "MISALIGNED32", !.pc_n = pc_plus4,
            !.instr = << r_instr_h, in.rdata[1] >>]
    ELSE [Default(in) EXCEPT
            !.next_state = "MISALIGNED16", !.pc_n = pc_plus2,
            !.instr = << r_instr_h, in.rdata[2] >>,
            !.instr_valid = TRUE, !.update_state = in.if_valid]

Misaligned32WaitsForWord(in) ==
  IF r_instr_h \in long
    THEN [Default(in) EXCEPT
            !.next_state = "MISALIGNED32", !.pc_n = pc_plus4,
            !.instr = << r_instr_h, in.rdata[1] >>]
    ELSE [Default(in) EXCEPT
            !.next_state = "MISALIGNED16", !.pc_n = pc_plus2,
            !.instr = << r_instr_h, in.rdata[2] >>,
            !.instr_valid = ~in.fetch_valid, !.aligner_ready = ~in.fetch_valid,
            !.update_state = in.if_valid /\ ~in.fetch_valid]

(* An instruction starts in the high halfword kept from the word before.   *)
(* If it ends there too, the word offered now is not taken.                *)
Misaligned32(in) ==
  IF r_instr_h \in long
    THEN [Default(in) EXCEPT
            !.next_state = "MISALIGNED32", !.pc_n = pc_plus4,
            !.instr = << r_instr_h, in.rdata[1] >>]
    ELSE [Default(in) EXCEPT
            !.next_state = "MISALIGNED16", !.pc_n = pc_plus2,
            !.instr = << r_instr_h, in.rdata[2] >>,
            !.instr_valid = TRUE, !.aligner_ready = ~in.fetch_valid,
            !.update_state = in.if_valid]

(* The word offered is the one that was not taken before.                  *)
Misaligned16(in) ==
  LET held == ~aligner_ready_q \/ in.fetch_valid
      default == [Default(in) EXCEPT !.instr_valid = held,
                                     !.update_state = held /\ in.if_valid]
  IN IF in.rdata[1] \in long
       THEN [default EXCEPT !.next_state = "ALIGNED32", !.pc_n = pc_plus4]
       ELSE [default EXCEPT !.next_state = "MISALIGNED32", !.pc_n = pc_plus2]

(* A jump led to the high halfword of the word.                            *)
BranchMisaligned(in) ==
  IF in.rdata[2] \in long
    THEN [Default(in) EXCEPT
            !.next_state = "MISALIGNED32", !.instr_valid = FALSE]
    ELSE [Default(in) EXCEPT
            !.next_state = "ALIGNED32", !.pc_n = pc_plus2,
            !.instr = << in.rdata[2], in.rdata[2] >>]

Straight(in) ==
  CASE state = "ALIGNED32" -> Aligned32(in)
    [] state = "MISALIGNED32" -> Misaligned32(in)
    [] state = "MISALIGNED16" -> Misaligned16(in)
    [] state = "BRANCH_MISALIGNED" -> BranchMisaligned(in)

(* A branch overrides where to go on, whatever the state. *)
Outputs(in) ==
  IF in.branch
    THEN [Straight(in) EXCEPT
            !.update_state = TRUE, !.pc_n = in.branch_addr,
            !.next_state = IF in.branch_addr % 2 = 1 THEN "BRANCH_MISALIGNED"
                                                     ELSE "ALIGNED32"]
    ELSE Straight(in)

(***************************************************************************)
(* Registers at the clock edge.                                            *)
(***************************************************************************)
(* Faulty variant: a loop jump that was carried out is not forgotten.      *)
UpdateKeepsLoopJump(in) ==
  LET out == Outputs(in) IN
  /\ out.update_state
  /\ pc_q' = out.pc_n
  /\ state' = out.next_state
  /\ r_instr_h' = in.rdata[2]
  /\ aligner_ready_q' = out.aligner_ready
  /\ UNCHANGED << hwlp_addr_q, hwlp_update_pc_q >>

Update(in) ==
  LET out == Outputs(in) IN
  /\ out.update_state
  /\ pc_q' = out.pc_n
  /\ state' = out.next_state
  /\ r_instr_h' = in.rdata[2]
  /\ aligner_ready_q' = out.aligner_ready
  /\ hwlp_update_pc_q' = FALSE
  /\ UNCHANGED hwlp_addr_q

SaveLoopJump(in) ==
  /\ ~Outputs(in).update_state
  /\ in.hwlp_update_pc
  /\ hwlp_addr_q' = in.hwlp_addr
  /\ hwlp_update_pc_q' = TRUE
  /\ UNCHANGED << pc_q, state, r_instr_h, aligner_ready_q >>

Stall(in) ==
  /\ ~Outputs(in).update_state
  /\ ~in.hwlp_update_pc
  /\ UNCHANGED alignerVars

AlignerClock(in) ==
  /\ UNCHANGED long
  /\ Update(in) \/ SaveLoopJump(in) \/ Stall(in)
==============================================================================
