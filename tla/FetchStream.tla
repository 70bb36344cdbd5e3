----------------------------- MODULE FetchStream -----------------------------
(***************************************************************************)
(* What the prefetch buffer promises to the fetch stage: instruction words *)
(* come in program order.  pc is the address of the next word to be handed *)
(* over and npc of the one after it.  There are two kinds of redirection.  *)
(* A branch forgets both.  A hardware-loop jump is given while the word at *)
(* pc is the last one of the loop body: that word is still handed over,    *)
(* and only then the loop starts again.                                    *)
(*                                                                         *)
(* The variables fetched and redirect show, for the last clock cycle, the  *)
(* word handed over and the redirection requested.                         *)
(***************************************************************************)
EXTENDS Naturals

CONSTANTS
  WORDS,    \* size of the address space, in words
  None      \* no word, no redirection

VARIABLES pc, npc, fetched, redirect

streamVars == << pc, npc, fetched, redirect >>

Addr == 0 .. WORDS - 1

Successor(a) == (a + 1) % WORDS

StreamInit ==
  /\ pc \in Addr /\ npc = Successor(pc)
  /\ fetched = None
  /\ redirect = None

Deliver ==
  /\ fetched' = pc
  /\ pc' = npc /\ npc' = Successor(npc)
  /\ redirect' = None

Wait ==
  /\ fetched' = None
  /\ redirect' = None
  /\ UNCHANGED << pc, npc >>

Branch(target) ==
  /\ redirect' = << "branch", target >>
  /\ fetched' = None
  /\ pc' = target /\ npc' = Successor(target)

LoopJump(target) ==
  /\ redirect' = << "hwlp_jump", target >>
  /\ \/ fetched' = None /\ UNCHANGED pc /\ npc' = target
     \/ fetched' = pc /\ pc' = target /\ npc' = Successor(target)

StreamNext ==
  \/ Deliver
  \/ Wait
  \/ \E target \in Addr : Branch(target) \/ LoopJump(target)

StreamSpec == StreamInit /\ [][StreamNext]_streamVars
==============================================================================
