-------------------------- MODULE MCPrefetchBuffer ---------------------------
EXTENDS PrefetchBuffer

(* TRUE as long as the memory has never made the core wait. *)
VARIABLE ideal

IdealStep == IdealNext /\ ideal' = ideal
OrdinaryStep == Next /\ ideal' = FALSE

MCInit == Init /\ ideal = TRUE
MCNext == IdealStep \/ OrdinaryStep
MCSpec == MCInit /\ [][MCNext]_<< vars, ideal >> /\ Fairness

(* With a memory that never waits, a word can be taken in every cycle but  *)
(* that of a branch, one cycle after the branch for a start: redirections  *)
(* cost no other cycle (docs/source/pipeline.rst:32).                      *)
IdealWordEveryCycle == ideal => WordEveryCycle
==============================================================================
