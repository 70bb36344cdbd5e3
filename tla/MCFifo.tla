------------------------------- MODULE MCFifo --------------------------------
(* Instances of Fifo for TLC; the constants are given in the .cfg files. *)
EXTENDS Fifo
==============================================================================
