--------------------------- MODULE MCInterruptTest ---------------------------
(***************************************************************************)
(* interrupt.c with four lines: two that random words may use, and two of  *)
(* the three whose order of priority is not that of their numbers.         *)
(***************************************************************************)
EXTENDS InterruptTest

MCLines == {31, 26, 7, 3}
MCUnimplemented == {0}
==============================================================================
