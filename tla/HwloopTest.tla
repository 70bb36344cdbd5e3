----------------------------- MODULE HwloopTest -----------------------------
(***************************************************************************)
(* example_tb/core/hwlp_test: the hardware-loop tests, as programs of      *)
(* module Isa.  Loop counts are cut at Passes; of an instruction is kept   *)
(* whether it may take several cycles.                                     *)
(*                                                                         *)
(* The tests give the length of a body in bytes (hwlp.h:34), that is, the  *)
(* distance from the loop instruction to the last one of the body; the     *)
(* register holds the address after it (corev_hw_loop.rst:32).             *)
(***************************************************************************)
EXTENDS Isa

CONSTANT Passes    \* bound on the count of a loop

ASSUME PassesAssumption == Passes \in Nat \ {0}

Times(n) == IF n < Passes THEN n ELSE Passes

setupi(k, n, bytes) == << Setup(k, Times(n), bytes \div 4 + 1) >>
starti(k, bytes) == << Starti(k, bytes \div 4) >>
endi(k, bytes) == << Endi(k, bytes \div 4 + 1) >>
count(k, n) == << Count(k, Times(n)) >>

(* addi, mul, csrrw mcycle; lw, sw, div; pairs of these.                   *)
addi == << Alu >>
lw == << Load >>
addis(n) == Straight(n)
lws(n) == [i \in 1 .. n |-> Load]

HWLP_TEST0 == setupi(1, 10, 16) \o addis(5)

NestInBody(outer, inner) ==
  setupi(1, outer, 44) \o addis(4) \o setupi(0, inner, 12) \o addis(7)

HWLP_TEST1 == NestInBody(10, 20)
HWLP_TEST2 == NestInBody(100, 200)

HWLP_TEST3 ==
  addis(2) \o setupi(1, 102, 60) \o addis(2) \o lw \o addis(2) \o
  setupi(0, 21, 20) \o addis(2) \o lw \o addis(3) \o lws(2) \o
  addis(2) \o lw \o addis(2) \o lw \o addis(2) \o lw

(* The smallest nested loops: the inner one is set up by the first         *)
(* instruction of the outer one.                                           *)
HWLP_TEST4 ==
  addi \o setupi(1, 0, 24) \o setupi(0, 21, 12) \o
  addis(2) \o lw \o addi \o lw \o addi

HWLP_TEST5 ==
  addis(3) \o starti(1, 16) \o count(1, 12) \o endi(1, 100) \o
  starti(0, 52) \o addi \o count(0, 100) \o endi(0, 76) \o
  addis(5) \o lws(3) \o addi \o lws(13) \o addis(2) \o lw \o addi \o
  setupi(1, 1024, 24) \o setupi(0, 21, 12) \o
  addis(2) \o lw \o addi \o lws(2) \o addis(2) \o lw

HWLP_TEST6 ==
  addi \o setupi(1, 10, 24) \o setupi(0, 20, 12) \o addis(2) \o lws(4) \o addi

(* The tests that are bombed with interrupts.                              *)
HWLP_TEST_INTERRUPT0 ==
  addi \o lw \o addi \o lw \o
  setupi(1, 40, 24) \o setupi(0, 40, 12) \o addis(5) \o lw \o
  setupi(1, 40, 24) \o setupi(0, 40, 12) \o
  lw \o addi \o lw \o addi \o lw \o addi

HWLP_TEST_INTERRUPT1 ==
  addi \o lw \o addi \o lw \o addi \o
  setupi(1, 40, 40) \o setupi(0, 40, 28) \o addis(9) \o lw \o
  setupi(1, 40, 44) \o setupi(0, 40, 32) \o
  lw \o addis(5) \o lw \o addis(2) \o lw \o addi

(* With an illegal instruction in the body (a dret outside debug mode).    *)
HWLP_TEST_INTERRUPT2 ==
  addi \o lw \o addi \o lw \o addi \o
  setupi(1, 10, 28) \o setupi(0, 10, 16) \o
  addis(2) \o << Dret >> \o addis(3) \o lw \o
  setupi(1, 10, 24) \o setupi(0, 10, 12) \o
  lw \o addi \o lw \o addi \o lw \o addi

HWLP_TEST_INTERRUPT3 ==
  addi \o lw \o addi \o lw \o addi \o
  setupi(1, 40, 28) \o setupi(0, 40, 16) \o
  addis(3) \o << Dret >> \o addis(2) \o lw \o
  setupi(1, 40, 24) \o setupi(0, 40, 12) \o
  lw \o addi \o lw \o addi \o lw \o addi

(* With divisions at the ends of the bodies.                               *)
HWLP_TEST_INTERRUPT4 ==
  addi \o lw \o addi \o lw \o addi \o lw \o addi \o
  setupi(1, 40, 40) \o setupi(0, 40, 16) \o
  addis(3) \o lw \o addis(3) \o lw \o addi \o
  setupi(1, 40, 44) \o setupi(0, 40, 20) \o
  addi \o lw \o addi \o lws(2) \o addis(3) \o lws(2) \o addi

main ==
  << Ecall >> \o HWLP_TEST0 \o << Ebreak >> \o HWLP_TEST1 \o
  << Ecall >> \o HWLP_TEST2 \o << Ebreak, Fencei, Ebreak >> \o HWLP_TEST3 \o
  << Ecall, Ecall >> \o HWLP_TEST4 \o << Ecall >> \o HWLP_TEST5 \o
  << Fencei >> \o HWLP_TEST6
==============================================================================
