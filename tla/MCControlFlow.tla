---------------------------- MODULE MCControlFlow ----------------------------
EXTENDS ControlFlow, HwloopTest

CONSTANT Bombs

Scenario(code, interrupts, halts, chosen, at) ==
  [code |-> << EnableLines({Line}), EnableIrqs >> \o code, irqs |-> interrupts, debugs |-> halts,
   choices |-> chosen, triggers |-> at]

(* The tests of hwlp_test.c, and those that are bombed with interrupts.    *)
Tests == << Scenario(main, 0, 0, 0, {}) >>

Bombed ==
  << HWLP_TEST_INTERRUPT0, HWLP_TEST_INTERRUPT1, HWLP_TEST_INTERRUPT2,
     HWLP_TEST_INTERRUPT3, HWLP_TEST_INTERRUPT4 >>
Bombarded == [i \in DOMAIN Bombed |-> Scenario(Bombed[i], Bombs, 0, 0, {})]

(* Every kind of instruction, and a loop, halted, stepped and interrupted  *)
(* anywhere.                                                               *)
Mixed ==
  << Load, BranchOver(2), Jump(2), Ebreak, Ecall, Wfi, MaskLine, Load, Dret >>
Looped == << Load, Setup(0, 2, 4), Load, Alu, Alu, BranchOver(2), Ebreak >>
Waiting == << Load, Wfi, Ebreak >>

Debugged ==
  << Scenario(Mixed, 1, 0, 0, {}), Scenario(Mixed, 0, 1, 2, {5, 8}),
     Scenario(Looped, 1, 1, 1, {6, 8}), Scenario(Waiting, 1, 1, 2, {4}) >>

(* A body whose last instruction accesses mstatus.                         *)
CsrAtEnd == << Scenario(<< Setup(0, 2, 4), Alu, Alu, EnableIrqs >>, 0, 0, 0, {}) >>

MCScenarios == Tests \o Bombarded \o Debugged
==============================================================================
