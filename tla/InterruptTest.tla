---------------------------- MODULE InterruptTest ----------------------------
(***************************************************************************)
(* example_tb/core/interrupt/interrupt.c, the interrupt test of the core,  *)
(* run by a hart with the real interrupt controller against the test       *)
(* bench's interrupt generator.  The program counters pc (of main) and h   *)
(* (of the handler, 0 outside it) are line numbers of interrupt.c; ra is   *)
(* the line a called function returns to.                                  *)
(*                                                                         *)
(* One step is one clock.  A statement takes between one and 1 + MaxStall  *)
(* clocks and takes effect in its last one; an interrupt that is requested *)
(* is taken in place of the next statement.  A word of interrupt bits is   *)
(* the set of its bits, Unimplemented standing for the bits the core does  *)
(* not have.  irq_served, which is only printed, is left out.              *)
(***************************************************************************)
EXTENDS IrqGenerator

CONSTANTS Unimplemented, MaxStall, Products

ASSUME TestAssumption ==
  /\ Unimplemented \cap IRQ_MASK = {} /\ Unimplemented # {}
  /\ MaxStall \in Nat /\ Products \in Nat

VARIABLES pc, ra, h, i, products, exit, stalled, csr, c

testVars == << pc, ra, h, i, products, exit, stalled, csr, c >>
vars == << testVars, reg, generatorVars, irq_q >>

IRQ_MODE_STD == 1
IRQ_MODE_RND == 2
IRQ_MODE_SD == 4

STD_IRQ_MASK == Lines
AllBits == Lines \cup Unimplemented

IRQ_ID_PRIORITY ==
  LET Table == [k \in 1 .. 16 |-> 32 - k] \o << 11, 3, 7 >>
      InLines(id) == id \in Lines
  IN SelectSeq(Table, InLines)
IRQ_NUM == Len(IRQ_ID_PRIORITY)

EXIT_SUCCESS == 0
ERR_CODE_TEST_2 == 2
ERR_CODE_TEST_3 == 3
ERR_CODE_TEST_5 == 5
Running == 1

Init ==
  /\ pc = 313 /\ ra = 0 /\ h = 0 /\ i = 1 /\ products = 0 /\ exit = Running
  /\ stalled = 0
  /\ csr = [mie |-> {}, MIE |-> FALSE, MPIE |-> FALSE]
  /\ c = [irq_id |-> 0, irq_pending |-> {}, prev |-> {}, first |-> {},
          ie_mask |-> {}, irq_to_test |-> {}, irq_mode |-> 0,
          mmstatus |-> [MIE |-> FALSE, MPIE |-> FALSE]]
  /\ reg = [mode |-> 0, lines |-> {}]
  /\ GeneratorInit /\ IntInit

(* What a statement may change besides the program counter.                *)
Assign(globals) == c' = globals /\ UNCHANGED << csr, reg >>
Csrw(csrs) == csr' = csrs /\ UNCHANGED << c, reg >>
writew(registers) == reg' = registers /\ UNCHANGED << c, csr >>
NoEffect == UNCHANGED << c, csr, reg >>

Goto(line) == pc' = line /\ UNCHANGED << ra, h, i, products, exit >>
GotoWith(line, index) ==
  pc' = line /\ i' = index /\ UNCHANGED << ra, h, products, exit >>
Line(line, next) == pc = line /\ Goto(next)
Return(code) == exit' = code /\ UNCHANGED << pc, ra, h, i, products >>
HandlerLine(line, next) ==
  h = line /\ h' = next /\ UNCHANGED << pc, ra, i, products, exit >>

Mstatus == [MIE |-> csr.MIE, MPIE |-> csr.MPIE]
WithMstatus(status) == [csr EXCEPT !.MIE = status.MIE, !.MPIE = status.MPIE]

Call(line, function, next) ==
  /\ pc = line /\ pc' = function /\ ra' = next
  /\ NoEffect /\ UNCHANGED << h, i, products, exit >>

(* mstatus is read into the global mmstatus, changed there, written back.  *)
ENABLE == 274
mstatus_enable ==
  \/ Line(274, 275) /\ Assign([c EXCEPT !.mmstatus = Mstatus])
  \/ Line(275, 276) /\ Assign([c EXCEPT !.mmstatus.MIE = TRUE])
  \/ Line(276, ra) /\ Csrw(WithMstatus(c.mmstatus))

DISABLE == 281
mstatus_disable ==
  \/ Line(281, 282) /\ Assign([c EXCEPT !.mmstatus = Mstatus])
  \/ Line(282, 283) /\ Assign([c EXCEPT !.mmstatus.MIE = FALSE])
  \/ Line(283, ra) /\ Csrw(WithMstatus(c.mmstatus))

(* Each line has a handler of its own that runs this code with its number; *)
(* the first assignment is part of the step that takes the interrupt.      *)
served_as_software_defined == c.irq_mode = IRQ_MODE_SD
served_as_random == c.irq_mode = IRQ_MODE_RND

mie_cleared(status) == [status EXCEPT !.MIE = FALSE]
without_mpie(status) == [status EXCEPT !.MPIE = FALSE]

mode_unchanged(mode) == reg
mode_written(mode) == [reg EXCEPT !.mode = mode]

FAST_IRQ_GENERIC ==
  \/ /\ HandlerLine(148, 152)
     /\ Assign([c EXCEPT !.irq_pending =
                   IF served_as_random THEN irq_q ELSE @])
  \/ /\ HandlerLine(152, 153)
     /\ Assign([c EXCEPT !.irq_pending = @ \ {c.irq_id}])
  \/ /\ HandlerLine(153, IF served_as_random THEN 157 ELSE 164)
     /\ writew([reg EXCEPT !.lines = c.irq_pending])
  \/ HandlerLine(157, 158) /\ Assign([c EXCEPT !.irq_mode = IRQ_MODE_STD])
  \/ HandlerLine(158, 159) /\ writew(mode_written(c.irq_mode))
  \/ HandlerLine(159, 160) /\ Assign([c EXCEPT !.irq_mode = IRQ_MODE_RND])
  \/ HandlerLine(160, 168) /\ writew([reg EXCEPT !.mode = c.irq_mode])
  \/ HandlerLine(164, 165) /\ Assign([c EXCEPT !.mmstatus = Mstatus])
  \/ HandlerLine(165, 166) /\ Assign([c EXCEPT !.mmstatus = without_mpie(@)])
  \/ HandlerLine(166, 168) /\ Csrw(WithMstatus(c.mmstatus))

mret ==
  /\ HandlerLine(168, 0)
  /\ Csrw([csr EXCEPT !.MIE = csr.MPIE, !.MPIE = TRUE])

TakeInterrupt ==
  /\ HandlerLine(0, 148)
  /\ c' = [c EXCEPT !.irq_id = irq_id_ctrl_o(csr.mie)]
  /\ csr' = [csr EXCEPT !.MIE = FALSE, !.MPIE = csr.MIE]
  /\ UNCHANGED reg

(* TEST 1: all lines enabled, the lines under the program's control.       *)
TEST_1 ==
  \/ Line(313, 315) /\ Assign([c EXCEPT !.ie_mask = AllBits])
  \/ Line(315, 319) /\ Csrw([csr EXCEPT !.mie = c.ie_mask \cap Lines])
  \/ Line(319, 322) /\ writew([reg EXCEPT !.mode = IRQ_MODE_SD])
  \/ Call(322, DISABLE, 345)

(* What the loops of TESTs 2 and 3 do: sample the pending word, enable     *)
(* interrupts until the word has changed, and compare the line served.     *)
ServeNext(sample, enable, wait, check, next, code) ==
  \/ Line(sample, enable) /\ Assign([c EXCEPT !.prev = c.irq_pending])
  \/ Call(enable, ENABLE, wait)
  \/ Line(wait, IF c.prev = c.irq_pending THEN wait ELSE check) /\ NoEffect
  \/ /\ pc = check /\ NoEffect
     /\ IF IRQ_ID_PRIORITY[i] # c.irq_id THEN Return(code)
        ELSE GotoWith(next, i + 1)

(* TEST 2: all lines at once.                                              *)
TEST_2 ==
  \/ Line(345, 347) /\ Assign([c EXCEPT !.ie_mask = AllBits])
  \/ Line(347, 351) /\ Csrw([csr EXCEPT !.mie = c.ie_mask \cap Lines])
  \/ Line(351, 354) /\ Assign([c EXCEPT !.irq_pending = AllBits])
  \/ Call(354, DISABLE, 357)
  \/ /\ pc = 357 /\ GotoWith(359, 1)
     /\ writew([reg EXCEPT !.lines = c.irq_pending])
  \/ Line(359, IF i <= IRQ_NUM THEN 362 ELSE 396) /\ NoEffect
  \/ ServeNext(362, 365, 368, 371, 359, ERR_CODE_TEST_2)

(* TEST 3: any lines, under any mask.  The words are what 50 draws of a    *)
(* random bit can leave.                                                   *)
TEST_3 ==
  \/ /\ Line(396, 412)
     /\ \E bits \in SUBSET AllBits :
          Assign([c EXCEPT !.irq_id = 0, !.irq_pending = {},
                           !.ie_mask = bits \cap STD_IRQ_MASK])
  \/ Line(412, 424) /\ Csrw([csr EXCEPT !.mie = c.ie_mask])
  \/ /\ Line(424, 441)
     /\ \E bits \in SUBSET AllBits :
          LET word == bits \cap STD_IRQ_MASK IN
          Assign([c EXCEPT !.irq_pending = word, !.first = word,
                           !.irq_to_test = @ \cup (word \cap c.ie_mask)])
  \/ Call(441, DISABLE, 444)
  \/ /\ pc = 444 /\ GotoWith(448, 1)
     /\ writew([reg EXCEPT !.lines = c.irq_pending])
  \/ /\ pc = 448 /\ NoEffect
     /\ IF i > IRQ_NUM THEN Goto(469)
        ELSE IF IRQ_ID_PRIORITY[i] \in c.irq_to_test THEN Goto(451)
        ELSE GotoWith(448, i + 1)
  \/ ServeNext(451, 454, 457, 461, 448, ERR_CODE_TEST_3)
  \/ /\ pc = 469 /\ NoEffect
     /\ IF c.irq_pending # c.first \ c.ie_mask THEN Return(ERR_CODE_TEST_3)
        ELSE Goto(531)

(* One of the products that mat_mult sums up; what it computes is left out *)
(* but for how many it has added.                                          *)
mat_mult ==
  /\ pc = 296 /\ NoEffect
  /\ IF products < Products
     THEN products' = products + 1 /\ UNCHANGED << pc, ra, h, i, exit >>
     ELSE Goto(ra)

(* TEST 5: random words come at random times while mat_mult runs.          *)
TEST_5 ==
  \/ Call(531, DISABLE, 534)
  \/ Line(534, 536) /\ Assign([c EXCEPT !.ie_mask = AllBits])
  \/ Line(536, 544) /\ Csrw([csr EXCEPT !.mie = c.ie_mask \cap Lines])
  \/ Line(544, 545) /\ Assign([c EXCEPT !.irq_mode = IRQ_MODE_RND])
  \/ Line(545, 549) /\ writew([reg EXCEPT !.mode = c.irq_mode])
  \/ Call(549, ENABLE, 551)
  \/ Call(551, 296, 554)
  \/ Call(554, DISABLE, 566)
  \/ /\ pc = 566 /\ NoEffect
     /\ Return(IF products # Products THEN ERR_CODE_TEST_5 ELSE EXIT_SUCCESS)

main == TEST_1 \/ TEST_2 \/ TEST_3 \/ TEST_5

Statement ==
  /\ stalled' = 0
  /\ IF h # 0 THEN FAST_IRQ_GENERIC \/ mret
     ELSE IF irq_req_ctrl_o(csr.mie, csr.MIE) THEN TakeInterrupt
     ELSE main \/ mstatus_enable \/ mstatus_disable \/ mat_mult

Stall ==
  /\ stalled < MaxStall /\ stalled' = stalled + 1
  /\ UNCHANGED << pc, ra, h, i, products, exit, csr, c, reg >>

Clock ==
  /\ exit = Running
  /\ Statement \/ Stall
  /\ GeneratorClock
  /\ IntClock(irq_lines_q)

Ended == exit # Running /\ UNCHANGED vars

Next == Clock \/ Ended

Spec == Init /\ [][Next]_vars
FairSpec == Spec /\ WF_vars(Clock)
-----------------------------------------------------------------------------
(* In TESTs 2 and 3 a handler is entered once for each time main enables   *)
(* interrupts, before main has seen the word change, and only for a line   *)
(* main still counts as pending: a line already served, which takes        *)
(* several clocks to go down through the registers of the test bench and   *)
(* the core, is not served again.                                          *)
ServedOnce ==
  [][h = 0 /\ h' # 0 /\ c.irq_mode = 0
       => c.irq_pending = c.prev /\ c'.irq_id \in c.irq_pending]_vars

(* mmstatus, the one global both main and the handlers work mstatus with,  *)
(* is never used by a handler while main is between reading mstatus into   *)
(* it and writing it back (interrupt.c:164-166, 274-276, 281-283).         *)
MmstatusUnshared ==
  pc \in {275, 276, 282, 283} => h \notin {164, 165, 166}

(* The test ends with EXIT_SUCCESS: every line is served in the order of   *)
(* IRQ_ID_PRIORITY, those masked stay pending, and random interrupts do    *)
(* not keep mat_mult from ending.                                          *)
Finishes == <>(exit = EXIT_SUCCESS)
==============================================================================
