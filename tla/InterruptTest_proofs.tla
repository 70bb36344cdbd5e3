------------------------ MODULE InterruptTest_proofs ------------------------
(***************************************************************************)
(* The handlers never use mmstatus while main does, and never start before *)
(* main has sampled the pending word, for every set of lines, every delay  *)
(* of the generator and every timing of the statements.  The argument does *)
(* not depend on the generator: whether an interrupt can be taken follows  *)
(* from where main is.                                                     *)
(***************************************************************************)
EXTENDS InterruptTest, TLAPS

(* Where main is: inside one of the two functions, with random interrupts, *)
(* waiting for a line to be served, or elsewhere.                          *)
InEnable == pc \in {274, 275, 276}
InDisable == pc \in {281, 282, 283}

Random ==
  \/ pc \in {545, 549, 551, 296, 554, 566}
  \/ InEnable /\ ra = 551
  \/ InDisable /\ ra = 566

Waiting == pc \in {368, 457}
Open ==
  \/ pc \in {551, 296, 554, 566}
  \/ InDisable /\ ra = 566

Status == [MIE : BOOLEAN, MPIE : BOOLEAN]

Shapes ==
  /\ csr = [mie |-> csr.mie, MIE |-> csr.MIE, MPIE |-> csr.MPIE]
  /\ csr.MIE \in BOOLEAN /\ csr.MPIE \in BOOLEAN
  /\ c = [irq_id |-> c.irq_id, irq_pending |-> c.irq_pending,
          prev |-> c.prev, first |-> c.first, ie_mask |-> c.ie_mask,
          irq_to_test |-> c.irq_to_test, irq_mode |-> c.irq_mode,
          mmstatus |-> c.mmstatus]
  /\ c.mmstatus \in Status

Places ==
  /\ pc \in {313, 315, 319, 322, 345, 347, 351, 354, 357, 359, 362, 365,
             368, 371, 396, 412, 424, 441, 444, 448, 451, 454, 457, 461,
             469, 531, 534, 536, 544, 545, 549, 551, 296, 554, 566,
             274, 275, 276, 281, 282, 283}
  /\ h \in {0, 148, 152, 153, 157, 158, 159, 160, 164, 165, 166, 168}
  /\ InEnable => ra \in {368, 457, 551}
  /\ InDisable => ra \in {345, 357, 444, 534, 566}
  /\ pc = 296 => ra = 554

(* irq_mode is IRQ_MODE_RND in TEST 5 but for the pulse a handler makes.   *)
ModeKnown ==
  IF Random THEN c.irq_mode = IRQ_MODE_RND \/ h \in {158, 159}
  ELSE c.irq_mode = 0

(* Interrupts are off, and no handler runs, except where main waits for    *)
(* one or multiplies matrices.                                             *)
Closed ==
  ~Waiting /\ ~Open =>
    /\ h = 0 /\ ~csr.MIE
    /\ pc = 283 => ~c.mmstatus.MIE

HandlersMasked == h # 0 => ~csr.MIE

(* What a handler leaves in mstatus keeps interrupts off after it returns. *)
OneHandler ==
  Waiting =>
    /\ h \notin {157, 158, 159, 160}
    /\ h = 165 => ~c.mmstatus.MIE
    /\ h = 166 => ~c.mmstatus.MIE /\ ~c.mmstatus.MPIE
    /\ h = 168 => ~csr.MPIE
RandomHandler == Open => h \notin {164, 165, 166}

Sampled ==
  /\ pc \in {365, 454} => c.prev = c.irq_pending
  /\ InEnable /\ ra # 551 => c.prev = c.irq_pending
  /\ Waiting /\ csr.MIE => c.prev = c.irq_pending

IInv ==
  /\ Shapes /\ Places /\ ModeKnown /\ Closed /\ HandlersMasked
  /\ OneHandler /\ RandomHandler /\ Sampled
-----------------------------------------------------------------------------
LEMMA InitIInv == Init => IInv
  BY DEF Init, IInv, Shapes, Places, ModeKnown, Closed, HandlersMasked,
     OneHandler, RandomHandler, Sampled, Status, Random, Waiting, Open,
     InEnable, InDisable, IRQ_MODE_RND

(* Statements of main and its functions, which run when no handler does.   *)
LEMMA Test1Step == ASSUME IInv, h = 0, TEST_1 PROVE IInv'
  BY DEF TEST_1, Line, Goto, Call, Assign, Csrw, writew, NoEffect, DISABLE,
     IInv, Shapes, Places, ModeKnown, Closed, HandlersMasked, OneHandler,
     RandomHandler, Sampled, Status, Random, Waiting, Open, InEnable,
     InDisable, IRQ_MODE_RND

LEMMA Test2Step == ASSUME IInv, h = 0, TEST_2 PROVE IInv'
  BY DEF TEST_2, ServeNext, Line, Goto, GotoWith, Return, Call, Assign, Csrw,
     writew, NoEffect, DISABLE, ENABLE, IInv, Shapes, Places, ModeKnown,
     Closed, HandlersMasked, OneHandler, RandomHandler, Sampled, Status,
     Random, Waiting, Open, InEnable, InDisable, IRQ_MODE_RND

LEMMA Test3Step == ASSUME IInv, h = 0, TEST_3 PROVE IInv'
<1> DEFINE Masks(bits) ==
             Assign([c EXCEPT !.irq_id = 0, !.irq_pending = {},
                              !.ie_mask = bits \cap STD_IRQ_MASK])
           Words(bits) ==
             LET word == bits \cap STD_IRQ_MASK IN
             Assign([c EXCEPT !.irq_pending = word, !.first = word,
                              !.irq_to_test = @ \cup (word \cap c.ie_mask)])
<1>1. CASE Line(396, 412) /\ \E bits \in SUBSET AllBits : Masks(bits)
  <2>1. PICK bits \in SUBSET AllBits : Masks(bits)
    BY <1>1
  <2>2. Shapes' /\ UNCHANGED << csr, c.irq_mode, c.mmstatus >>
    BY <2>1 DEF Assign, IInv, Shapes
  <2>3. pc = 396 /\ pc' = 412 /\ UNCHANGED << ra, h >>
    BY <1>1 DEF Line, Goto
  <2> QED BY <2>2, <2>3 DEF IInv, Places, ModeKnown, Closed, HandlersMasked,
           OneHandler, RandomHandler, Sampled, Random, Waiting, Open,
           InEnable, InDisable, IRQ_MODE_RND
<1>2. CASE Line(412, 424) /\ Csrw([csr EXCEPT !.mie = c.ie_mask])
  <2>1. Shapes' /\ UNCHANGED << c, csr.MIE, csr.MPIE >>
    BY <1>2 DEF Csrw, IInv, Shapes
  <2>2. pc = 412 /\ pc' = 424 /\ UNCHANGED << ra, h >>
    BY <1>2 DEF Line, Goto
  <2> QED BY <2>1, <2>2 DEF IInv, Places, ModeKnown, Closed, HandlersMasked,
           OneHandler, RandomHandler, Sampled, Random, Waiting, Open,
           InEnable, InDisable, IRQ_MODE_RND
<1>3. CASE Line(424, 441) /\ \E bits \in SUBSET AllBits : Words(bits)
  <2>1. PICK bits \in SUBSET AllBits : Words(bits)
    BY <1>3
  <2>2. Shapes' /\ UNCHANGED << csr, c.irq_mode, c.mmstatus >>
    BY <2>1 DEF Assign, IInv, Shapes
  <2>3. pc = 424 /\ pc' = 441 /\ UNCHANGED << ra, h >>
    BY <1>3 DEF Line, Goto
  <2> QED BY <2>2, <2>3 DEF IInv, Places, ModeKnown, Closed, HandlersMasked,
           OneHandler, RandomHandler, Sampled, Random, Waiting, Open,
           InEnable, InDisable, IRQ_MODE_RND
<1>4. CASE Call(441, DISABLE, 444)
  <2>1. Shapes'
    BY <1>4 DEF Call, NoEffect, IInv, Shapes
  <2> QED BY <1>4, <2>1 DEF Call, NoEffect, DISABLE, IInv, Places, ModeKnown,
           Closed, HandlersMasked, OneHandler, RandomHandler, Sampled,
           Random, Waiting, Open, InEnable, InDisable, IRQ_MODE_RND
<1>5. CASE /\ pc = 444 /\ GotoWith(448, 1)
           /\ writew([reg EXCEPT !.lines = c.irq_pending])
  <2>1. Shapes'
    BY <1>5 DEF writew, IInv, Shapes
  <2> QED BY <1>5, <2>1 DEF GotoWith, writew, IInv, Places, ModeKnown,
           Closed, HandlersMasked, OneHandler, RandomHandler, Sampled,
           Random, Waiting, Open, InEnable, InDisable, IRQ_MODE_RND
<1>6. CASE /\ pc = 448 /\ NoEffect
           /\ IF i > IRQ_NUM THEN Goto(469)
              ELSE IF IRQ_ID_PRIORITY[i] \in c.irq_to_test THEN Goto(451)
              ELSE GotoWith(448, i + 1)
  <2>1. Shapes' /\ UNCHANGED << ra, h, csr, c >> /\ pc' \in {448, 451, 469}
    BY <1>6 DEF NoEffect, Goto, GotoWith, IInv, Shapes
  <2> QED BY <1>6, <2>1 DEF IInv, Places, ModeKnown, Closed, HandlersMasked,
           OneHandler, RandomHandler, Sampled, Random, Waiting, Open,
           InEnable, InDisable, IRQ_MODE_RND
<1>7. CASE ServeNext(451, 454, 457, 461, 448, ERR_CODE_TEST_3)
  BY <1>7 DEF ServeNext, Line, Goto, GotoWith, Return, Call, Assign,
     NoEffect, ENABLE, Shapes, Status, IInv, Places, ModeKnown, Closed,
     HandlersMasked, OneHandler, RandomHandler, Sampled, Random, Waiting,
     Open, InEnable, InDisable, IRQ_MODE_RND
<1>8. CASE /\ pc = 469 /\ NoEffect
           /\ IF c.irq_pending # c.first \ c.ie_mask
              THEN Return(ERR_CODE_TEST_3) ELSE Goto(531)
  <2>1. Shapes' /\ UNCHANGED << ra, h, csr, c >> /\ pc' \in {469, 531}
    BY <1>8 DEF NoEffect, Goto, Return, IInv, Shapes
  <2> QED BY <1>8, <2>1 DEF IInv, Places, ModeKnown, Closed, HandlersMasked,
           OneHandler, RandomHandler, Sampled, Random, Waiting, Open,
           InEnable, InDisable, IRQ_MODE_RND
<1> QED BY <1>1, <1>2, <1>3, <1>4, <1>5, <1>6, <1>7, <1>8
         DEF TEST_3

LEMMA Test5Step == ASSUME IInv, h = 0, TEST_5 \/ mat_mult PROVE IInv'
  BY DEF TEST_5, mat_mult, Line, Goto, Return, Call, Assign, Csrw, writew,
     NoEffect, DISABLE, ENABLE, IInv, Shapes, Places, ModeKnown, Closed,
     HandlersMasked, OneHandler, RandomHandler, Sampled, Status, Random,
     Waiting, Open, InEnable, InDisable, IRQ_MODE_RND

LEMMA MstatusStep ==
  ASSUME IInv, h = 0, mstatus_enable \/ mstatus_disable PROVE IInv'
<1>1. CASE Line(274, 275) /\ Assign([c EXCEPT !.mmstatus = Mstatus])
  <2>1. /\ Shapes'
        /\ pc = 274 /\ pc' = 275
        /\ UNCHANGED << ra, h, csr >>
        /\ UNCHANGED << c.prev, c.irq_pending >>
        /\ UNCHANGED c.irq_mode
    BY <1>1 DEF IInv, Shapes, Status, Line, Goto, Assign, Mstatus
  <2> QED BY <2>1
     DEF IInv, Places, ModeKnown, Closed, HandlersMasked,
           OneHandler, RandomHandler, Sampled, Random, Waiting, Open,
           InEnable, InDisable, IRQ_MODE_RND
<1>2. CASE Line(275, 276) /\ Assign([c EXCEPT !.mmstatus.MIE = TRUE])
  <2>1. /\ Shapes'
        /\ pc = 275 /\ pc' = 276
        /\ UNCHANGED << ra, h, csr >>
        /\ UNCHANGED << c.prev, c.irq_pending >>
        /\ UNCHANGED c.irq_mode
    BY <1>2 DEF IInv, Shapes, Status, Line, Goto, Assign
  <2> QED BY <2>1
     DEF IInv, Places, ModeKnown, Closed, HandlersMasked,
           OneHandler, RandomHandler, Sampled, Random, Waiting, Open,
           InEnable, InDisable, IRQ_MODE_RND
<1>3. CASE Line(276, ra) /\ Csrw(WithMstatus(c.mmstatus))
  <2>1. /\ Shapes'
        /\ pc = 276 /\ pc' = ra
        /\ UNCHANGED << ra, h, c >>
    BY <1>3 DEF IInv, Shapes, Status, Line, Goto, Csrw, WithMstatus
  <2> QED BY <2>1
     DEF IInv, Places, ModeKnown, Closed, HandlersMasked,
           OneHandler, RandomHandler, Sampled, Random, Waiting, Open,
           InEnable, InDisable, IRQ_MODE_RND
<1>4. CASE Line(281, 282) /\ Assign([c EXCEPT !.mmstatus = Mstatus])
  <2>1. /\ Shapes'
        /\ pc = 281 /\ pc' = 282
        /\ UNCHANGED << ra, h, csr >>
        /\ UNCHANGED << c.prev, c.irq_pending >>
        /\ UNCHANGED c.irq_mode
    BY <1>4 DEF IInv, Shapes, Status, Line, Goto, Assign, Mstatus
  <2> QED BY <2>1
     DEF IInv, Places, ModeKnown, Closed, HandlersMasked,
           OneHandler, RandomHandler, Sampled, Random, Waiting, Open,
           InEnable, InDisable, IRQ_MODE_RND
<1>5. CASE Line(282, 283) /\ Assign([c EXCEPT !.mmstatus.MIE = FALSE])
  <2>1. /\ Shapes'
        /\ pc = 282 /\ pc' = 283
        /\ UNCHANGED << ra, h, csr >>
        /\ UNCHANGED << c.prev, c.irq_pending >>
        /\ UNCHANGED c.irq_mode
        /\ ~c'.mmstatus.MIE
    BY <1>5 DEF IInv, Shapes, Status, Line, Goto, Assign
  <2> QED BY <2>1
     DEF IInv, Places, ModeKnown, Closed, HandlersMasked,
           OneHandler, RandomHandler, Sampled, Random, Waiting, Open,
           InEnable, InDisable, IRQ_MODE_RND
<1>6. CASE Line(283, ra) /\ Csrw(WithMstatus(c.mmstatus))
  <2>1. /\ Shapes'
        /\ pc = 283 /\ pc' = ra
        /\ UNCHANGED << ra, h, c >>
        /\ csr'.MIE = c.mmstatus.MIE
    BY <1>6 DEF IInv, Shapes, Status, Line, Goto, Csrw, WithMstatus
  <2> QED BY <2>1
     DEF IInv, Places, ModeKnown, Closed, HandlersMasked,
           OneHandler, RandomHandler, Sampled, Random, Waiting, Open,
           InEnable, InDisable, IRQ_MODE_RND
<1> QED BY <1>1, <1>2, <1>3, <1>4, <1>5, <1>6
         DEF mstatus_enable, mstatus_disable

(* Entering, running and leaving a handler.                                *)
LEMMA TakeStep ==
  ASSUME IInv, irq_req_ctrl_o(csr.mie, csr.MIE), TakeInterrupt PROVE IInv'
<1>1. /\ Shapes'
      /\ h = 0 /\ h' = 148 /\ csr.MIE /\ ~csr'.MIE
      /\ UNCHANGED << pc, ra, c.irq_mode, c.prev, c.irq_pending >>
  BY DEF IInv, Shapes, Status, TakeInterrupt, HandlerLine, irq_req_ctrl_o
<1> QED BY <1>1 DEF IInv, Places, ModeKnown, Closed, HandlersMasked,
         OneHandler, RandomHandler, Sampled, Random, Waiting, Open, InEnable,
         InDisable, IRQ_MODE_RND

LEMMA HandlerStep == ASSUME IInv, FAST_IRQ_GENERIC \/ mret PROVE IInv'
<1>1. CASE HandlerLine(148, 152) /\ Assign([c EXCEPT !.irq_pending =
               IF served_as_random THEN irq_q ELSE @])
  BY <1>1 DEF HandlerLine, Assign, IInv, Shapes, Places, ModeKnown, Closed,
     HandlersMasked, OneHandler, RandomHandler, Sampled, Status, Random,
     Waiting, Open, InEnable, InDisable, IRQ_MODE_RND
<1>2. CASE HandlerLine(152, 153)
         /\ Assign([c EXCEPT !.irq_pending = @ \ {c.irq_id}])
  BY <1>2 DEF HandlerLine, Assign, IInv, Shapes, Places, ModeKnown, Closed,
     HandlersMasked, OneHandler, RandomHandler, Sampled, Status, Random,
     Waiting, Open, InEnable, InDisable, IRQ_MODE_RND
<1>3. CASE HandlerLine(153, IF served_as_random THEN 157 ELSE 164)
         /\ writew([reg EXCEPT !.lines = c.irq_pending])
  BY <1>3 DEF HandlerLine, writew, served_as_random, IInv, Shapes, Places,
     ModeKnown, Closed, HandlersMasked, OneHandler, RandomHandler, Sampled,
     Status, Random, Waiting, Open, InEnable, InDisable, IRQ_MODE_RND
<1>4. CASE HandlerLine(157, 158)
         /\ Assign([c EXCEPT !.irq_mode = IRQ_MODE_STD])
  BY <1>4 DEF HandlerLine, Assign, IRQ_MODE_STD, IInv, Shapes, Places,
     ModeKnown, Closed, HandlersMasked, OneHandler, RandomHandler, Sampled,
     Status, Random, Waiting, Open, InEnable, InDisable, IRQ_MODE_RND
<1>5. CASE HandlerLine(158, 159) /\ writew(mode_written(c.irq_mode))
  BY <1>5 DEF HandlerLine, writew, IInv, Shapes, Places, ModeKnown, Closed,
     HandlersMasked, OneHandler, RandomHandler, Sampled, Status, Random,
     Waiting, Open, InEnable, InDisable, IRQ_MODE_RND
<1>6. CASE HandlerLine(159, 160)
         /\ Assign([c EXCEPT !.irq_mode = IRQ_MODE_RND])
  BY <1>6 DEF HandlerLine, Assign, IInv, Shapes, Places, ModeKnown, Closed,
     HandlersMasked, OneHandler, RandomHandler, Sampled, Status, Random,
     Waiting, Open, InEnable, InDisable, IRQ_MODE_RND
<1>7. CASE HandlerLine(160, 168) /\ writew([reg EXCEPT !.mode = c.irq_mode])
  BY <1>7 DEF HandlerLine, writew, IInv, Shapes, Places, ModeKnown, Closed,
     HandlersMasked, OneHandler, RandomHandler, Sampled, Status, Random,
     Waiting, Open, InEnable, InDisable, IRQ_MODE_RND
<1>8. CASE HandlerLine(164, 165) /\ Assign([c EXCEPT !.mmstatus = Mstatus])
  <2>1. /\ Shapes'
        /\ h = 164 /\ h' = 165
        /\ UNCHANGED << pc, ra, csr >>
        /\ UNCHANGED << c.prev, c.irq_pending >>
        /\ UNCHANGED c.irq_mode
        /\ c'.mmstatus.MIE = csr.MIE
    BY <1>8 DEF IInv, Shapes, Status, HandlerLine, Assign, Mstatus
  <2> QED BY <2>1
     DEF IInv, Places, ModeKnown, Closed, HandlersMasked,
           OneHandler, RandomHandler, Sampled, Random, Waiting, Open,
           InEnable, InDisable, IRQ_MODE_RND
<1>9. CASE HandlerLine(165, 166)
         /\ Assign([c EXCEPT !.mmstatus = without_mpie(@)])
  <2>1. /\ Shapes'
        /\ h = 165 /\ h' = 166
        /\ UNCHANGED << pc, ra, csr >>
        /\ UNCHANGED << c.prev, c.irq_pending >>
        /\ UNCHANGED c.irq_mode
        /\ c'.mmstatus.MIE = c.mmstatus.MIE /\ ~c'.mmstatus.MPIE
    BY <1>9 DEF IInv, Shapes, Status, HandlerLine, Assign, without_mpie
  <2> QED BY <2>1
     DEF IInv, Places, ModeKnown, Closed, HandlersMasked,
           OneHandler, RandomHandler, Sampled, Random, Waiting, Open,
           InEnable, InDisable, IRQ_MODE_RND
<1>10. CASE HandlerLine(166, 168) /\ Csrw(WithMstatus(c.mmstatus))
  <2>1. /\ Shapes'
        /\ h = 166 /\ h' = 168
        /\ UNCHANGED << pc, ra, c >>
        /\ csr'.MIE = c.mmstatus.MIE /\ csr'.MPIE = c.mmstatus.MPIE
    BY <1>10 DEF IInv, Shapes, Status, HandlerLine, Csrw, WithMstatus
  <2> QED BY <2>1
     DEF IInv, Places, ModeKnown, Closed, HandlersMasked,
           OneHandler, RandomHandler, Sampled, Random, Waiting, Open,
           InEnable, InDisable, IRQ_MODE_RND
<1>11. CASE mret
  <2>1. /\ Shapes'
        /\ h = 168 /\ h' = 0
        /\ UNCHANGED << pc, ra, c >>
        /\ csr'.MIE = csr.MPIE
    BY <1>11 DEF mret, HandlerLine, Csrw, IInv, Shapes
  <2> QED BY <2>1
     DEF IInv, Places, ModeKnown, Closed, HandlersMasked,
           OneHandler, RandomHandler, Sampled, Random, Waiting, Open,
           InEnable, InDisable, IRQ_MODE_RND
<1> QED BY <1>1, <1>2, <1>3, <1>4, <1>5, <1>6, <1>7, <1>8, <1>9, <1>10,
       <1>11 DEF FAST_IRQ_GENERIC

LEMMA StayStep ==
  ASSUME IInv, UNCHANGED << pc, ra, h, csr, c >> PROVE IInv'
  BY DEF IInv, Shapes, Places, ModeKnown, Closed, HandlersMasked, OneHandler,
     RandomHandler, Sampled, Random, Waiting, Open, InEnable, InDisable

LEMMA NextIInv == ASSUME IInv, [Next]_vars PROVE IInv'
<1>1. CASE Statement
  <2>1. CASE h # 0
    BY <1>1, <2>1, HandlerStep DEF Statement
  <2>2. CASE h = 0 /\ irq_req_ctrl_o(csr.mie, csr.MIE)
    BY <1>1, <2>2, TakeStep DEF Statement
  <2>3. CASE h = 0 /\ ~irq_req_ctrl_o(csr.mie, csr.MIE)
    BY <1>1, <2>3, Test1Step, Test2Step, Test3Step, Test5Step, MstatusStep
       DEF Statement, main
  <2> QED BY <2>1, <2>2, <2>3
<1>2. CASE Stall
  BY <1>2, StayStep DEF Stall
<1>3. CASE Ended \/ UNCHANGED vars
  BY <1>3, StayStep DEF Ended, vars, testVars
<1> QED BY <1>1, <1>2, <1>3 DEF Next, Clock

(* The strengthened invariant holds in every state.                        *)
THEOREM Invariance == Spec => []IInv
  BY InitIInv, NextIInv, PTL DEF Spec

(* No handler uses mmstatus while main has it between reading mstatus into *)
(* it and writing it back (interrupt.c:164-166, 274-276, 281-283).         *)
THEOREM MmstatusSafe == Spec => []MmstatusUnshared
<1>1. IInv => MmstatusUnshared
  BY DEF IInv, Places, Closed, RandomHandler, Waiting, Open, InEnable,
     InDisable, MmstatusUnshared
<1> QED BY <1>1, Invariance, PTL

(* Only the core starts a handler, and only for a request.                 *)
LEMMA StartsForRequest ==
  ASSUME Statement, h = 0, h' # 0 PROVE irq_req_ctrl_o(csr.mie, csr.MIE)
<1>1. TEST_1 => h' = h
  BY DEF TEST_1, Line, Goto, Call
<1>2. TEST_2 => h' = h
  BY DEF TEST_2, ServeNext, Line, Goto, GotoWith, Return, Call
<1>3. TEST_3 => h' = h
  BY DEF TEST_3, ServeNext, Line, Goto, GotoWith, Return, Call
<1>4. TEST_5 \/ mat_mult => h' = h
  BY DEF TEST_5, mat_mult, Line, Goto, Return, Call
<1>5. mstatus_enable \/ mstatus_disable => h' = h
  BY DEF mstatus_enable, mstatus_disable, Line, Goto
<1> QED BY <1>1, <1>2, <1>3, <1>4, <1>5 DEF Statement, main

(* In TESTs 2 and 3 a handler starts only while the word main compares     *)
(* with is the current one: main has noticed every line served before, so  *)
(* each time it enables interrupts one handler runs (interrupt.c:362-371,  *)
(* 451-461).                                                               *)
ServedWhenSampled ==
  h = 0 /\ h' # 0 /\ c.irq_mode = 0 => c.irq_pending = c.prev

(* Every start of a handler is one of those.                               *)
THEOREM OneServedPerEnable == Spec => [][ServedWhenSampled]_vars
<1>1. ASSUME IInv, h = 0, irq_req_ctrl_o(csr.mie, csr.MIE), c.irq_mode = 0
      PROVE c.irq_pending = c.prev
  BY <1>1 DEF IInv, ModeKnown, Closed, Sampled, Random, Waiting, Open,
     InEnable, InDisable, IRQ_MODE_RND, irq_req_ctrl_o
<1>2. ASSUME IInv, [Next]_vars PROVE [ServedWhenSampled]_vars
  <2>1. CASE Statement
    BY <1>1, <1>2, <2>1, StartsForRequest DEF ServedWhenSampled
  <2>2. CASE h' = h
    BY <2>2 DEF ServedWhenSampled
  <2> QED BY <1>2, <2>1, <2>2
       DEF Next, Clock, Stall, Ended, vars,
           testVars
<1> QED BY <1>2, Invariance, PTL DEF Spec
=============================================================================
