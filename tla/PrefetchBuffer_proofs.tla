------------------------ MODULE PrefetchBuffer_proofs ------------------------
EXTENDS PrefetchBuffer, SequenceTheorems, TLAPS

(***************************************************************************)
(* The inductive invariant.  Beside the properties themselves it says how  *)
(* far the redirection that is in progress has got:                        *)
(*   - while the last word of a loop body is still on the bus, nothing is  *)
(*     in the FIFO and nothing has been taken since the jump;               *)
(*   - while a redirection waits for its request to be accepted, no word is *)
(*     under way but that last one.                                        *)
(***************************************************************************)
LoopEndPending ==
  hwlp_flush_after_resp =>
    /\ hwlp_flush_cnt_delayed_q < cnt_q
    /\ flush_cnt_q = 0 /\ status_cnt_q = 0 /\ since_jump = 0

RedirectWaits ==
  state_q = "BRANCH_WAIT" =>
    \/ status_cnt_q = 0 /\ cnt_q = Unwanted
    \/ status_cnt_q + (cnt_q - Unwanted) = 1 /\ since_jump = 0

AfterTake ==
  (in_decode /\ since_jump >= 2) =>
    /\ cnt_q > 0 \/ status_cnt_q > 0
    /\ flush_cnt_q = 0 /\ ~hwlp_flush_after_resp
    /\ state_q = "IDLE"

IInv ==
  /\ TypeOK
  /\ CountsOutstanding
  /\ WantedWordsFit
  /\ LoopEndPending
  /\ RedirectWaits
  /\ AfterTake
------------------------------------------------------------------------------
AnyInputs == Inputs(BOOLEAN, BOOLEAN, BOOLEAN, Addr, BOOLEAN)

up(in) == prefetch_controller_i!count_up(Wired(in))

(* Addresses stay addresses. *)
LEMMA AddressTypes ==
  ASSUME TypeOK, NEW in \in AnyInputs
  PROVE  /\ trans_addr(in) \in Addr
         /\ instr_addr_o(in) \in Addr
  <1>1. in.target \in Addr /\ in.branch \in BOOLEAN
    BY DEF AnyInputs, Inputs
  <1>2. prefetch_controller_i!NextAddr(trans_addr_q) \in Addr
    BY WordsAssumption DEF TypeOK, Addr, prefetch_controller_i!NextAddr
  <1>3. trans_addr(in) \in Addr
    BY <1>1, <1>2
    DEF TypeOK, trans_addr, Wired, prefetch_controller_i!trans_addr_o
  <1> QED
    BY <1>3 DEF TypeOK, instr_addr_o, instruction_obi_i!obi_addr_o

(* The length of a list of transactions with the one held in a register.   *)
LEMMA LengthWithRegister ==
  ASSUME NEW g \in Seq(Addr), NEW a \in Addr, NEW s
  PROVE  LET all == g \o IF s = "REGISTERED" THEN << a >> ELSE << >>
         IN /\ s = "REGISTERED" => Len(all) = Len(g) + 1
            /\ s # "REGISTERED" => Len(all) = Len(g)
  <1>1. CASE s = "REGISTERED"
    <2>1. << a >> \in Seq(Addr) /\ Len(<< a >>) = 1
      OBVIOUS
    <2> QED BY <1>1, <2>1
  <1>2. CASE s # "REGISTERED"
    BY <1>2
  <1> QED BY <1>1, <1>2

(* The address phase at the clock edge. *)
LEMMA AddressPhaseStep ==
  ASSUME TypeOK, NEW in \in AnyInputs, Clock(in)
  PROVE  /\ obi_state_q \in {"TRANSPARENT", "REGISTERED"}
         /\ obi_state_q' \in {"TRANSPARENT", "REGISTERED"}
         /\ obi_addr_q' \in Addr
         /\ obi_state_q' = "REGISTERED" <=> instr_req_o(in) /\ ~in.gnt
         /\ instr_req_o(in) <=> obi_state_q = "REGISTERED" \/ trans_valid(in)
         /\ up(in) <=> trans_valid(in) /\ obi_state_q = "TRANSPARENT"
  <1>1. in.gnt \in BOOLEAN
    BY DEF AnyInputs, Inputs
  <1>2. up(in) <=> trans_valid(in) /\ obi_state_q = "TRANSPARENT"
    BY DEF up, trans_valid, Wired, prefetch_controller_i!count_up,
           instruction_obi_i!trans_ready_o
  <1> QED
    BY <1>1, <1>2, AddressTypes
    DEF TypeOK, Clock, UnitClock, instr_req_o,
        instruction_obi_i!ObiClock, instruction_obi_i!obi_req_o,
        instruction_obi_i!Register, instruction_obi_i!Release,
        instruction_obi_i!Keep, instruction_obi_i!obiVars

(* What a cycle does to the bus: an accepted request adds one transaction, *)
(* an answer removes one.                                                  *)
LEMMA BusStep ==
  ASSUME TypeOK, NEW in \in AnyInputs, Clock(in)
  PROVE  /\ granted' \in Seq(Addr)
         /\ waiting' \in Addr \cup {None}
         /\ Len(Outstanding) \in Nat
         /\ in.rvalid => Len(Outstanding) > 0
         /\ up(in) /\ in.rvalid => Len(Outstanding') = Len(Outstanding)
         /\ up(in) /\ ~in.rvalid => Len(Outstanding') = Len(Outstanding) + 1
         /\ ~up(in) /\ in.rvalid => Len(Outstanding') = Len(Outstanding) - 1
         /\ ~up(in) /\ ~in.rvalid => Len(Outstanding') = Len(Outstanding)
  <1> DEFINE ans == IF in.rvalid THEN Tail(granted) ELSE granted
             req == IF instr_req_o(in) /\ in.gnt
                      THEN << instr_addr_o(in) >> ELSE << >>
  <1>1. in.gnt \in BOOLEAN /\ in.rvalid \in BOOLEAN
    BY DEF AnyInputs, Inputs
  <1>2. /\ granted \in Seq(Addr) /\ Len(granted) \in Nat
        /\ in.rvalid => granted # << >> /\ Len(granted) > 0
    BY DEF TypeOK, Clock, Allowed
  <1>3. /\ ans \in Seq(Addr) /\ Len(ans) \in Nat
        /\ in.rvalid => Len(ans) = Len(granted) - 1
        /\ ~in.rvalid => Len(ans) = Len(granted)
    BY <1>1, <1>2
  <1>4. /\ req \in Seq(Addr)
        /\ instr_req_o(in) /\ in.gnt => Len(req) = 1
        /\ ~(instr_req_o(in) /\ in.gnt) => Len(req) = 0
    BY AddressTypes
  <1>5. granted' = ans \o req
    BY DEF Clock, Memory
  <1> HIDE DEF ans, req
  <1>6. /\ granted' \in Seq(Addr)
        /\ Len(granted') = Len(ans) + Len(req)
    BY <1>3, <1>4, <1>5
  <1>7. /\ obi_state_q = "REGISTERED" => Len(Outstanding) = Len(granted) + 1
        /\ obi_state_q # "REGISTERED" => Len(Outstanding) = Len(granted)
    BY LengthWithRegister DEF TypeOK, Outstanding
  <1>8. /\ obi_state_q' = "REGISTERED" => Len(Outstanding') = Len(granted') + 1
        /\ obi_state_q' # "REGISTERED" => Len(Outstanding') = Len(granted')
    BY <1>6, AddressPhaseStep, LengthWithRegister DEF Outstanding
  <1>9. /\ instr_req_o(in) => Len(Outstanding') = Len(ans) + 1
        /\ ~instr_req_o(in) => Len(Outstanding') = Len(ans)
    <2>1. /\ obi_state_q' = "REGISTERED" <=> instr_req_o(in) /\ ~in.gnt
          /\ obi_state_q' \in {"TRANSPARENT", "REGISTERED"}
      BY AddressPhaseStep
    <2>2. Len(ans) \in Nat /\ Len(granted') = Len(ans) + Len(req)
      BY <1>3, <1>6
    <2>3. CASE instr_req_o(in) /\ in.gnt
      <3>1. Len(Outstanding') = Len(granted') /\ Len(req) = 1
        BY <1>1, <1>4, <1>8, <2>1, <2>3
      <3> QED BY <2>2, <2>3, <3>1
    <2>4. CASE instr_req_o(in) /\ ~in.gnt
      <3>1. Len(Outstanding') = Len(granted') + 1 /\ Len(req) = 0
        BY <1>1, <1>4, <1>8, <2>1, <2>4
      <3> QED BY <2>2, <2>4, <3>1
    <2>5. CASE ~instr_req_o(in)
      <3>1. Len(Outstanding') = Len(granted') /\ Len(req) = 0
        BY <1>1, <1>4, <1>8, <2>1, <2>5
      <3> QED BY <2>2, <2>5, <3>1
    <2> QED BY <1>1, <2>3, <2>4, <2>5
  <1>10. waiting' \in Addr \cup {None}
    BY AddressTypes DEF Clock, Memory
  <1> QED
    BY <1>2, <1>3, <1>6, <1>7, <1>9, <1>10, AddressPhaseStep

(* The inputs are Boolean. *)
LEMMA InputTypes ==
  ASSUME NEW in \in AnyInputs
  PROVE  /\ in.req \in BOOLEAN /\ in.branch \in BOOLEAN
         /\ in.hwlp_jump \in BOOLEAN /\ in.fetch_ready \in BOOLEAN
         /\ in.gnt \in BOOLEAN /\ in.rvalid \in BOOLEAN
         /\ in.target \in Addr
  BY DEF AnyInputs, Inputs

LEMMA InputSubsets ==
  /\ \A in \in SequentialInputs :
        in \in AnyInputs /\ ~in.branch /\ ~in.hwlp_jump
  /\ \A in \in BranchInputs :
        in \in AnyInputs /\ in.branch /\ ~in.hwlp_jump /\ in.req
        /\ ~in.fetch_ready
  /\ \A in \in HwlpJumpInputs :
        in \in AnyInputs /\ ~in.branch /\ in.hwlp_jump /\ in.req
  <1>1. 0 \in Addr
    BY WordsAssumption DEF Addr
  <1> QED
    BY <1>1 DEF SequentialInputs, BranchInputs, HwlpJumpInputs, AnyInputs, Inputs

(* The transaction counter follows the bus. *)
LEMMA CountStep ==
  ASSUME TypeOK, NEW in \in AnyInputs, Clock(in)
  PROVE  /\ up(in) /\ in.rvalid => cnt_q' = cnt_q
         /\ up(in) /\ ~in.rvalid => cnt_q' = cnt_q + 1
         /\ ~up(in) /\ in.rvalid => cnt_q' = cnt_q - 1
         /\ ~up(in) /\ ~in.rvalid => cnt_q' = cnt_q
  BY InputTypes
  DEF TypeOK, Clock, UnitClock, up, Wired, prefetch_controller_i!CtrlClock,
      prefetch_controller_i!Count

(* The flush counters in a cycle without redirection, in a branch and in a *)
(* hardware-loop jump.                                                     *)
LEMMA FlushStep ==
  ASSUME TypeOK, NEW in \in AnyInputs, Clock(in)
  PROVE  /\ in.branch =>
              /\ flush_cnt_q' = IF in.rvalid /\ cnt_q > 0 THEN cnt_q - 1
                                                          ELSE cnt_q
              /\ hwlp_flush_after_resp' = FALSE
              /\ hwlp_flush_cnt_delayed_q' = 0
         /\ ~in.branch /\ in.hwlp_jump /\ PULP_XPULP =>
              \/ /\ status_cnt_q > 0 \/ in.rvalid
                 /\ flush_cnt_q' = IF in.rvalid /\ cnt_q > 0 THEN cnt_q - 1
                                                             ELSE cnt_q
                 /\ \/ hwlp_flush_after_resp' = FALSE
                    \/ /\ ~in.rvalid
                       /\ UNCHANGED << hwlp_flush_after_resp,
                                       hwlp_flush_cnt_delayed_q >>
              \/ /\ status_cnt_q = 0 /\ ~in.rvalid
                 /\ flush_cnt_q' = flush_cnt_q
                 /\ hwlp_flush_after_resp' = TRUE
                 /\ hwlp_flush_cnt_delayed_q' = cnt_q - 1
         /\ ~in.branch /\ ~in.hwlp_jump /\ hwlp_flush_after_resp /\ in.rvalid =>
              /\ flush_cnt_q' = hwlp_flush_cnt_delayed_q
              /\ hwlp_flush_after_resp' = FALSE
              /\ hwlp_flush_cnt_delayed_q' = 0
         /\ ~in.branch /\ ~in.hwlp_jump /\ ~(hwlp_flush_after_resp /\ in.rvalid) =>
              /\ flush_cnt_q' = IF in.rvalid /\ flush_cnt_q > 0
                                  THEN flush_cnt_q - 1 ELSE flush_cnt_q
              /\ UNCHANGED << hwlp_flush_after_resp, hwlp_flush_cnt_delayed_q >>
  <1> USE InputTypes
      DEF TypeOK, Clock, UnitClock, Wired, prefetch_controller_i!CtrlClock,
      prefetch_controller_i!FlushCount, prefetch_controller_i!DelayedFlush,
      prefetch_controller_i!hwlp_flush_resp,
      prefetch_controller_i!hwlp_wait_resp_flush,
      prefetch_controller_i!hwlp_flush_resp_delayed
  <1>1. CASE in.branch
    BY <1>1
  <1>2. CASE ~in.branch /\ ~in.hwlp_jump
    BY <1>2
  <1>3. CASE ~in.branch /\ in.hwlp_jump
    BY <1>3
  <1> QED BY <1>1, <1>2, <1>3

(* The number of words in the FIFO.                                        *)
LEMMA FifoStep ==
  ASSUME TypeOK, NEW in \in AnyInputs, Clock(in)
  PROVE  /\ status_cnt_q' \in 0 .. DEPTH
         /\ in.branch => status_cnt_q' = 0
         /\ ~in.branch /\ in.hwlp_jump /\ PULP_XPULP /\ status_cnt_q > 0 =>
              status_cnt_q' = IF in.fetch_ready THEN 0 ELSE 1
         /\ ~in.branch /\ status_cnt_q = 0 =>
              status_cnt_q' = IF in.rvalid /\ ~in.fetch_ready /\ flush_cnt_q = 0
                                THEN 1 ELSE 0
         /\ ~in.branch /\ ~in.hwlp_jump /\ status_cnt_q > 0 /\ in.fetch_ready =>
              status_cnt_q' = IF in.rvalid /\ flush_cnt_q = 0 /\ status_cnt_q < DEPTH
                                THEN status_cnt_q ELSE status_cnt_q - 1
         /\ ~in.branch /\ ~in.hwlp_jump /\ status_cnt_q > 0 /\ ~in.fetch_ready =>
              status_cnt_q' = IF in.rvalid /\ flush_cnt_q = 0 /\ status_cnt_q < DEPTH
                                THEN status_cnt_q + 1 ELSE status_cnt_q
  <1> USE InputTypes, DepthAssumption
      DEF TypeOK, Clock, UnitClock, Wired, fifo_i!FifoClock, fifo_i!Flush,
      fifo_i!FlushButFirst, fifo_i!Transfer, fifo_i!full_o, fifo_i!empty_o,
      prefetch_controller_i!fifo_flush_o,
      prefetch_controller_i!fifo_flush_but_first_o,
      prefetch_controller_i!fifo_push_o, prefetch_controller_i!fifo_pop_o
  <1>1. CASE in.branch
    BY <1>1
  <1>2. CASE ~in.branch /\ ~in.hwlp_jump
    BY <1>2
  <1>3. CASE ~in.branch /\ in.hwlp_jump
    BY <1>3
  <1> QED BY <1>1, <1>2, <1>3

(* The storage of the FIFO and its pointers.                               *)
LEMMA FifoTypes ==
  ASSUME TypeOK, NEW in \in AnyInputs, Clock(in)
  PROVE  /\ mem_q' \in [0 .. DEPTH - 1 -> Addr]
         /\ read_pointer_q' \in 0 .. DEPTH - 1
         /\ write_pointer_q' \in 0 .. DEPTH - 1
  <1>1. (IF in.rvalid THEN Head(granted) ELSE 0) \in Addr
    BY WordsAssumption, InputTypes DEF TypeOK, Addr, Clock, Allowed
  <1>2. mem_q' \in [0 .. DEPTH - 1 -> Addr]
    BY <1>1 DEF TypeOK, Clock, UnitClock, fifo_i!FifoClock, fifo_i!Store
  <1>3. /\ read_pointer_q' \in 0 .. DEPTH - 1
        /\ write_pointer_q' \in 0 .. DEPTH - 1
    BY DepthAssumption
    DEF TypeOK, Clock, UnitClock, fifo_i!FifoClock, fifo_i!Flush,
        fifo_i!FlushButFirst, fifo_i!Transfer, fifo_i!NextPointer,
        fifo_i!PointerPlusOne
  <1> QED BY <1>2, <1>3

(* When a request is accepted, and what a redirection does to the state.   *)
LEMMA RequestStep ==
  ASSUME TypeOK, NEW in \in AnyInputs, Clock(in)
  PROVE  /\ up(in) => in.req
         /\ up(in) /\ (in.branch \/ in.hwlp_jump) => cnt_q < DEPTH
         /\ up(in) /\ ~in.branch /\ ~in.hwlp_jump => status_cnt_q + cnt_q < DEPTH
         /\ /\ in.req /\ ~in.branch /\ ~in.hwlp_jump /\ status_cnt_q + cnt_q < DEPTH
            /\ obi_state_q = "TRANSPARENT" /\ (cnt_q = 0 \/ in.rvalid)
            => up(in)
         /\ state_q' \in {"IDLE", "BRANCH_WAIT"}
         /\ state_q' = "BRANCH_WAIT" =>
              /\ ~up(in)
              /\ in.branch \/ in.hwlp_jump \/ state_q = "BRANCH_WAIT"
         /\ trans_addr_q' \in Addr
  <1> USE InputTypes, DepthAssumption
      DEF TypeOK, Clock, UnitClock, Wired, up, prefetch_controller_i!count_up,
      prefetch_controller_i!trans_valid_o, prefetch_controller_i!fifo_cnt_masked,
      prefetch_controller_i!Redirect, instruction_obi_i!trans_ready_o
  <1>1. trans_addr_q' \in Addr
    BY AddressTypes
    DEF trans_addr, prefetch_controller_i!CtrlClock, prefetch_controller_i!Address
  <1>2. /\ state_q' \in {"IDLE", "BRANCH_WAIT"}
        /\ state_q' = "BRANCH_WAIT" =>
              /\ ~up(in)
              /\ in.branch \/ in.hwlp_jump \/ state_q = "BRANCH_WAIT"
    BY DEF prefetch_controller_i!CtrlClock, prefetch_controller_i!State
  <1>3. /\ up(in) => in.req
        /\ up(in) /\ (in.branch \/ in.hwlp_jump) => cnt_q < DEPTH
        /\ up(in) /\ ~in.branch /\ ~in.hwlp_jump => status_cnt_q + cnt_q < DEPTH
    OBVIOUS
  <1>4. ASSUME in.req, ~in.branch, ~in.hwlp_jump, status_cnt_q + cnt_q < DEPTH,
               obi_state_q = "TRANSPARENT", cnt_q = 0 \/ in.rvalid
        PROVE  up(in)
    BY <1>4
  <1> QED BY <1>1, <1>2, <1>3, <1>4

(* A word is taken only if it is offered.                                  *)
LEMMA TakeStep ==
  ASSUME TypeOK, NEW in \in AnyInputs, Clock(in)
  PROVE  /\ in.fetch_ready =>
              /\ in.req /\ ~in.branch /\ flush_cnt_q = 0
              /\ status_cnt_q > 0 \/ in.rvalid
         /\ fetched' \in Addr \cup {None}
         /\ fetched' # None => in.fetch_ready
  <1>1. in.fetch_ready =>
              /\ in.req /\ ~in.branch /\ flush_cnt_q = 0
              /\ status_cnt_q > 0 \/ in.rvalid
    BY InputTypes
    DEF TypeOK, Clock, Allowed, fetch_valid_o, Wired,
        prefetch_controller_i!fetch_valid_o
  <1>2. in.fetch_ready => fetch_rdata_o(in) \in Addr
    BY <1>1, DepthAssumption
    DEF TypeOK, Clock, Allowed, fetch_rdata_o, fifo_i!empty_o, fifo_i!data_o
  <1> QED
    BY <1>1, <1>2, NoneAssumption, InputTypes DEF Clock, FetchStage
------------------------------------------------------------------------------
(* The counter still counts the bus, and does not leave its range.         *)
LEMMA CountInvariant ==
  ASSUME IInv, NEW in \in AnyInputs, Clock(in)
  PROVE  /\ cnt_q' \in 0 .. DEPTH
         /\ CountsOutstanding'
         /\ in.rvalid => cnt_q > 0
         /\ obi_state_q = "REGISTERED" => cnt_q > 0
         /\ obi_state_q = "REGISTERED" /\ in.rvalid => cnt_q > 1
         /\ cnt_q \in 0 .. DEPTH /\ status_cnt_q \in 0 .. DEPTH
  <1>1. TypeOK /\ cnt_q = Len(Outstanding) /\ cnt_q \in 0 .. DEPTH
        /\ status_cnt_q \in 0 .. DEPTH
    BY DEF IInv, TypeOK, CountsOutstanding
  <1>2. in.rvalid => cnt_q > 0
    BY <1>1, BusStep
  <1>3. cnt_q' = Len(Outstanding')
    BY <1>1, BusStep, CountStep, InputTypes
  <1>4. up(in) => cnt_q < DEPTH
    BY <1>1, RequestStep, DepthAssumption, InputTypes
  <1>5. cnt_q' \in 0 .. DEPTH
    BY <1>1, <1>2, <1>4, CountStep, InputTypes, DepthAssumption
  <1>6. ASSUME obi_state_q = "REGISTERED"
        PROVE  cnt_q > 0 /\ (in.rvalid => cnt_q > 1)
    <2>1. Len(Outstanding) = Len(granted) + 1 /\ Len(granted) \in Nat
      BY <1>1, <1>6, LengthWithRegister DEF TypeOK, Outstanding
    <2>2. in.rvalid => Len(granted) > 0
      BY <1>1 DEF TypeOK, Clock, Allowed
    <2> QED BY <1>1, <2>1, <2>2
  <1> QED
    BY <1>1, <1>2, <1>3, <1>5, <1>6 DEF CountsOutstanding

(* The types that do not depend on the kind of the cycle.                  *)
LEMMA TypeStep ==
  ASSUME IInv, NEW in \in AnyInputs, Clock(in),
         flush_cnt_q' \in 0 .. DEPTH,
         hwlp_flush_after_resp' \in BOOLEAN,
         hwlp_flush_cnt_delayed_q' \in 0 .. DEPTH,
         redirect' \in {None} \cup ({"branch", "hwlp_jump"} \X Addr),
         in_decode' \in BOOLEAN, since_jump' \in 0 .. MIN_LOOP_BODY
  PROVE  TypeOK'
  <1>1. TypeOK
    BY DEF IInv
  <1>2. cnt_q' \in 0 .. DEPTH
    BY CountInvariant
  <1>3. /\ state_q' \in {"IDLE", "BRANCH_WAIT"}
        /\ trans_addr_q' \in Addr
    BY <1>1, RequestStep
  <1>4. /\ status_cnt_q' \in 0 .. DEPTH
        /\ mem_q' \in [0 .. DEPTH - 1 -> Addr]
        /\ read_pointer_q' \in 0 .. DEPTH - 1
        /\ write_pointer_q' \in 0 .. DEPTH - 1
    BY <1>1, FifoStep, FifoTypes
  <1>5. /\ obi_state_q' \in {"TRANSPARENT", "REGISTERED"}
        /\ obi_addr_q' \in Addr
        /\ granted' \in Seq(Addr)
        /\ waiting' \in Addr \cup {None}
    BY <1>1, AddressPhaseStep, BusStep
  <1>6. fetched' \in Addr \cup {None}
    BY <1>1, TakeStep
  <1> QED
    BY <1>2, <1>3, <1>4, <1>5, <1>6 DEF TypeOK

(* A cycle without redirection. *)
LEMMA SequentialStep ==
  ASSUME IInv, NEW in \in SequentialInputs, SequentialCycle(in)
  PROVE  IInv'
  <1>1. /\ in \in AnyInputs /\ Clock(in)
        /\ ~in.branch /\ ~in.hwlp_jump
    BY InputSubsets DEF SequentialCycle
  <1>2. /\ TypeOK /\ WantedWordsFit /\ LoopEndPending
        /\ RedirectWaits /\ AfterTake
    BY DEF IInv
  <1>3. /\ redirect' = None
        /\ in_decode' = (in_decode \/ in.fetch_ready)
        /\ since_jump' = IF in.fetch_ready /\ since_jump < MIN_LOOP_BODY
                           THEN since_jump + 1 ELSE since_jump
    BY DEF SequentialCycle, Taken
  <1>4. /\ cnt_q' \in 0 .. DEPTH
        /\ CountsOutstanding'
        /\ in.rvalid => cnt_q > 0
        /\ obi_state_q = "REGISTERED" => cnt_q > 0
        /\ obi_state_q = "REGISTERED" /\ in.rvalid => cnt_q > 1
        /\ up(in) /\ in.rvalid => cnt_q' = cnt_q
        /\ up(in) /\ ~in.rvalid => cnt_q' = cnt_q + 1
        /\ ~up(in) /\ in.rvalid => cnt_q' = cnt_q - 1
        /\ ~up(in) /\ ~in.rvalid => cnt_q' = cnt_q
    BY <1>1, <1>2, CountInvariant, CountStep
  <1>5. /\ in.fetch_ready => in.req /\ flush_cnt_q = 0
                             /\ (status_cnt_q > 0 \/ in.rvalid)
        /\ fetched' # None => in.fetch_ready
    BY <1>1, <1>2, TakeStep
  <1>6. /\ up(in) => status_cnt_q + cnt_q < DEPTH
        /\ /\ in.req /\ status_cnt_q + cnt_q < DEPTH
           /\ obi_state_q = "TRANSPARENT" /\ (cnt_q = 0 \/ in.rvalid)
           => up(in)
        /\ state_q' \in {"IDLE", "BRANCH_WAIT"}
        /\ state_q' = "BRANCH_WAIT" => ~up(in) /\ state_q = "BRANCH_WAIT"
    BY <1>1, <1>2, RequestStep, InputTypes
  <1>7. /\ status_cnt_q = 0 =>
             status_cnt_q' = IF in.rvalid /\ ~in.fetch_ready /\ flush_cnt_q = 0
                               THEN 1 ELSE 0
        /\ status_cnt_q > 0 /\ in.fetch_ready =>
             status_cnt_q' = IF in.rvalid /\ flush_cnt_q = 0 /\ status_cnt_q < DEPTH
                               THEN status_cnt_q ELSE status_cnt_q - 1
        /\ status_cnt_q > 0 /\ ~in.fetch_ready =>
             status_cnt_q' = IF in.rvalid /\ flush_cnt_q = 0 /\ status_cnt_q < DEPTH
                               THEN status_cnt_q + 1 ELSE status_cnt_q
    BY <1>1, <1>2, FifoStep, InputTypes
  <1>8. /\ hwlp_flush_after_resp /\ in.rvalid =>
             /\ flush_cnt_q' = hwlp_flush_cnt_delayed_q
             /\ hwlp_flush_after_resp' = FALSE
             /\ hwlp_flush_cnt_delayed_q' = 0
        /\ ~(hwlp_flush_after_resp /\ in.rvalid) =>
             /\ flush_cnt_q' = IF in.rvalid /\ flush_cnt_q > 0
                                 THEN flush_cnt_q - 1 ELSE flush_cnt_q
             /\ UNCHANGED << hwlp_flush_after_resp, hwlp_flush_cnt_delayed_q >>
    BY <1>1, <1>2, FlushStep
  <1> USE InputTypes, DepthAssumption, MinLoopBodyAssumption
  <1>9. WantedWordsFit' /\ LoopEndPending'
    BY <1>1, <1>2, <1>3, <1>4, <1>5, <1>6, <1>7, <1>8
    DEF TypeOK, WantedWordsFit, LoopEndPending, Unwanted
  <1>10. RedirectWaits'
    BY <1>1, <1>2, <1>3, <1>4, <1>5, <1>6, <1>7, <1>8
    DEF TypeOK, WantedWordsFit, LoopEndPending, RedirectWaits, Unwanted
  <1>11. AfterTake'
    BY <1>1, <1>2, <1>3, <1>4, <1>5, <1>6, <1>7, <1>8
    DEF TypeOK, WantedWordsFit, LoopEndPending, RedirectWaits, Unwanted, AfterTake
  <1>12. TypeOK'
    <2>1. /\ flush_cnt_q' \in 0 .. DEPTH
          /\ hwlp_flush_cnt_delayed_q' \in 0 .. DEPTH
          /\ hwlp_flush_after_resp' \in BOOLEAN
      <3>1. /\ flush_cnt_q \in 0 .. DEPTH
            /\ hwlp_flush_cnt_delayed_q \in 0 .. DEPTH
            /\ hwlp_flush_after_resp \in BOOLEAN
        BY <1>2 DEF TypeOK
      <3>2. CASE hwlp_flush_after_resp /\ in.rvalid
        <4>1. /\ flush_cnt_q' = hwlp_flush_cnt_delayed_q
              /\ hwlp_flush_after_resp' = FALSE
              /\ hwlp_flush_cnt_delayed_q' = 0
          BY <1>8, <3>2
        <4>2. hwlp_flush_after_resp' \in BOOLEAN
          BY <4>1
        <4>3. flush_cnt_q' \in 0 .. DEPTH /\ hwlp_flush_cnt_delayed_q' \in 0 .. DEPTH
          BY <3>1, <4>1
        <4> QED BY <4>2, <4>3
      <3>3. CASE ~(hwlp_flush_after_resp /\ in.rvalid)
        <4>1. /\ flush_cnt_q' = IF in.rvalid /\ flush_cnt_q > 0
                                  THEN flush_cnt_q - 1 ELSE flush_cnt_q
              /\ hwlp_flush_cnt_delayed_q' = hwlp_flush_cnt_delayed_q
              /\ hwlp_flush_after_resp' = hwlp_flush_after_resp
          BY <1>8, <3>3
        <4>2. flush_cnt_q' \in 0 .. DEPTH
          BY <3>1, <4>1
        <4> QED BY <3>1, <4>1, <4>2
      <3> QED BY <3>2, <3>3
    <2>2. since_jump' \in 0 .. MIN_LOOP_BODY
      BY <1>1, <1>2, <1>3 DEF TypeOK
    <2>3. in_decode' \in BOOLEAN
      BY <1>3
    <2> QED BY <1>1, <1>3, <2>1, <2>2, <2>3, TypeStep
  <1> QED
    BY <1>4, <1>9, <1>10, <1>11, <1>12 DEF IInv

(* A branch. *)
LEMMA BranchStep ==
  ASSUME IInv, NEW in \in BranchInputs, BranchCycle(in)
  PROVE  IInv'
  <1>1. /\ in \in AnyInputs /\ Clock(in)
        /\ in.branch /\ ~in.hwlp_jump /\ in.req /\ ~in.fetch_ready
    BY InputSubsets DEF BranchCycle
  <1>2. TypeOK
    BY DEF IInv
  <1>3. /\ redirect' = << "branch", in.target >>
        /\ in_decode' = FALSE
        /\ since_jump' = MIN_LOOP_BODY
    BY DEF BranchCycle
  <1>4. /\ cnt_q \in 0 .. DEPTH /\ cnt_q' \in 0 .. DEPTH
        /\ CountsOutstanding'
        /\ in.rvalid => cnt_q > 0
        /\ up(in) /\ in.rvalid => cnt_q' = cnt_q
        /\ up(in) /\ ~in.rvalid => cnt_q' = cnt_q + 1
        /\ ~up(in) /\ in.rvalid => cnt_q' = cnt_q - 1
        /\ ~up(in) /\ ~in.rvalid => cnt_q' = cnt_q
    BY <1>1, <1>2, CountInvariant, CountStep
  <1>6. /\ state_q' \in {"IDLE", "BRANCH_WAIT"}
        /\ state_q' = "BRANCH_WAIT" => ~up(in)
    BY <1>1, <1>2, RequestStep
  <1>7. status_cnt_q' = 0
    BY <1>1, <1>2, FifoStep
  <1>8. /\ in.rvalid => flush_cnt_q' = cnt_q - 1
        /\ ~in.rvalid => flush_cnt_q' = cnt_q
        /\ hwlp_flush_after_resp' = FALSE
        /\ hwlp_flush_cnt_delayed_q' = 0
    <2>1. /\ flush_cnt_q' = IF in.rvalid /\ cnt_q > 0 THEN cnt_q - 1
                                                       ELSE cnt_q
          /\ hwlp_flush_after_resp' = FALSE
          /\ hwlp_flush_cnt_delayed_q' = 0
      BY <1>1, <1>2, FlushStep
    <2> QED BY <1>1, <1>4, <2>1, InputTypes
  <1> USE InputTypes, DepthAssumption
  <1>9. WantedWordsFit' /\ LoopEndPending'
    BY <1>1, <1>4, <1>7, <1>8 DEF WantedWordsFit, LoopEndPending, Unwanted
  <1>10. RedirectWaits'
    BY <1>1, <1>4, <1>6, <1>7, <1>8 DEF RedirectWaits, Unwanted
  <1>11. AfterTake'
    BY <1>3 DEF AfterTake
  <1>12. TypeOK'
    <2>1. /\ flush_cnt_q' \in 0 .. DEPTH
          /\ hwlp_flush_cnt_delayed_q' \in 0 .. DEPTH
      BY <1>1, <1>4, <1>8
    <2>2. hwlp_flush_after_resp' \in BOOLEAN
      BY <1>8
    <2>3. /\ redirect' \in {None} \cup ({"branch", "hwlp_jump"} \X Addr)
          /\ since_jump' \in 0 .. MIN_LOOP_BODY
      BY <1>1, <1>3, InputTypes, MinLoopBodyAssumption
    <2>4. in_decode' \in BOOLEAN
      BY <1>3
    <2> QED BY <1>1, <2>1, <2>2, <2>3, <2>4, TypeStep
  <1> QED
    BY <1>4, <1>9, <1>10, <1>11, <1>12 DEF IInv

(* All but one of c transactions are unwanted, and one more may be added.  *)
LEMMA OneWordLeft ==
  ASSUME NEW c \in Int, NEW d, d = c \/ d = c + 1
  PROVE  c - 1 <= d /\ 0 + (d - (c - 1)) <= DEPTH
  <1>1. CASE d = c
    BY <1>1, DepthAssumption
  <1>2. CASE d = c + 1
    BY <1>2, DepthAssumption
  <1> QED BY <1>1, <1>2

(* A hardware-loop jump.  The guard and AfterTake exclude every earlier    *)
(* redirection, so that exactly one wanted word is left.                   *)
LEMMA HwlpJumpStep ==
  ASSUME IInv, NEW in \in HwlpJumpInputs, HwlpJumpCycle(in)
  PROVE  IInv'
  <1>1. /\ in \in AnyInputs /\ Clock(in)
        /\ ~in.branch /\ in.hwlp_jump /\ in.req /\ PULP_XPULP
    BY InputSubsets DEF HwlpJumpCycle
  <1>2. TypeOK /\ WantedWordsFit
    BY DEF IInv
  <1>3. /\ redirect' = << "hwlp_jump", in.target >>
        /\ in_decode' = in.fetch_ready
        /\ in.fetch_ready => since_jump' = 1
        /\ ~in.fetch_ready => since_jump' = 0
    BY MinLoopBodyAssumption DEF HwlpJumpCycle, Taken
  <1>4. /\ cnt_q > 0 \/ status_cnt_q > 0
        /\ flush_cnt_q = 0 /\ hwlp_flush_after_resp = FALSE
        /\ state_q = "IDLE"
    BY <1>2, MinLoopBodyAssumption DEF IInv, AfterTake, HwlpJumpCycle, TypeOK
  <1>5. /\ cnt_q \in 0 .. DEPTH /\ cnt_q' \in 0 .. DEPTH
        /\ status_cnt_q \in 0 .. DEPTH
        /\ CountsOutstanding'
        /\ in.rvalid => cnt_q > 0
        /\ up(in) /\ in.rvalid => cnt_q' = cnt_q
        /\ up(in) /\ ~in.rvalid => cnt_q' = cnt_q + 1
        /\ ~up(in) /\ in.rvalid => cnt_q' = cnt_q - 1
        /\ ~up(in) /\ ~in.rvalid => cnt_q' = cnt_q
    BY <1>1, <1>2, CountInvariant, CountStep
  <1>6. /\ in.fetch_ready => status_cnt_q > 0 \/ in.rvalid
        /\ fetched' # None => in.fetch_ready
    BY <1>1, <1>2, TakeStep
  <1>7. /\ state_q' \in {"IDLE", "BRANCH_WAIT"}
        /\ state_q' = "BRANCH_WAIT" => ~up(in)
    BY <1>1, <1>2, RequestStep
  <1>8. /\ status_cnt_q' \in 0 .. DEPTH
        /\ status_cnt_q > 0 /\ in.fetch_ready => status_cnt_q' = 0
        /\ status_cnt_q > 0 /\ ~in.fetch_ready => status_cnt_q' = 1
        /\ status_cnt_q = 0 /\ in.rvalid /\ ~in.fetch_ready => status_cnt_q' = 1
        /\ status_cnt_q = 0 /\ (in.fetch_ready \/ ~in.rvalid) => status_cnt_q' = 0
    BY <1>1, <1>2, <1>4, FifoStep, InputTypes
  <1>9. \/ /\ status_cnt_q > 0 \/ in.rvalid
           /\ flush_cnt_q' = IF in.rvalid /\ cnt_q > 0 THEN cnt_q - 1
                                                       ELSE cnt_q
           /\ \/ hwlp_flush_after_resp' = FALSE
              \/ /\ ~in.rvalid
                 /\ UNCHANGED << hwlp_flush_after_resp, hwlp_flush_cnt_delayed_q >>
        \/ /\ status_cnt_q = 0 /\ ~in.rvalid
           /\ flush_cnt_q' = flush_cnt_q
           /\ hwlp_flush_after_resp' = TRUE
           /\ hwlp_flush_cnt_delayed_q' = cnt_q - 1
    BY <1>1, <1>2, FlushStep
  <1>10. hwlp_flush_cnt_delayed_q' \in 0 .. DEPTH
    BY <1>1, <1>2, <1>4, <1>5, InputTypes, DepthAssumption
    DEF TypeOK, Clock, UnitClock, prefetch_controller_i!CtrlClock,
        prefetch_controller_i!DelayedFlush, Wired,
        prefetch_controller_i!hwlp_wait_resp_flush,
        prefetch_controller_i!hwlp_flush_resp_delayed
  <1>11. hwlp_flush_after_resp' \in BOOLEAN
    BY <1>4, <1>9
  <1>12. flush_cnt_q' \in 0 .. DEPTH
    BY <1>1, <1>4, <1>5, <1>9, InputTypes, DepthAssumption
  <1>13. WantedWordsFit' /\ LoopEndPending' /\ RedirectWaits'
    <2> USE InputTypes, DepthAssumption
    <2>1. CASE status_cnt_q > 0 \/ in.rvalid
      <3>1. /\ in.rvalid => flush_cnt_q' = cnt_q - 1
            /\ ~in.rvalid => flush_cnt_q' = cnt_q
        BY <1>1, <1>5, <1>9, <2>1
      <3>2. ~hwlp_flush_after_resp'
        BY <1>1, <1>4, <1>9, <2>1
      <3> QED
        BY <1>1, <1>3, <1>4, <1>5, <1>6, <1>7, <1>8, <2>1, <3>1, <3>2
        DEF WantedWordsFit, LoopEndPending, RedirectWaits, Unwanted
    <2>2. CASE status_cnt_q = 0 /\ ~in.rvalid
      <3>1. /\ flush_cnt_q' = 0
            /\ hwlp_flush_cnt_delayed_q' = cnt_q - 1
            /\ hwlp_flush_after_resp'
        BY <1>1, <1>4, <1>9, <2>2
      <3>2. ~in.fetch_ready /\ since_jump' = 0 /\ status_cnt_q' = 0 /\ cnt_q > 0
        BY <1>1, <1>3, <1>4, <1>5, <1>6, <1>8, <2>2
      <3>3. Unwanted' = cnt_q - 1
        BY <3>1 DEF Unwanted
      <3>4. /\ up(in) => cnt_q' = cnt_q + 1
            /\ ~up(in) => cnt_q' = cnt_q
        BY <1>5, <2>2
      <3>5. WantedWordsFit'
        <4>1. /\ cnt_q \in Int /\ status_cnt_q' = 0
              /\ Unwanted' = cnt_q - 1
              /\ cnt_q' = cnt_q \/ cnt_q' = cnt_q + 1
          BY <1>5, <3>2, <3>3, <3>4
        <4> QED
          BY <4>1, OneWordLeft DEF WantedWordsFit
      <3>6. LoopEndPending'
        BY <1>5, <3>1, <3>2, <3>4 DEF LoopEndPending
      <3>7. RedirectWaits'
        BY <1>5, <1>7, <3>2, <3>3, <3>4 DEF RedirectWaits
      <3> QED BY <3>5, <3>6, <3>7
    <2> QED BY <1>5, <2>1, <2>2
  <1>14. AfterTake'
    <2>1. ~(since_jump' >= 2)
      BY <1>1, <1>3, InputTypes
    <2> QED BY <2>1 DEF AfterTake
  <1>15. TypeOK'
    <2>1. /\ redirect' \in {None} \cup ({"branch", "hwlp_jump"} \X Addr)
          /\ since_jump' \in 0 .. MIN_LOOP_BODY
      BY <1>1, <1>3, InputTypes, MinLoopBodyAssumption
    <2>2. in_decode' \in BOOLEAN
      BY <1>1, <1>3, InputTypes
    <2> QED BY <1>1, <1>10, <1>11, <1>12, <2>1, <2>2, TypeStep
  <1> QED
    BY <1>5, <1>13, <1>14, <1>15 DEF IInv
------------------------------------------------------------------------------
LEMMA InitInvariant == Init => IInv
  <1> SUFFICES ASSUME Init
               PROVE  IInv
    OBVIOUS
  <1>1. 0 \in Addr /\ 0 \in 0 .. DEPTH /\ 0 \in 0 .. DEPTH - 1
    BY WordsAssumption, DepthAssumption DEF Addr
  <1>2. hwlp_flush_after_resp = FALSE /\ status_cnt_q = 0 /\ cnt_q = 0
        /\ flush_cnt_q = 0 /\ state_q = "IDLE"
    BY DEF Init, prefetch_controller_i!CtrlInit, fifo_i!FifoInit
  <1>3. TypeOK
    <2>1. hwlp_flush_after_resp \in BOOLEAN
      BY <1>2
    <2>2. << >> \in Seq(Addr) /\ MIN_LOOP_BODY \in 0 .. MIN_LOOP_BODY
      BY MinLoopBodyAssumption
    <2> QED
      BY <1>1, <2>1, <2>2
      DEF TypeOK, Init, prefetch_controller_i!CtrlInit, fifo_i!FifoInit,
          instruction_obi_i!ObiInit
  <1>4. CountsOutstanding
    BY <1>2 DEF CountsOutstanding, Outstanding, Init, instruction_obi_i!ObiInit
  <1>5. in_decode = FALSE
    BY DEF Init
  <1>6. WantedWordsFit
    BY <1>2, DepthAssumption DEF WantedWordsFit, Unwanted
  <1> QED
    BY <1>2, <1>3, <1>4, <1>5, <1>6
    DEF IInv, LoopEndPending, RedirectWaits, AfterTake

LEMMA NextInvariant == IInv /\ [Next]_vars => IInv'
  <1> SUFFICES ASSUME IInv, [Next]_vars
               PROVE  IInv'
    OBVIOUS
  <1>1. CASE \E in \in SequentialInputs : SequentialCycle(in)
    BY <1>1, SequentialStep
  <1>2. CASE \E in \in BranchInputs : BranchCycle(in)
    BY <1>2, BranchStep
  <1>3. CASE \E in \in HwlpJumpInputs : HwlpJumpCycle(in)
    BY <1>3, HwlpJumpStep
  <1>4. CASE UNCHANGED vars
    BY <1>4
    DEF vars, ctrlRegs, fifoRegs, obiRegs, envVars, IInv, TypeOK,
        CountsOutstanding, Outstanding, WantedWordsFit, Unwanted,
        LoopEndPending, RedirectWaits, AfterTake
  <1> QED
    BY <1>1, <1>2, <1>3, <1>4 DEF Next

THEOREM Invariant == Spec => []IInv
  <1>1. Init => IInv
    BY InitInvariant
  <1>2. IInv /\ [Next]_vars => IInv'
    BY NextInvariant
  <1> QED
    BY <1>1, <1>2, PTL DEF Spec

(* Every register of the fetch unit keeps its type; the counters never     *)
(* leave the range 0..DEPTH of their width.                                *)
THEOREM TypeCorrect == Spec => []TypeOK
  <1>1. IInv => TypeOK
    BY DEF IInv
  <1> QED BY <1>1, Invariant, PTL

(* The transaction counter of the controller is the number of requests the *)
(* bus has accepted and not answered.                                      *)
THEOREM CounterIsExact == Spec => []CountsOutstanding
  <1>1. IInv => CountsOutstanding
    BY DEF IInv
  <1> QED BY <1>1, Invariant, PTL

(* No wanted instruction word ever finds the FIFO full.                    *)
THEOREM NoWordDropped == Spec => []WantedWordsFit
  <1>1. IInv => WantedWordsFit
    BY DEF IInv
  <1> QED BY <1>1, Invariant, PTL

(* A hardware-loop jump never meets an earlier redirection in progress,    *)
(* and the last word of the loop body has been requested by then.          *)
THEOREM LoopJumpIsSafe == Spec => []LoopEndRequested
  <1>1. IInv => LoopEndRequested
    BY MinLoopBodyAssumption DEF IInv, AfterTake, LoopEndRequested
  <1> QED BY <1>1, Invariant, PTL
------------------------------------------------------------------------------
(* A request that waits on the bus is the one in the adapter's register.   *)
AddressHeld ==
  waiting # None => obi_state_q = "REGISTERED" /\ waiting = obi_addr_q

LEMMA AddressHeldStep ==
  ASSUME TypeOK, NEW in \in AnyInputs, Clock(in)
  PROVE  AddressHeld'
  <1>1. CASE instr_req_o(in) /\ ~in.gnt
    <2>1. waiting' = instr_addr_o(in) /\ obi_state_q' = "REGISTERED"
      BY <1>1, AddressPhaseStep DEF Clock, Memory
    <2>2. obi_addr_q' = instr_addr_o(in)
      BY <1>1, InputTypes
      DEF TypeOK, Clock, UnitClock, instr_req_o, instr_addr_o,
          instruction_obi_i!ObiClock, instruction_obi_i!obi_req_o,
          instruction_obi_i!obi_addr_o, instruction_obi_i!Register,
          instruction_obi_i!Release, instruction_obi_i!Keep,
          instruction_obi_i!obiVars
    <2> QED BY <2>1, <2>2 DEF AddressHeld
  <1>2. CASE ~(instr_req_o(in) /\ ~in.gnt)
    BY <1>2 DEF Clock, Memory, AddressHeld
  <1> QED BY <1>1, <1>2

(* What a cycle does to a request that waits. *)
LEMMA WaitingRequestStep ==
  ASSUME TypeOK, AddressHeld, NEW in \in AnyInputs, Clock(in), waiting # None
  PROVE  \/ waiting' = waiting
         \/ granted' # << >> /\ granted'[Len(granted')] = waiting
  <1>1. instr_req_o(in) /\ instr_addr_o(in) = waiting
    BY DEF AddressHeld, instr_req_o, instr_addr_o, instruction_obi_i!obi_req_o,
           instruction_obi_i!obi_addr_o
  <1>2. CASE ~in.gnt
    BY <1>1, <1>2 DEF Clock, Memory
  <1>3. CASE in.gnt
    <2> DEFINE ans == IF in.rvalid THEN Tail(granted) ELSE granted
    <2>1. ans \in Seq(Addr)
      BY InputTypes DEF TypeOK, Clock, Allowed
    <2>2. waiting \in Addr
      BY AddressTypes, <1>1
    <2>3. granted' = Append(ans, waiting)
      <3>1. granted' = ans \o << waiting >>
        BY <1>1, <1>3 DEF Clock, Memory
      <3> HIDE DEF ans
      <3> QED BY <2>1, <2>2, <3>1
    <2> HIDE DEF ans
    <2> QED BY <2>1, <2>2, <2>3
  <1> QED BY <1>2, <1>3, InputTypes

(* Every cycle is one clock edge of the unit. *)
LEMMA NextIsClock == Next => \E in \in AnyInputs : Clock(in)
  BY InputSubsets DEF Next, SequentialCycle, BranchCycle, HwlpJumpCycle

(* A request on the instruction bus keeps its address until it is granted. *)
THEOREM RequestIsStable == Spec => AddressPhaseStable
  <1>1. Init => AddressHeld
    BY DEF Init, AddressHeld
  <1>2. TypeOK /\ AddressHeld /\ [Next]_vars => AddressHeld'
    <2> SUFFICES ASSUME TypeOK, AddressHeld, [Next]_vars
                 PROVE  AddressHeld'
      OBVIOUS
    <2>1. CASE Next
      BY <2>1, NextIsClock, AddressHeldStep
    <2>2. CASE UNCHANGED vars
      BY <2>2 DEF vars, obiRegs, envVars, AddressHeld
    <2> QED BY <2>1, <2>2
  <1>3. TypeOK /\ AddressHeld /\ [Next]_vars =>
          [waiting # None =>
             \/ waiting' = waiting
             \/ granted' # << >> /\ granted'[Len(granted')] = waiting]_vars
    BY NextIsClock, WaitingRequestStep
  <1> QED
    BY <1>1, <1>2, <1>3, TypeCorrect, PTL DEF Spec, AddressPhaseStable
------------------------------------------------------------------------------
(* On the legacy bus a request is accepted only when nothing is under way  *)
(* but what is answered in the same cycle.                                 *)
THEOREM LegacyBusAlone == Spec => []OneTransaction
  <1>1. Init => OneTransaction
    BY DEF Init, prefetch_controller_i!CtrlInit, OneTransaction
  <1>2. IInv /\ OneTransaction /\ [Next]_vars => OneTransaction'
    <2>1. ASSUME IInv, OneTransaction, PULP_OBI, NEW in \in AnyInputs, Clock(in)
          PROVE  cnt_q' <= 1
      <3>1. TypeOK /\ CountsOutstanding
        BY <2>1 DEF IInv
      <3>2. /\ cnt_q \in 0 .. 1
            /\ in.rvalid => cnt_q > 0
        BY <2>1, <3>1, CountInvariant DEF OneTransaction, TypeOK
      <3>3. up(in) => cnt_q = 0 \/ in.rvalid
        BY <2>1
        DEF up, Wired, prefetch_controller_i!count_up,
            prefetch_controller_i!trans_valid_o
      <3>4. /\ up(in) /\ in.rvalid => cnt_q' = cnt_q
            /\ up(in) /\ ~in.rvalid => cnt_q' = cnt_q + 1
            /\ ~up(in) /\ in.rvalid => cnt_q' = cnt_q - 1
            /\ ~up(in) /\ ~in.rvalid => cnt_q' = cnt_q
        BY <2>1, <3>1, CountStep
      <3> QED BY <2>1, <3>2, <3>3, <3>4, InputTypes
    <2>2. UNCHANGED vars => cnt_q' = cnt_q
      BY DEF vars, ctrlRegs
    <2> QED BY <2>1, <2>2, NextIsClock DEF OneTransaction
  <1> QED BY <1>1, <1>2, Invariant, PTL DEF Spec
==============================================================================
