--------------------------- MODULE LoadStore_proofs ---------------------------
EXTENDS LoadStore, SequenceTheorems, TLAPS

(***************************************************************************)
(* The inductive invariant: types, the counter, and what the bus was       *)
(* offered in the last cycle.  A request that was not granted is still     *)
(* made, unchanged, by the instruction in the execute stage.               *)
(***************************************************************************)
Request(in) ==
  [addr |-> word_address(in), be |-> data_be(Wired(in)),
   wdata |-> data_wdata(Wired(in)), we |-> ex.insn.we]

Answered(in) == in.rvalid => answers # << >>

OfferStands ==
  phase.offer # None /\ ~phase.gnt =>
    /\ ex # None
    /\ cnt_q < DEPTH
    /\ PULP_OBI => cnt_q = 0
    /\ \A in \in Inputs : Request(in) = phase.offer

IInv == TypeOK /\ CountsOutstanding /\ OfferStands
------------------------------------------------------------------------------
LEMMA InputTypes ==
  ASSUME NEW in \in Inputs
  PROVE  /\ in.gnt \in BOOLEAN /\ in.rvalid \in BOOLEAN
         /\ in.next \in Insns \cup {None}
         /\ in.apu \in Addr \cup {None}
  BY FpuResultsAssumption DEF Inputs

LEMMA InsnTypes ==
  ASSUME NEW i \in Insns
  PROVE  /\ i.we \in BOOLEAN /\ i.type \in {"word", "half", "byte"}
         /\ i.sign_ext \in 0 .. 2 /\ i.load_event \in BOOLEAN
         /\ i.wdata \in Word /\ i.rd \in Reg
         /\ i.base \in Addr /\ i.offset \in Addr /\ i.useincr \in BOOLEAN
  BY InsnsAssumption

(* Addresses wrap around. *)
LEMMA SumIsAddress ==
  ASSUME NEW a \in Addr, NEW b \in Addr
  PROVE  (a + b) % SIZE \in Addr
  BY SizeAssumption DEF Addr

LEMMA ExecuteTypes ==
  ASSUME TypeOK, ex # None
  PROVE  /\ ex \in ExecuteRegisters
         /\ ex.insn \in Insns /\ ex.a \in Addr /\ ex.b \in Addr
         /\ ex.useincr \in BOOLEAN /\ ex.alu_we \in BOOLEAN
         /\ ex.misaligned \in BOOLEAN
         /\ alu_result \in Addr /\ data_addr_int \in Addr
  <1>1. ex \in ExecuteRegisters
    BY DEF TypeOK
  <1>2. /\ ex.insn \in Insns /\ ex.a \in Addr /\ ex.b \in Addr
        /\ ex.useincr \in BOOLEAN /\ ex.alu_we \in BOOLEAN
        /\ ex.misaligned \in BOOLEAN
    BY <1>1 DEF ExecuteRegisters
  <1>3. alu_result \in Addr
    BY <1>2, SumIsAddress DEF alu_result
  <1> QED
    BY <1>1, <1>2, <1>3 DEF data_addr_int

LEMMA ZerosIsWord == Zeros \in Word /\ Junk \in Word
  BY DEF Zeros, Junk, Word, Lane, Byte

(* The inputs of the load-store unit. *)
LEMMA WiredTypes ==
  ASSUME TypeOK, NEW in \in Inputs, Answered(in)
  PROVE  /\ Wired(in).req \in BOOLEAN /\ Wired(in).we \in BOOLEAN
         /\ Wired(in).type \in {"word", "half", "byte"}
         /\ Wired(in).sign_ext \in 0 .. 2
         /\ Wired(in).load_event \in BOOLEAN
         /\ Wired(in).wdata \in Word
         /\ Wired(in).addr \in Addr
         /\ Wired(in).misaligned \in BOOLEAN
         /\ Wired(in).trans_ready = in.gnt
         /\ Wired(in).resp_valid = in.rvalid
         /\ Wired(in).resp_rdata \in Word
         /\ Wired(in).req <=> ex # None
  <1>1. Wired(in).resp_rdata \in Word
    <2>1. CASE in.rvalid
      <3> DEFINE Answer0 == [data : Word, event : BOOLEAN]
      <3>1. answers \in Seq(Answer0) /\ answers # << >>
        BY <2>1 DEF TypeOK, Answered
      <3>2. Head(answers) \in Answer0
        <4> HIDE DEF Answer0
        <4> QED BY <3>1
      <3>3. Head(answers).data \in Word
        BY <3>2
      <3> QED BY <2>1, <3>3 DEF Wired
    <2>2. CASE ~in.rvalid
      BY <2>2, ZerosIsWord DEF Wired
    <2> QED BY <2>1, <2>2
  <1>2. 0 \in Addr
    BY SizeAssumption DEF Addr
  <1>3. Wired(in).trans_ready = in.gnt /\ Wired(in).resp_valid = in.rvalid
    BY DEF Wired, data_obi_i!trans_ready_o
  <1>4. (Wired(in).req <=> ex # None) /\ Wired(in).req \in BOOLEAN
    BY DEF Wired
  <1>5. /\ Wired(in).we \in BOOLEAN
        /\ Wired(in).load_event \in BOOLEAN
        /\ Wired(in).misaligned \in BOOLEAN
    BY DEF Wired
  <1>6. CASE ex = None
    <2>1. /\ Wired(in).type = "word" /\ Wired(in).sign_ext = 0
          /\ Wired(in).wdata = Zeros /\ Wired(in).addr = 0
      BY <1>6 DEF Wired
    <2> QED BY <1>1, <1>2, <1>3, <1>4, <1>5, <2>1, ZerosIsWord
  <1>7. CASE ex # None
    <2>1. /\ Wired(in).type = ex.insn.type
          /\ Wired(in).sign_ext = ex.insn.sign_ext
          /\ Wired(in).wdata = ex.insn.wdata
          /\ Wired(in).addr = data_addr_int
      BY <1>7 DEF Wired
    <2>2. ex.insn \in Insns /\ data_addr_int \in Addr
      BY <1>7, ExecuteTypes
    <2>3. /\ ex.insn.type \in {"word", "half", "byte"}
          /\ ex.insn.sign_ext \in 0 .. 2 /\ ex.insn.wdata \in Word
      BY <2>2, InsnTypes
    <2> QED BY <1>1, <1>3, <1>4, <1>5, <2>1, <2>2, <2>3
  <1> QED BY <1>6, <1>7
------------------------------------------------------------------------------
(* The item given to write-back is a word. *)
LEMMA ItemIsWord ==
  ASSUME LsuTypeOK, NEW rdata \in Word
  PROVE  data_rdata_ext(rdata) \in Word
  <1>1. Size(data_type_q) \in {1, 2, 4}
    BY DEF LsuTypeOK, Size
  <1>2. ASSUME NEW i \in Lane
        PROVE  ItemByte(i, rdata) \in Byte
    <2>1. rdata_offset_q + i \in Nat /\ (rdata_offset_q + i) % 4 \in Lane
      BY DEF LsuTypeOK, Lane
    <2>2. rdata_offset_q + i < 4 => rdata_offset_q + i \in Lane
      BY <2>1 DEF Lane
    <2> QED BY <2>1, <2>2 DEF ItemByte, LsuTypeOK, Word
  <1>3. ExtensionByte(rdata) \in Byte
    BY DEF ExtensionByte, LsuTypeOK, Byte
  <1> QED BY <1>2, <1>3 DEF data_rdata_ext, Word

LEMMA LsuTypeStep ==
  ASSUME TypeOK, NEW in \in Inputs, Answered(in), LsuClock(Wired(in)),
         cnt_q = Len(answers)
  PROVE  LsuTypeOK'
  <1> DEFINE w == Wired(in)
  <1>1. /\ w.type \in {"word", "half", "byte"} /\ w.sign_ext \in 0 .. 2
        /\ w.we \in BOOLEAN /\ w.load_event \in BOOLEAN
        /\ w.addr \in Addr /\ w.resp_rdata \in Word
        /\ w.resp_valid = in.rvalid
    BY WiredTypes
  <1> HIDE DEF w
  <1>2. cnt_q' \in 0 .. DEPTH
    <2>1. w.resp_valid => cnt_q > 0
      BY <1>1 DEF Answered, TypeOK
    <2>2. count_up(w) => cnt_q < DEPTH
      BY DEF count_up, trans_valid
    <2>3. Count(w) /\ cnt_q \in 0 .. DEPTH
      BY DEF LsuClock, w, TypeOK, LsuTypeOK
    <2> QED BY <2>1, <2>2, <2>3 DEF Count, DEPTH
  <1>3. Offset(w.addr) \in Lane
    BY <1>1, SizeAssumption DEF Offset, Lane, Addr
  <1>4. /\ data_type_q' \in {"word", "half", "byte"}
        /\ rdata_offset_q' \in Lane /\ data_sign_ext_q' \in 0 .. 2
        /\ data_we_q' \in BOOLEAN /\ data_load_event_q' \in BOOLEAN
    <2>1. ControlInfo(w) /\ LsuTypeOK
      BY DEF LsuClock, w, TypeOK
    <2>2. CASE w.req /\ lsu_ready_ex_o(w)
      BY <2>1, <2>2, <1>1, <1>3 DEF ControlInfo
    <2>3. CASE ~(w.req /\ lsu_ready_ex_o(w))
      BY <2>1, <2>3 DEF ControlInfo, LsuTypeOK
    <2> QED BY <2>2, <2>3
  <1>5. rdata_q' \in Word
    <2>1. data_rdata_ext(w.resp_rdata) \in Word
      BY <1>1, ItemIsWord DEF TypeOK
    <2>2. KeepAnswer(w) /\ rdata_q \in Word
      BY DEF LsuClock, w, TypeOK, LsuTypeOK
    <2> QED BY <2>1, <2>2, <1>1 DEF KeepAnswer
  <1> QED BY <1>2, <1>4, <1>5 DEF LsuTypeOK
------------------------------------------------------------------------------
(* A word of the memory starts at every word address. *)
LEMMA WordLanes ==
  ASSUME NEW a \in Addr
  PROVE  \A l \in Lane : (a - Offset(a)) + l \in Addr
  <1>1. PICK k \in Nat : SIZE = 4 * k
    BY SizeAssumption
  <1>2. /\ Offset(a) \in Lane /\ a \in Nat /\ a < SIZE
        /\ a - Offset(a) = 4 * (a \div 4) /\ a \div 4 \in Nat
    BY SizeAssumption DEF Offset, Lane, Addr
  <1>3. a \div 4 < k
    BY <1>1, <1>2
  <1> QED BY <1>1, <1>2, <1>3 DEF Lane, Addr

LEMMA WordAddress ==
  ASSUME TypeOK, NEW in \in Inputs, Answered(in)
  PROVE  /\ word_address(in) = data_addr_int - Offset(data_addr_int) \/ ex = None
         /\ \A l \in Lane : word_address(in) + l \in Addr
  <1> DEFINE a == Wired(in).addr
  <1>1. a \in Addr
    BY WiredTypes
  <1>2. a \in Nat
    BY <1>1, SizeAssumption DEF Addr
  <1>3. Offset(a) \in Lane /\ Offset(a - Offset(a)) = 0
    BY <1>2 DEF Offset, Lane
  <1>4. word_address(in) = a - Offset(a)
    <2>1. trans_addr(Wired(in)) = a \/ trans_addr(Wired(in)) = a - Offset(a)
      BY DEF trans_addr
    <2>2. word_address(in) = trans_addr(Wired(in)) - Offset(trans_addr(Wired(in)))
      BY DEF word_address
    <2> HIDE DEF a
    <2>3. a - Offset(a) \in Int /\ (a - Offset(a)) - 0 = a - Offset(a)
      BY <1>2, <1>3 DEF Lane
    <2>4. CASE trans_addr(Wired(in)) = a
      BY <2>2, <2>4
    <2>5. CASE trans_addr(Wired(in)) = a - Offset(a)
      BY <1>3, <2>2, <2>3, <2>5
    <2> QED BY <2>1, <2>4, <2>5
  <1>5. \A l \in Lane : a - Offset(a) + l \in Addr
    BY <1>1, WordLanes
  <1>6. ex # None => a = data_addr_int
    BY DEF Wired
  <1> QED BY <1>4, <1>5, <1>6
------------------------------------------------------------------------------
AnswerSet == [data : Word, event : BOOLEAN]

LEMMA AcceptedRequest ==
  ASSUME TypeOK, NEW in \in Inputs, Answered(in)
  PROVE  /\ Accepted(in) <=> trans_valid(Wired(in)) /\ in.gnt
         /\ trans_valid(Wired(in)) => ex # None /\ cnt_q < DEPTH
         /\ (trans_valid(Wired(in)) /\ PULP_OBI) => cnt_q = 0 \/ in.rvalid
  BY WiredTypes DEF Accepted, count_up, trans_valid

(* What the memory answers to the transaction accepted in this cycle. *)
NewAnswer(in) ==
  [data |-> [l \in Lane |-> IF ~ex.insn.we /\ l \in data_be(Wired(in))
                              THEN mem[word_address(in) + l] ELSE Junk[l]],
   event |-> ex.insn.load_event /\ LastPart(in)]

LEMMA NewAnswerType ==
  ASSUME TypeOK, NEW in \in Inputs, Answered(in), ex # None
  PROVE  NewAnswer(in) \in AnswerSet
  <1>1. \A l \in Lane : mem[word_address(in) + l] \in Byte /\ Junk[l] \in Byte
    <2>1. \A l \in Lane : word_address(in) + l \in Addr
      BY WordAddress
    <2>2. mem \in [Addr -> Byte] /\ Junk \in [Lane -> Byte]
      BY ZerosIsWord DEF TypeOK, Word
    <2> QED BY <2>1, <2>2
  <1> DEFINE d == [l \in Lane |-> IF ~ex.insn.we /\ l \in data_be(Wired(in))
                                    THEN mem[word_address(in) + l] ELSE Junk[l]]
  <1>2. d \in Word
    BY <1>1 DEF Word
  <1>3. (ex.insn.load_event /\ LastPart(in)) \in BOOLEAN
    OBVIOUS
  <1> HIDE DEF d
  <1>4. NewAnswer(in) = [data |-> d, event |-> ex.insn.load_event /\ LastPart(in)]
    BY DEF NewAnswer, d
  <1> QED BY <1>2, <1>3, <1>4 DEF AnswerSet

LEMMA AppendOne ==
  ASSUME NEW S, NEW s \in Seq(S), NEW e \in S
  PROVE  /\ s \o << e >> \in Seq(S) /\ Len(s \o << e >>) = Len(s) + 1
         /\ s \o << >> = s
  <1>1. << e >> \in Seq(S) /\ Len(<< e >>) = 1
    OBVIOUS
  <1> QED BY <1>1

(* An accepted transaction joins the outstanding ones, an answered one     *)
(* leaves them.                                                            *)
LEMMA AnswersStep ==
  ASSUME TypeOK, NEW in \in Inputs, Answered(in), Memory(in)
  PROVE  /\ answers' \in Seq(AnswerSet)
         /\ Accepted(in) /\ in.rvalid => Len(answers') = Len(answers)
         /\ Accepted(in) /\ ~in.rvalid => Len(answers') = Len(answers) + 1
         /\ ~Accepted(in) /\ in.rvalid => Len(answers') = Len(answers) - 1
         /\ ~Accepted(in) /\ ~in.rvalid => Len(answers') = Len(answers)
  <1> DEFINE rest == IF in.rvalid THEN Tail(answers) ELSE answers
  <1>1. answers \in Seq(AnswerSet)
    BY DEF TypeOK, AnswerSet
  <1>2. /\ rest \in Seq(AnswerSet)
        /\ in.rvalid => Len(rest) = Len(answers) - 1
        /\ ~in.rvalid => Len(rest) = Len(answers)
    BY <1>1 DEF Answered
  <1>3. Len(answers) \in Nat /\ Len(rest) \in Nat
    BY <1>1, <1>2
  <1>4. answers' = rest \o (IF Accepted(in) THEN << NewAnswer(in) >> ELSE << >>)
    BY DEF Memory, NewAnswer
  <1> HIDE DEF rest
  <1>5. CASE Accepted(in)
    <2>1. NewAnswer(in) \in AnswerSet
      BY <1>5, AcceptedRequest, NewAnswerType
    <2>2. answers' = rest \o << NewAnswer(in) >>
      BY <1>4, <1>5
    <2>3. answers' \in Seq(AnswerSet) /\ Len(answers') = Len(rest) + 1
      BY <1>2, <2>1, <2>2, AppendOne
    <2> QED BY <1>2, <1>3, <1>5, <2>3
  <1>6. CASE ~Accepted(in)
    <2>1. answers' = rest
      BY <1>2, <1>4, <1>6
    <2> QED BY <1>2, <1>3, <1>6, <2>1
  <1> QED BY <1>5, <1>6

LEMMA CountStep ==
  ASSUME TypeOK, CountsOutstanding, NEW in \in Inputs, Answered(in), Clock(in)
  PROVE  /\ cnt_q' = Len(answers')
         /\ cnt_q' \in 0 .. DEPTH
         /\ Accepted(in) /\ ~in.rvalid => cnt_q' = cnt_q + 1
         /\ ~Accepted(in) /\ in.rvalid => cnt_q' = cnt_q - 1
         /\ (Accepted(in) <=> in.rvalid) => cnt_q' = cnt_q
  <1>1. Count(Wired(in)) /\ Memory(in)
    BY DEF Clock, LsuClock
  <1>2. /\ count_up(Wired(in)) <=> Accepted(in)
        /\ Wired(in).resp_valid = in.rvalid
    BY WiredTypes DEF Accepted
  <1>3. cnt_q = Len(answers) /\ cnt_q \in 0 .. 2 /\ (in.rvalid => cnt_q > 0)
        /\ (Accepted(in) => cnt_q < 2)
    BY AcceptedRequest DEF CountsOutstanding, TypeOK, LsuTypeOK, Answered, DEPTH
  <1>4. /\ Accepted(in) /\ ~in.rvalid => cnt_q' = cnt_q + 1
        /\ ~Accepted(in) /\ in.rvalid => cnt_q' = cnt_q - 1
        /\ (Accepted(in) <=> in.rvalid) => cnt_q' = cnt_q
    BY <1>1, <1>2 DEF Count
  <1>5. /\ Accepted(in) /\ in.rvalid => Len(answers') = Len(answers)
        /\ Accepted(in) /\ ~in.rvalid => Len(answers') = Len(answers) + 1
        /\ ~Accepted(in) /\ in.rvalid => Len(answers') = Len(answers) - 1
        /\ ~Accepted(in) /\ ~in.rvalid => Len(answers') = Len(answers)
    BY <1>1, AnswersStep
  <1>6. cnt_q' = Len(answers') /\ cnt_q' \in 0 .. 2
    <2>1. CASE Accepted(in) /\ in.rvalid
      BY <1>3, <1>4, <1>5, <2>1
    <2>2. CASE Accepted(in) /\ ~in.rvalid
      BY <1>3, <1>4, <1>5, <2>2
    <2>3. CASE ~Accepted(in) /\ in.rvalid
      BY <1>3, <1>4, <1>5, <2>3
    <2>4. CASE ~Accepted(in) /\ ~in.rvalid
      BY <1>3, <1>4, <1>5, <2>4
    <2> QED BY <2>1, <2>2, <2>3, <2>4
  <1> QED BY <1>4, <1>6 DEF DEPTH
------------------------------------------------------------------------------
(* When a memory instruction moves on, exactly its own transaction is      *)
(* outstanding: write-back has become free in the same cycle.              *)
LEMMA ReadyLeavesOne ==
  ASSUME TypeOK, CountsOutstanding, NEW in \in Inputs, Answered(in), Clock(in),
         ex # None, lsu_ready_ex_o(Wired(in))
  PROVE  cnt_q' = 1
  <1>1. \/ cnt_q = 0 /\ Accepted(in)
        \/ cnt_q = 1 /\ in.rvalid /\ Accepted(in)
        \/ cnt_q > 1 /\ in.rvalid
    BY WiredTypes DEF lsu_ready_ex_o, Accepted
  <1>2. /\ cnt_q \in 0 .. 2
        /\ in.rvalid => cnt_q > 0
        /\ Accepted(in) => cnt_q < 2
    BY AcceptedRequest DEF CountsOutstanding, TypeOK, LsuTypeOK, Answered, DEPTH
  <1>3. CASE cnt_q = 0 /\ Accepted(in)
    BY <1>2, <1>3, CountStep
  <1>4. CASE cnt_q = 1 /\ in.rvalid /\ Accepted(in)
    BY <1>4, CountStep
  <1>5. CASE cnt_q > 1 /\ in.rvalid
    BY <1>2, <1>5, CountStep
  <1> QED BY <1>1, <1>3, <1>4, <1>5

(* A request that is not granted keeps its instruction where it is. *)
LEMMA RefusedStays ==
  ASSUME TypeOK, NEW in \in Inputs, Answered(in),
         trans_valid(Wired(in)), ~in.gnt
  PROVE  ex # None /\ ~lsu_ready_ex_o(Wired(in)) /\ ~ex_ready_o(in)
  <1>1. ex # None /\ cnt_q < 2 /\ ~Accepted(in) /\ cnt_q \in 0 .. 2
    BY AcceptedRequest DEF DEPTH, TypeOK, LsuTypeOK
  <1>2. ~lsu_ready_ex_o(Wired(in))
    BY <1>1, WiredTypes DEF lsu_ready_ex_o, Accepted
  <1> QED BY <1>1, <1>2 DEF ex_ready_o

LEMMA CycleCases ==
  ASSUME NEW in \in Inputs, Cycle(in)
  PROVE  /\ Answered(in) /\ Clock(in)
         /\ \/ Stall(in)
            \/ ex # None /\ lsu_ready_ex_o(Wired(in))
            \/ ex = None
  BY DEF Cycle, Answered, Stall, Continue, Drain, Issue, CanLeave, ex_ready_o

LEMMA StaysBelow ==
  ASSUME NEW before \in 0 .. 2, NEW after, before < 2,
         after = before - 1 \/ after = before
  PROVE  after # 2
  OBVIOUS

LEMMA CountsOutstandingStep ==
  ASSUME TypeOK, CountsOutstanding, NEW in \in Inputs, Cycle(in)
  PROVE  CountsOutstanding'
  <1>1. Answered(in) /\ Clock(in)
    BY CycleCases
  <1>2. /\ cnt_q \in 0 .. 2 /\ cnt_q' \in 0 .. 2
        /\ cnt_q = Len(answers) /\ cnt_q' = Len(answers')
        /\ in.rvalid => cnt_q > 0
    BY <1>1, CountStep DEF CountsOutstanding, TypeOK, LsuTypeOK, Answered, DEPTH
  <1>3. cnt_q' = 2 => ex' # None
    <2>1. CASE Stall(in)
      BY <2>1 DEF Stall
    <2>2. CASE ex # None /\ lsu_ready_ex_o(Wired(in))
      BY <1>1, <2>2, ReadyLeavesOne
    <2>3. CASE ex = None
      <3>1. ~Accepted(in) /\ cnt_q < 2
        BY <1>1, <1>2, <2>3, AcceptedRequest DEF CountsOutstanding, DEPTH
      <3>2. in.rvalid \in BOOLEAN
        BY InputTypes
      <3>3. /\ in.rvalid => cnt_q' = cnt_q - 1
            /\ ~in.rvalid => cnt_q' = cnt_q
        BY <1>1, <3>1, <3>2, CountStep
      <3>4. cnt_q' = cnt_q - 1 \/ cnt_q' = cnt_q
        BY <3>2, <3>3
      <3>5. cnt_q' # 2
        BY <1>2, <3>1, <3>4, StaysBelow
      <3> QED BY <3>5
    <2>4. \/ Stall(in)
          \/ ex # None /\ lsu_ready_ex_o(Wired(in))
          \/ ex = None
      BY CycleCases
    <2> QED BY <2>1, <2>2, <2>3, <2>4
  <1>4. regfile_we_lsu' => cnt_q' > 0
    <2>1. WriteBackRegisters(in)
      BY <1>1 DEF Clock
    <2>2. CASE ex # None /\ lsu_ready_ex_o(Wired(in))
      BY <1>1, <2>2, ReadyLeavesOne
    <2>3. CASE ~(ex # None /\ lsu_ready_ex_o(Wired(in)))
      <3>1. regfile_we_lsu' => cnt_q # 0 /\ ~in.rvalid
        BY <1>1, <2>1, <2>3, WiredTypes DEF WriteBackRegisters, lsu_ready_wb_o
      <3>2. ~in.rvalid => cnt_q' = cnt_q \/ cnt_q' = cnt_q + 1
        BY <1>1, CountStep
      <3> QED BY <1>2, <3>1, <3>2
    <2> QED BY <2>2, <2>3
  <1> QED BY <1>2, <1>3, <1>4 DEF CountsOutstanding, DEPTH
------------------------------------------------------------------------------
(* The request is made by the instruction alone, whatever the bus does. *)
LEMMA RequestOfInstruction ==
  ASSUME NEW in \in Inputs, NEW other \in Inputs, ex # None, ex' = ex
  PROVE  Request(other)' = Request(in)
  <1>1. /\ Wired(other)'.type = Wired(in).type
        /\ Wired(other)'.wdata = Wired(in).wdata
        /\ Wired(other)'.addr = Wired(in).addr
        /\ Wired(other)'.misaligned = Wired(in).misaligned
    BY DEF Wired, data_addr_int, alu_result
  <1>2. word_address(other)' = word_address(in)
    BY <1>1 DEF word_address, trans_addr
  <1>3. data_be(Wired(other))' = data_be(Wired(in))
    BY <1>1 DEF data_be
  <1>4. data_wdata(Wired(other))' = data_wdata(Wired(in))
    BY <1>1 DEF data_wdata
  <1> QED BY <1>2, <1>3, <1>4 DEF Request

LEMMA OfferIsRequest ==
  ASSUME TypeOK, NEW in \in Inputs, Answered(in), Offer(in) # None
  PROVE  trans_valid(Wired(in)) /\ Offer(in) = Request(in)
  BY DEF Offer, Request

LEMMA OfferStandsStep ==
  ASSUME TypeOK, CountsOutstanding, NEW in \in Inputs, Cycle(in)
  PROVE  OfferStands'
  <1> SUFFICES ASSUME phase'.offer # None, ~phase'.gnt
               PROVE  /\ ex' # None
                      /\ cnt_q' < DEPTH
                      /\ PULP_OBI => cnt_q' = 0
                      /\ \A o \in Inputs : Request(o)' = phase'.offer
    BY DEF OfferStands
  <1>1. Answered(in) /\ Clock(in)
    BY CycleCases
  <1>2. phase' = [offer |-> Offer(in), gnt |-> in.gnt, rvalid |-> in.rvalid]
    BY <1>1 DEF Clock, Observe
  <1>3. trans_valid(Wired(in)) /\ ~in.gnt /\ phase'.offer = Request(in)
    BY <1>1, <1>2, OfferIsRequest
  <1>4. ex # None /\ ~lsu_ready_ex_o(Wired(in))
    BY <1>1, <1>3, RefusedStays
  <1>5. ex' = ex
    BY <1>4, CycleCases DEF Stall
  <1>6. ~Accepted(in) /\ cnt_q < 2 /\ (PULP_OBI => cnt_q = 0 \/ in.rvalid)
    BY <1>1, <1>3, AcceptedRequest DEF DEPTH
  <1>7. /\ cnt_q \in 0 .. 2
        /\ in.rvalid => cnt_q > 0
        /\ in.rvalid => cnt_q' = cnt_q - 1
        /\ ~in.rvalid => cnt_q' = cnt_q
    <2>1. in.rvalid \in BOOLEAN
      BY InputTypes
    <2>2. cnt_q \in 0 .. 2 /\ (in.rvalid => cnt_q > 0)
      BY <1>1 DEF CountsOutstanding, TypeOK, LsuTypeOK, Answered, DEPTH
    <2>3. /\ in.rvalid => cnt_q' = cnt_q - 1
          /\ ~in.rvalid => cnt_q' = cnt_q
      BY <1>1, <1>6, <2>1, CountStep
    <2> QED BY <2>2, <2>3
  <1>8. cnt_q' < DEPTH /\ (PULP_OBI => cnt_q' = 0)
    BY <1>6, <1>7 DEF DEPTH
  <1>9. \A o \in Inputs : Request(o)' = phase'.offer
    BY <1>3, <1>4, <1>5, RequestOfInstruction
  <1> QED BY <1>4, <1>5, <1>8, <1>9
------------------------------------------------------------------------------
(* The registers and the memory keep their types. *)
LEMMA LaneOfDifference ==
  ASSUME NEW l \in Lane, NEW addr \in Int
  PROVE  (l - Offset(addr)) % 4 \in Lane
  BY DEF Lane, Offset

LEMMA RegisterTypeStep ==
  ASSUME TypeOK, NEW in \in Inputs, Answered(in), RegisterWrites(in),
         WriteBackRegisters(in), Memory(in)
  PROVE  /\ regs' \in [Reg -> Word] /\ pointer' \in Addr
         /\ regfile_we_lsu' \in BOOLEAN /\ regfile_waddr_lsu' \in Reg
         /\ mem' \in [Addr -> Byte]
         /\ answers' \in Seq([data : Word, event : BOOLEAN])
  <1>1. regs' \in [Reg -> Word]
    <2>1. Wired(in).resp_rdata \in Word /\ LsuTypeOK /\ rdata_q \in Word
      BY WiredTypes DEF TypeOK, LsuTypeOK
    <2>2. data_rdata_ex_o(Wired(in)) \in Word
      BY <2>1, ItemIsWord DEF data_rdata_ex_o
    <2> QED BY <2>2 DEF RegisterWrites, TypeOK
  <1>2. pointer' \in Addr
    <2>1. CASE ex # None /\ ex.alu_we /\ in.apu = None
      BY <2>1, ExecuteTypes DEF RegisterWrites, regfile_alu_wdata_fw
    <2>2. CASE ~(ex # None /\ ex.alu_we /\ in.apu = None)
      BY <2>2 DEF RegisterWrites, TypeOK
    <2> QED BY <2>1, <2>2
  <1>3. regfile_we_lsu' \in BOOLEAN /\ regfile_waddr_lsu' \in Reg
    <2>1. CASE ex # None /\ lsu_ready_ex_o(Wired(in)) /\ lsu_ready_wb_o(Wired(in))
      <3>1. ex.insn.rd \in Reg /\ ex.insn.we \in BOOLEAN
        BY <2>1, ExecuteTypes, InsnTypes
      <3>2. /\ regfile_we_lsu' = ~ex.insn.we
            /\ regfile_waddr_lsu' =
                 IF ex.insn.we THEN regfile_waddr_lsu ELSE ex.insn.rd
        BY <2>1 DEF WriteBackRegisters
      <3>3. regfile_we_lsu' \in BOOLEAN
        BY <3>2
      <3> QED BY <3>1, <3>2, <3>3 DEF TypeOK
    <2>2. CASE ~(ex # None /\ lsu_ready_ex_o(Wired(in)) /\ lsu_ready_wb_o(Wired(in)))
      <3>1. /\ regfile_we_lsu' = (regfile_we_lsu /\ ~lsu_ready_wb_o(Wired(in)))
            /\ regfile_waddr_lsu' = regfile_waddr_lsu
        BY <2>2 DEF WriteBackRegisters
      <3>2. regfile_we_lsu' \in BOOLEAN
        BY <3>1
      <3> QED BY <3>1, <3>2 DEF TypeOK
    <2> QED BY <2>1, <2>2
  <1>4. mem' \in [Addr -> Byte]
    <2>1. CASE Accepted(in) /\ ex.insn.we
      <3>1. Wired(in).wdata \in [Lane -> Byte] /\ Wired(in).addr \in Int
        BY WiredTypes DEF Word, Addr
      <3>2. \A l \in Lane : data_wdata(Wired(in))[l] \in Byte
        <4>1. ASSUME NEW l \in Lane
              PROVE  data_wdata(Wired(in))[l]
                       = Wired(in).wdata[(l - Offset(Wired(in).addr)) % 4]
          BY DEF data_wdata
        <4>2. ASSUME NEW l \in Lane
              PROVE  (l - Offset(Wired(in).addr)) % 4 \in Lane
          <5> DEFINE addr == Wired(in).addr
          <5>1. addr \in Int
            BY <3>1
          <5> HIDE DEF addr
          <5>2. (l - Offset(addr)) % 4 \in Lane
            BY <5>1, LaneOfDifference
          <5> QED BY <5>2 DEF addr
        <4> QED BY <3>1, <4>1, <4>2
      <3>3. \A a \in Addr : a % 4 \in Lane
        BY DEF Addr, Lane
      <3>4. mem' = [a \in Addr |-> IF a \in Touched(in)
                                     THEN data_wdata(Wired(in))[a % 4] ELSE mem[a]]
        BY <2>1 DEF Memory
      <3> QED BY <3>2, <3>3, <3>4 DEF TypeOK
    <2>2. CASE ~(Accepted(in) /\ ex.insn.we)
      BY <2>2 DEF Memory, TypeOK
    <2> QED BY <2>1, <2>2
  <1>5. answers' \in Seq([data : Word, event : BOOLEAN])
    BY AnswersStep DEF AnswerSet
  <1> QED BY <1>1, <1>2, <1>3, <1>4, <1>5

LEMMA TypeStep ==
  ASSUME TypeOK, CountsOutstanding, NEW in \in Inputs, Cycle(in)
  PROVE  TypeOK'
  <1>1. Answered(in) /\ Clock(in)
    BY CycleCases
  <1>2. LsuTypeOK'
    BY <1>1, LsuTypeStep DEF Clock, CountsOutstanding
  <1>3. /\ regs' \in [Reg -> Word] /\ pointer' \in Addr
        /\ regfile_we_lsu' \in BOOLEAN /\ regfile_waddr_lsu' \in Reg
        /\ mem' \in [Addr -> Byte]
        /\ answers' \in Seq([data : Word, event : BOOLEAN])
    BY <1>1, RegisterTypeStep DEF Clock
  <1>4. ex' \in ExecuteRegisters \cup {None} /\ issued' \in 0 .. MAX_INSNS
    <2>1. CASE Stall(in)
      BY <2>1 DEF Stall, TypeOK
    <2>2. CASE Continue(in)
      <3>1. ex \in ExecuteRegisters /\ ex.a \in Addr /\ alu_result \in Addr
        BY <2>2, ExecuteTypes DEF Continue
      <3>2. regfile_alu_wdata_fw(in) \in Addr /\ 4 \in Addr
        BY <3>1, InputTypes, SizeAssumption DEF regfile_alu_wdata_fw, Addr
      <3> DEFINE a2 == IF ex.useincr THEN regfile_alu_wdata_fw(in) ELSE ex.a
      <3>3. a2 \in Addr
        BY <3>1, <3>2
      <3>4. ex' = [ex EXCEPT !.a = a2, !.b = 4, !.useincr = TRUE,
                             !.alu_we = FALSE, !.misaligned = TRUE]
        BY <2>2 DEF Continue, SecondPass
      <3> HIDE DEF a2
      <3>5. ex' \in ExecuteRegisters
        BY <3>1, <3>2, <3>3, <3>4 DEF ExecuteRegisters
      <3> QED BY <2>2, <3>5 DEF Continue, TypeOK
    <2>3. CASE Drain(in)
      BY <2>3 DEF Drain, TypeOK
    <2>4. CASE Issue(in)
      <3>1. in.next \in Insns
        BY <2>4, InputTypes DEF Issue
      <3>2. /\ in.next.base \in Addr /\ in.next.offset \in Addr
            /\ in.next.useincr \in BOOLEAN
        BY <3>1, InsnTypes
      <3>3. Decoded(in.next) \in ExecuteRegisters
        BY <3>1, <3>2 DEF Decoded, ExecuteRegisters
      <3>4. issued' \in 0 .. MAX_INSNS
        BY <2>4, BoundAssumption DEF Issue, TypeOK
      <3> QED BY <2>4, <3>3, <3>4 DEF Issue
    <2> QED BY <2>1, <2>2, <2>3, <2>4 DEF Cycle
  <1> QED BY <1>2, <1>3, <1>4 DEF TypeOK
------------------------------------------------------------------------------
(* The invariant holds in every reachable state, with or without the FPU   *)
(* and on either bus.                                                      *)
THEOREM Invariant == Spec => []IInv
  <1>1. Init => IInv
    <2> SUFFICES ASSUME Init PROVE IInv
      OBVIOUS
    <2>1. LsuTypeOK
      <3>1. /\ cnt_q \in 0 .. DEPTH /\ rdata_offset_q \in Lane
            /\ data_sign_ext_q \in 0 .. 2
        BY DEF Init, LsuInit, Lane, DEPTH
      <3>2. data_type_q \in {"word", "half", "byte"}
        BY DEF Init, LsuInit
      <3>3. data_we_q \in BOOLEAN /\ data_load_event_q \in BOOLEAN
        BY DEF Init, LsuInit
      <3>4. rdata_q \in Word
        BY ZerosIsWord DEF Init, LsuInit
      <3> QED BY <3>1, <3>2, <3>3, <3>4 DEF LsuTypeOK
    <2>2. TypeOK
      <3>1. /\ ex \in ExecuteRegisters \cup {None}
            /\ regfile_we_lsu \in BOOLEAN /\ regfile_waddr_lsu \in Reg
        BY DEF Init
      <3>2. regs \in [Reg -> Word]
        BY ZerosIsWord DEF Init
      <3>3. /\ pointer \in Addr /\ mem \in [Addr -> Byte]
            /\ issued \in 0 .. MAX_INSNS
        BY SizeAssumption, InitialMemAssumption, BoundAssumption DEF Init, Addr
      <3>4. answers \in Seq([data : Word, event : BOOLEAN])
        BY DEF Init
      <3> QED BY <2>1, <3>1, <3>2, <3>3, <3>4 DEF TypeOK
    <2>3. CountsOutstanding
      BY DEF Init, LsuInit, CountsOutstanding, DEPTH
    <2>4. OfferStands
      BY DEF Init, OfferStands
    <2> QED BY <2>2, <2>3, <2>4 DEF IInv
  <1>2. IInv /\ [Next]_vars => IInv'
    <2> SUFFICES ASSUME IInv, [Next]_vars PROVE IInv'
      OBVIOUS
    <2>1. CASE Next
      BY <2>1, TypeStep, CountsOutstandingStep, OfferStandsStep DEF Next, IInv
    <2>2. CASE UNCHANGED vars
      <3>1. TypeOK'
        BY <2>2 DEF IInv, TypeOK, LsuTypeOK, vars, lsuRegs, pipeRegs, envVars
      <3>2. CountsOutstanding'
        BY <2>2 DEF IInv, CountsOutstanding, vars, lsuRegs, pipeRegs, envVars
      <3>3. OfferStands'
        <4>1. phase' = phase /\ ex' = ex /\ cnt_q' = cnt_q
          BY <2>2 DEF vars, lsuRegs, pipeRegs, envVars
        <4>2. ex # None => \A o \in Inputs : Request(o)' = Request(o)
          BY <4>1, RequestOfInstruction
        <4> QED BY <4>1, <4>2 DEF IInv, OfferStands
      <3> QED BY <3>1, <3>2, <3>3 DEF IInv
    <2> QED BY <2>1, <2>2
  <1> QED BY <1>1, <1>2, PTL DEF Spec

(* Every register of the load-store unit and around it has its type.       *)
THEOREM TypeCorrect == Spec => []TypeOK
  <1>1. IInv => TypeOK
    BY DEF IInv
  <1> QED BY <1>1, Invariant, PTL

(* The unit's counter of outstanding transactions is exact and never passes *)
(* its limit, so every answer belongs to a transaction of the unit and a    *)
(* load in write-back always has one to wait for.                           *)
THEOREM CounterIsExact == Spec => []CountsOutstanding
  <1>1. IInv => CountsOutstanding
    BY DEF IInv
  <1> QED BY <1>1, Invariant, PTL

(* A request on the data bus keeps its address phase until it is granted,   *)
(* although the bus adapter does not hold it.                               *)
THEOREM RequestIsStable == Spec => OfferHeld
  <1>1. IInv /\ [Next]_vars =>
          [phase.offer # None /\ ~phase.gnt => phase'.offer = phase.offer]_vars
    <2> SUFFICES ASSUME IInv, NEW in \in Inputs, Cycle(in),
                        phase.offer # None, ~phase.gnt
                 PROVE  phase'.offer = phase.offer
      BY DEF Next
    <2>1. /\ ex # None /\ cnt_q < DEPTH /\ (PULP_OBI => cnt_q = 0)
          /\ Request(in) = phase.offer
      BY DEF IInv, OfferStands
    <2>2. TypeOK /\ Answered(in) /\ Clock(in)
      BY CycleCases DEF IInv
    <2>3. trans_valid(Wired(in))
      BY <2>1, <2>2, WiredTypes DEF trans_valid
    <2> QED BY <2>1, <2>2, <2>3 DEF Offer, Request, Clock, Observe
  <1> QED BY <1>1, Invariant, PTL DEF Spec, OfferHeld
------------------------------------------------------------------------------
(* On the legacy bus no transaction starts while another is under way.     *)
THEOREM LegacyBusAlone == Spec => []OneTransaction
  <1>1. Init => OneTransaction
    BY DEF Init, LsuInit, OneTransaction
  <1>2. IInv /\ OneTransaction /\ [Next]_vars => OneTransaction'
    <2>1. ASSUME IInv, OneTransaction, NEW in \in Inputs, Cycle(in), PULP_OBI
          PROVE  cnt_q' <= 1
      <3>1. TypeOK /\ CountsOutstanding /\ Answered(in) /\ Clock(in)
        BY <2>1, CycleCases DEF IInv
      <3>2. /\ cnt_q \in 0 .. 1 /\ in.rvalid \in BOOLEAN
            /\ in.rvalid => cnt_q > 0
        BY <2>1, <3>1, InputTypes
        DEF OneTransaction, CountsOutstanding, Answered, TypeOK, LsuTypeOK, DEPTH
      <3>3. Accepted(in) => cnt_q = 0 \/ in.rvalid
        BY <2>1, <3>1, AcceptedRequest
      <3>4. /\ Accepted(in) /\ ~in.rvalid => cnt_q' = cnt_q + 1
            /\ ~Accepted(in) /\ in.rvalid => cnt_q' = cnt_q - 1
            /\ (Accepted(in) <=> in.rvalid) => cnt_q' = cnt_q
        BY <3>1, CountStep
      <3> QED BY <3>2, <3>3, <3>4
    <2>2. UNCHANGED vars => cnt_q' = cnt_q
      BY DEF vars, lsuRegs
    <2> QED BY <2>1, <2>2 DEF Next, OneTransaction
  <1> QED BY <1>1, <1>2, Invariant, PTL DEF Spec
------------------------------------------------------------------------------
LEMMA NoFpuResult ==
  ASSUME FPU = FALSE, NEW in \in Inputs
  PROVE  in.apu = None /\ ~wb_contention(in)
  BY DEF Inputs, wb_contention

(* A bus that grants and answers at once lets the instruction move on.     *)
LEMMA ReadyWhenServed ==
  ASSUME IInv, NEW in \in Inputs, Answered(in), ex # None, in.gnt,
         answers # << >> => in.rvalid
  PROVE  lsu_ready_ex_o(Wired(in)) /\ lsu_ready_wb_o(Wired(in))
  <1> DEFINE w == Wired(in)
  <1>1. /\ w.req = TRUE /\ w.trans_ready = TRUE /\ w.resp_valid = in.rvalid
        /\ in.rvalid \in BOOLEAN
    BY WiredTypes, InputTypes DEF IInv
  <1>2. cnt_q \in 0 .. 2 /\ (cnt_q # 0 => in.rvalid)
    BY DEF IInv, TypeOK, LsuTypeOK, CountsOutstanding, DEPTH
  <1> SUFFICES lsu_ready_ex_o(w) /\ lsu_ready_wb_o(w)
    OBVIOUS
  <1> HIDE DEF w
  <1>3. CASE cnt_q = 0
    BY <1>1, <1>3 DEF lsu_ready_ex_o, lsu_ready_wb_o, count_up, trans_valid, DEPTH
  <1>4. CASE cnt_q = 1
    BY <1>1, <1>2, <1>4 DEF lsu_ready_ex_o, lsu_ready_wb_o, count_up, trans_valid, DEPTH
  <1>5. CASE cnt_q = 2
    BY <1>1, <1>2, <1>5 DEF lsu_ready_ex_o, lsu_ready_wb_o, DEPTH
  <1> QED BY <1>2, <1>3, <1>4, <1>5

(* Without an FPU an instruction waits for the memory only: a load or      *)
(* store takes one cycle and a misaligned one two, when the bus does not   *)
(* wait (docs/source/pipeline.rst:67-76).                                  *)
THEOREM WaitsForMemoryOnly ==
  ASSUME FPU = FALSE
  PROVE  Spec => NoStall
  <1>1. IInv /\ [Next]_vars =>
          [ex # None /\ phase'.gnt /\ (answers # << >> => phase'.rvalid) => MovesOn]_vars
    <2> SUFFICES ASSUME IInv, NEW in \in Inputs, Cycle(in), ex # None, phase'.gnt,
                        answers # << >> => phase'.rvalid
                 PROVE  MovesOn
      BY DEF Next
    <2>1. Answered(in) /\ Clock(in)
      BY CycleCases
    <2>2. in.gnt /\ (answers # << >> => in.rvalid)
      BY <2>1 DEF Clock, Observe
    <2>3. ex_ready_o(in)
      BY <2>1, <2>2, ReadyWhenServed, NoFpuResult DEF ex_ready_o
    <2>4. CASE Continue(in)
      <3>1. ex \in ExecuteRegisters
        BY ExecuteTypes DEF IInv
      <3>2. ex'.misaligned = TRUE
        BY <2>4, <3>1 DEF Continue, SecondPass, ExecuteRegisters
      <3>3. ~ex.misaligned
        BY <2>4 DEF Continue, misaligned, data_misaligned_o, Wired
      <3> QED BY <3>2, <3>3 DEF MovesOn
    <2>5. CASE Drain(in)
      BY <2>5 DEF Drain, MovesOn
    <2>6. CASE Issue(in)
      BY <2>6 DEF Issue, MovesOn, IInv, TypeOK
    <2> QED BY <2>3, <2>4, <2>5, <2>6 DEF Cycle, Stall
  <1> QED BY <1>1, Invariant, PTL DEF Spec, NoStall
------------------------------------------------------------------------------
(* The outstanding transactions, one by one. *)
LEMMA AnswerElements ==
  ASSUME TypeOK, NEW in \in Inputs, Answered(in), Memory(in)
  PROVE  /\ ~in.rvalid =>
              /\ \A i \in 1 .. Len(answers) : answers'[i] = answers[i]
              /\ Accepted(in) => answers'[Len(answers) + 1] = NewAnswer(in)
         /\ in.rvalid =>
              /\ \A i \in 1 .. Len(answers) - 1 : answers'[i] = answers[i + 1]
              /\ Accepted(in) => answers'[Len(answers)] = NewAnswer(in)
  <1> DEFINE rest == IF in.rvalid THEN Tail(answers) ELSE answers
             new == IF Accepted(in) THEN << NewAnswer(in) >> ELSE << >>
  <1>1. answers \in Seq(AnswerSet) /\ Len(answers) \in Nat
    BY DEF TypeOK, AnswerSet
  <1>2. /\ rest \in Seq(AnswerSet) /\ Len(rest) \in Nat
        /\ in.rvalid => /\ Len(rest) = Len(answers) - 1
                        /\ \A i \in 1 .. Len(answers) - 1 : rest[i] = answers[i + 1]
        /\ ~in.rvalid => rest = answers
    BY <1>1 DEF Answered
  <1>3. answers' = rest \o new
    BY DEF Memory, NewAnswer
  <1>4. Accepted(in) => NewAnswer(in) \in AnswerSet
    BY AcceptedRequest, NewAnswerType
  <1> HIDE DEF rest
  <1>5. /\ \A i \in 1 .. Len(rest) : answers'[i] = rest[i]
        /\ Accepted(in) => answers'[Len(rest) + 1] = NewAnswer(in)
    <2>1. CASE Accepted(in)
      <3>1. << NewAnswer(in) >> \in Seq(AnswerSet) /\ Len(<< NewAnswer(in) >>) = 1
            /\ << NewAnswer(in) >>[1] = NewAnswer(in)
        BY <1>4, <2>1
      <3> QED BY <1>2, <1>3, <2>1, <3>1
    <2>2. CASE ~Accepted(in)
      <3>1. answers' = rest
        BY <1>2, <1>3, <2>2, AppendOne
      <3> QED BY <2>2, <3>1
    <2> QED BY <2>1, <2>2
  <1>6. CASE in.rvalid
    <2>1. Len(rest) + 1 = Len(answers)
      BY <1>1, <1>2, <1>6
    <2> QED BY <1>2, <1>5, <1>6, <2>1
  <1>7. CASE ~in.rvalid
    BY <1>2, <1>5, <1>7
  <1> QED BY <1>6, <1>7

(* What a cycle can do to the transactions: the instruction in the execute *)
(* stage moves on, waits, or there is none.                                *)
LastAnswer(in) == IF cnt_q = 2 THEN answers[2] ELSE NewAnswer(in)

LEMMA MoveCases ==
  ASSUME TypeOK, CountsOutstanding, NEW in \in Inputs, Answered(in), Clock(in),
         ex # None, lsu_ready_ex_o(Wired(in))
  PROVE  /\ \/ cnt_q = 0 /\ Accepted(in) /\ ~in.rvalid
            \/ cnt_q = 1 /\ Accepted(in) /\ in.rvalid
            \/ cnt_q = 2 /\ ~Accepted(in) /\ in.rvalid
         /\ lsu_ready_wb_o(Wired(in))
         /\ cnt_q' = 1 /\ answers'[1] = LastAnswer(in)
  <1>1. /\ cnt_q \in 0 .. 2 /\ cnt_q = Len(answers)
        /\ in.rvalid => cnt_q > 0
        /\ Accepted(in) => cnt_q < 2
    BY AcceptedRequest DEF CountsOutstanding, TypeOK, LsuTypeOK, Answered, DEPTH
  <1>2. \/ cnt_q = 0 /\ Accepted(in) /\ ~in.rvalid
        \/ cnt_q = 1 /\ Accepted(in) /\ in.rvalid
        \/ cnt_q = 2 /\ ~Accepted(in) /\ in.rvalid
    BY <1>1, WiredTypes DEF lsu_ready_ex_o, Accepted
  <1>3. lsu_ready_wb_o(Wired(in))
    BY <1>2, WiredTypes DEF lsu_ready_wb_o
  <1>4. cnt_q' = 1
    BY ReadyLeavesOne
  <1>5. Memory(in)
    BY DEF Clock
  <1>6. answers'[1] = LastAnswer(in)
    BY <1>1, <1>2, <1>5, AnswerElements DEF LastAnswer
  <1> QED BY <1>2, <1>3, <1>4, <1>6

(* An instruction that stays although the memory is done with it has met a *)
(* result of the FPU.                                                      *)
LEMMA StallCases ==
  ASSUME TypeOK, CountsOutstanding, NEW in \in Inputs, Answered(in), Stall(in),
         lsu_ready_ex_o(Wired(in))
  PROVE  wb_contention(in)
  <1>1. ex # None /\ ~ex_ready_o(in) /\ Clock(in)
    BY DEF Stall
  <1>2. lsu_ready_wb_o(Wired(in))
    BY <1>1, MoveCases
  <1> QED BY <1>1, <1>2 DEF ex_ready_o

LEMMA WaitCases ==
  ASSUME TypeOK, CountsOutstanding, NEW in \in Inputs, Answered(in),
         Stall(in), ~lsu_ready_ex_o(Wired(in))
  PROVE  /\ ex # None /\ ex' = ex
         /\ \/ cnt_q = 0 /\ ~Accepted(in) /\ ~in.rvalid /\ cnt_q' = 0
            \/ cnt_q = 1 /\ ~Accepted(in) /\ ~in.rvalid /\ cnt_q' = 1
            \/ cnt_q = 1 /\ ~Accepted(in) /\ in.rvalid /\ cnt_q' = 0
            \/ cnt_q = 1 /\ Accepted(in) /\ ~in.rvalid /\ cnt_q' = 2
            \/ cnt_q = 2 /\ ~Accepted(in) /\ ~in.rvalid /\ cnt_q' = 2
         /\ ~in.rvalid => \A i \in 1 .. cnt_q : answers'[i] = answers[i]
         /\ Accepted(in) => answers'[2] = NewAnswer(in)
  <1>1. ex # None /\ ~ex_ready_o(in) /\ ex' = ex /\ Clock(in) /\ Memory(in)
    BY DEF Stall, Clock
  <1>2. ~lsu_ready_ex_o(Wired(in))
    OBVIOUS
  <1>3. /\ cnt_q \in 0 .. 2 /\ cnt_q = Len(answers)
        /\ in.rvalid => cnt_q > 0
        /\ Accepted(in) => cnt_q < 2
        /\ in.rvalid \in BOOLEAN
    BY AcceptedRequest, InputTypes
    DEF CountsOutstanding, TypeOK, LsuTypeOK, Answered, DEPTH
  <1>4. /\ ~(cnt_q = 0 /\ Accepted(in))
        /\ ~(cnt_q = 1 /\ in.rvalid /\ Accepted(in))
        /\ ~(cnt_q = 2 /\ in.rvalid)
    BY <1>1, <1>2, WiredTypes DEF lsu_ready_ex_o, Accepted
  <1>5. /\ Accepted(in) /\ ~in.rvalid => cnt_q' = cnt_q + 1
        /\ ~Accepted(in) /\ in.rvalid => cnt_q' = cnt_q - 1
        /\ (Accepted(in) <=> in.rvalid) => cnt_q' = cnt_q
    BY <1>1, CountStep
  <1>6. \/ cnt_q = 0 /\ ~Accepted(in) /\ ~in.rvalid /\ cnt_q' = 0
        \/ cnt_q = 1 /\ ~Accepted(in) /\ ~in.rvalid /\ cnt_q' = 1
        \/ cnt_q = 1 /\ ~Accepted(in) /\ in.rvalid /\ cnt_q' = 0
        \/ cnt_q = 1 /\ Accepted(in) /\ ~in.rvalid /\ cnt_q' = 2
        \/ cnt_q = 2 /\ ~Accepted(in) /\ ~in.rvalid /\ cnt_q' = 2
    BY <1>3, <1>4, <1>5
  <1> QED BY <1>1, <1>2, <1>3, <1>6, AnswerElements

LEMMA IdleCases ==
  ASSUME TypeOK, CountsOutstanding, NEW in \in Inputs, Answered(in), Clock(in),
         ex = None
  PROVE  /\ ~Accepted(in)
         /\ \/ cnt_q = 0 /\ ~in.rvalid /\ cnt_q' = 0
            \/ cnt_q = 1 /\ ~in.rvalid /\ cnt_q' = 1 /\ answers'[1] = answers[1]
            \/ cnt_q = 1 /\ in.rvalid /\ cnt_q' = 0
  <1>1. /\ cnt_q \in 0 .. 1 /\ cnt_q = Len(answers) /\ ~Accepted(in)
        /\ in.rvalid => cnt_q > 0
        /\ in.rvalid \in BOOLEAN
    BY AcceptedRequest, InputTypes
    DEF CountsOutstanding, TypeOK, LsuTypeOK, Answered, DEPTH
  <1>2. Memory(in)
    BY DEF Clock
  <1>3. /\ in.rvalid => cnt_q' = cnt_q - 1
        /\ ~in.rvalid => cnt_q' = cnt_q
    BY <1>1, CountStep
  <1>4. cnt_q = 1 /\ ~in.rvalid => answers'[1] = answers[1]
    BY <1>1, <1>2, AnswerElements
  <1> QED BY <1>1, <1>3, <1>4

(* The instruction in the execute stage moves on, with or without          *)
(* finishing, or waits, or there is none.                                  *)
LEMMA StepCases ==
  ASSUME NEW in \in Inputs, Cycle(in)
  PROVE  /\ Answered(in) /\ Clock(in)
         /\ \/ Stall(in)
            \/ /\ Continue(in) /\ ex # None /\ misaligned(in)
               /\ lsu_ready_ex_o(Wired(in)) /\ ex' = SecondPass(in)
            \/ /\ Drain(in) \/ Issue(in)
               /\ ex # None /\ ~misaligned(in) /\ lsu_ready_ex_o(Wired(in))
            \/ /\ Drain(in) \/ Issue(in)
               /\ ex = None
  BY DEF Cycle, Answered, Stall, Continue, Drain, Issue, CanLeave, ex_ready_o
------------------------------------------------------------------------------
(* The event flag of the transaction in write-back, unless that is only    *)
(* the first half of the item, and of the one behind it.                   *)
Crosses ==
  /\ ex # None /\ ~ex.misaligned
  /\ \/ ex.insn.type = "word" /\ Offset(data_addr_int) # 0
     \/ ex.insn.type = "half" /\ Offset(data_addr_int) = 3

EventsMatch ==
  /\ cnt_q > 0 =>
       (answers[1].event <=> data_load_event_q /\ ~(ex # None /\ ex.misaligned))
  /\ cnt_q = 2 =>
       (answers[2].event <=> ex.insn.load_event /\ ~Crosses)
  /\ ex # None /\ ex.alu_we => ~ex.insn.useincr

LEMMA CrossesIs ==
  ASSUME NEW in
  PROVE  misaligned(in) <=> Crosses
  BY DEF misaligned, data_misaligned_o, Crosses, Wired

LEMMA LastAnswerEvent ==
  ASSUME EventsMatch, NEW in, ex # None
  PROVE  LastAnswer(in).event <=> ex.insn.load_event /\ ~misaligned(in)
  BY CrossesIs DEF EventsMatch, LastAnswer, NewAnswer, LastPart

LEMMA SecondPassRegisters ==
  ASSUME TypeOK, ex # None, NEW in \in Inputs
  PROVE  /\ SecondPass(in) \in ExecuteRegisters /\ SecondPass(in) # None
         /\ SecondPass(in).insn = ex.insn /\ SecondPass(in).misaligned = TRUE
         /\ SecondPass(in).alu_we = FALSE
  <1>1. ex \in ExecuteRegisters /\ ex.a \in Addr /\ alu_result \in Addr
    BY ExecuteTypes
  <1>2. regfile_alu_wdata_fw(in) \in Addr
    BY <1>1, InputTypes DEF regfile_alu_wdata_fw
  <1>3. 4 \in Addr
    BY SizeAssumption DEF Addr
  <1>4. SecondPass(in) \in ExecuteRegisters
    BY <1>1, <1>2, <1>3 DEF SecondPass, ExecuteRegisters
  <1> QED BY <1>1, <1>4, NoneAssumption DEF SecondPass, ExecuteRegisters

LEMMA IssuedRegisters ==
  ASSUME NEW in \in Inputs, Drain(in) \/ Issue(in)
  PROVE  /\ ~(ex' # None /\ ex'.misaligned)
         /\ ex' # None /\ ex'.alu_we => ~ex'.insn.useincr
  <1>1. CASE Drain(in)
    BY <1>1 DEF Drain
  <1>2. CASE Issue(in)
    <2>1. in.next \in Insns /\ in.next.useincr \in BOOLEAN
      BY <1>2, InputTypes, InsnTypes DEF Issue
    <2>2. ex' = Decoded(in.next)
      BY <1>2 DEF Issue
    <2> QED BY <2>1, <2>2 DEF Decoded
  <1> QED BY <1>1, <1>2

LEMMA EventsMatchStep ==
  ASSUME TypeOK, CountsOutstanding, EventsMatch,
         NEW in \in Inputs, Cycle(in)
  PROVE  EventsMatch'
  <1>1. Answered(in) /\ Clock(in) /\ ControlInfo(Wired(in))
    BY StepCases DEF Clock, LsuClock
  <1>2. CASE Stall(in) /\ ~lsu_ready_ex_o(Wired(in))
    <2>1. data_load_event_q' = data_load_event_q /\ ex' = ex
      BY <1>1, <1>2, WaitCases DEF ControlInfo
    <2>2. Crosses' <=> Crosses
      BY <2>1 DEF Crosses, data_addr_int, alu_result
    <2>3. Accepted(in) => (NewAnswer(in).event <=> ex.insn.load_event /\ ~Crosses)
      BY <1>1, <1>2, WaitCases, CrossesIs DEF NewAnswer, LastPart
    <2>4. /\ \/ cnt_q = 0 /\ ~Accepted(in) /\ ~in.rvalid /\ cnt_q' = 0
             \/ cnt_q = 1 /\ ~Accepted(in) /\ ~in.rvalid /\ cnt_q' = 1
             \/ cnt_q = 1 /\ ~Accepted(in) /\ in.rvalid /\ cnt_q' = 0
             \/ cnt_q = 1 /\ Accepted(in) /\ ~in.rvalid /\ cnt_q' = 2
             \/ cnt_q = 2 /\ ~Accepted(in) /\ ~in.rvalid /\ cnt_q' = 2
          /\ ~in.rvalid => \A i \in 1 .. cnt_q : answers'[i] = answers[i]
          /\ Accepted(in) => answers'[2] = NewAnswer(in)
      BY <1>1, <1>2, WaitCases
    <2>5. cnt_q' > 0 => answers'[1] = answers[1]
      BY <2>4
    <2>6. cnt_q' = 2 => (answers'[2].event <=> ex.insn.load_event /\ ~Crosses)
      <3>1. CASE cnt_q = 2
        BY <2>4, <3>1 DEF EventsMatch
      <3>2. CASE cnt_q # 2
        BY <2>3, <2>4, <3>2
      <3> QED BY <3>1, <3>2
    <2>7. cnt_q' > 0 =>
            (answers'[1].event <=> data_load_event_q /\ ~(ex # None /\ ex.misaligned))
      BY <2>4, <2>5 DEF EventsMatch
    <2> QED BY <2>1, <2>2, <2>6, <2>7 DEF EventsMatch
  <1>3. ASSUME ex # None, lsu_ready_ex_o(Wired(in))
        PROVE  /\ cnt_q' = 1 /\ data_load_event_q' = ex.insn.load_event
               /\ answers'[1].event <=> ex.insn.load_event /\ ~misaligned(in)
    <2>1. cnt_q' = 1 /\ answers'[1] = LastAnswer(in)
      BY <1>1, <1>3, MoveCases
    <2>2. data_load_event_q' = ex.insn.load_event
      <3>1. Wired(in).req /\ data_load_event_q' = Wired(in).load_event
        BY <1>1, <1>3, WiredTypes DEF ControlInfo
      <3>2. ex.insn.load_event \in BOOLEAN
        BY <1>3, ExecuteTypes, InsnTypes
      <3>3. Wired(in).load_event = (ex # None /\ ex.insn.load_event)
        BY DEF Wired
      <3> QED BY <1>3, <3>1, <3>2, <3>3
    <2> QED BY <1>3, <2>1, <2>2, LastAnswerEvent
  <1>4. CASE Stall(in) /\ lsu_ready_ex_o(Wired(in))
    <2>1. ex # None /\ ex' = ex /\ ex.alu_we
      BY <1>1, <1>4, StallCases DEF Stall, wb_contention
    <2>2. ~ex.insn.load_event
      BY <2>1, ExecuteTypes, EventLoadsAssumption DEF EventsMatch
    <2>3. ~(answers'[1].event) /\ ~data_load_event_q' /\ cnt_q' = 1
      BY <1>3, <1>4, <2>1, <2>2
    <2> QED BY <2>1, <2>3 DEF EventsMatch
  <1>5. CASE Continue(in) /\ ex # None /\ misaligned(in)
             /\ lsu_ready_ex_o(Wired(in)) /\ ex' = SecondPass(in)
    <2>1. ex' # None /\ ex'.misaligned = TRUE /\ ex'.alu_we = FALSE
      BY <1>5, SecondPassRegisters
    <2>2. ~(answers'[1].event)
      BY <1>3, <1>5
    <2>3. cnt_q' = 1
      BY <1>3, <1>5
    <2> QED BY <2>1, <2>2, <2>3 DEF EventsMatch
  <1>6. CASE /\ Drain(in) \/ Issue(in)
             /\ ex # None /\ ~misaligned(in) /\ lsu_ready_ex_o(Wired(in))
    <2>1. /\ ~(ex' # None /\ ex'.misaligned)
          /\ ex' # None /\ ex'.alu_we => ~ex'.insn.useincr
      BY <1>6, IssuedRegisters
    <2> QED BY <1>3, <1>6, <2>1 DEF EventsMatch
  <1>7. CASE /\ Drain(in) \/ Issue(in)
             /\ ex = None
    <2>1. /\ ~(ex' # None /\ ex'.misaligned)
          /\ ex' # None /\ ex'.alu_we => ~ex'.insn.useincr
      BY <1>7, IssuedRegisters
    <2>2. data_load_event_q' = data_load_event_q
      BY <1>1, <1>7 DEF ControlInfo, Wired
    <2> QED BY <1>1, <1>7, <2>1, <2>2, IdleCases DEF EventsMatch
  <1> QED BY <1>2, <1>4, <1>6, <1>7, <1>5, StepCases

(* The event of a load is signalled with its last answer, once             *)
(* (load_store_unit.sv:202-204).                                           *)
THEOREM EventsFinishOnce == Spec => []EventFinishes
  <1>1. Init => EventsMatch /\ EventFinishes
    BY DEF Init, LsuInit, EventsMatch, EventFinishes
  <1>2. IInv /\ EventsMatch /\ EventFinishes /\ [Next]_vars
          => EventsMatch' /\ EventFinishes'
    <2>1. ASSUME IInv, EventsMatch, NEW in \in Inputs, Cycle(in)
          PROVE  EventFinishes'
      <3>1. Answered(in) /\ Observe(in)
        BY <2>1, StepCases DEF Clock
      <3>2. /\ event'.finished = (in.rvalid /\ Head(answers).event)
            /\ event'.signalled = p_elw_finish_o(Wired(in))
        BY <3>1 DEF Observe
      <3>3. p_elw_finish_o(Wired(in)) =
              (data_load_event_q /\ in.rvalid /\ ~(ex # None /\ ex.misaligned))
        BY DEF p_elw_finish_o, Wired
      <3>4. in.rvalid => cnt_q > 0 /\ Head(answers) = answers[1]
        BY <2>1, <3>1 DEF IInv, TypeOK, CountsOutstanding, Answered
      <3> QED BY <2>1, <3>2, <3>3, <3>4 DEF EventsMatch, EventFinishes
    <2>2. ASSUME IInv, EventsMatch, NEW in \in Inputs, Cycle(in)
          PROVE  EventsMatch'
      BY <2>1, <2>2, EventsMatchStep DEF IInv
    <2>3. CASE UNCHANGED vars
      BY <2>3 DEF vars, lsuRegs, pipeRegs, envVars, EventsMatch, EventFinishes,
                  Crosses, data_addr_int, alu_result
    <2> QED BY <2>1, <2>2, <2>3 DEF Next
  <1> QED BY <1>1, <1>2, Invariant, PTL DEF Spec
------------------------------------------------------------------------------
(***************************************************************************)
(* What has been accessed, and what memory and registers hold: the unit    *)
(* implements AtomicMemory.                                                *)
(***************************************************************************)

(* Addresses wrap around at the end of the memory. *)
LEMMA Wrap ==
  ASSUME NEW a \in Addr, NEW n \in 0 .. 7
  PROVE  (a + n) % SIZE = IF a + n < SIZE THEN a + n ELSE (a + n) - SIZE
  BY SizeAssumption DEF Addr

LEMMA Distance ==
  ASSUME NEW a \in Addr, NEW b \in Addr
  PROVE  (a - b) % SIZE = IF a >= b THEN a - b ELSE (a - b) + SIZE
  BY SizeAssumption DEF Addr

(* Words do not wrap around. *)
LEMMA LastLane ==
  ASSUME NEW a \in Addr, NEW n \in Lane, (a % 4) + n < 4
  PROVE  a + n < SIZE
  BY SizeAssumption DEF Addr, Lane
------------------------------------------------------------------------------
(* The item of an instruction: its address, its size, the bytes in the     *)
(* first word and those in the next.                                       *)
EA(i) == Items!EffectiveAddress(i)
Low(i) ==
  {Items!ItemAddress(i, n) : n \in {k \in Lane : k < Size(i.type) /\ k < 4 - (EA(i) % 4)}}
High(i) ==
  {Items!ItemAddress(i, n) : n \in {k \in Lane : k < Size(i.type) /\ k >= 4 - (EA(i) % 4)}}
Spans(i) == (EA(i) % 4) + Size(i.type) > 4

LEMMA SizeIs ==
  ASSUME NEW i \in Insns
  PROVE  /\ Size(i.type) \in {1, 2, 4} /\ Items!Bytes(i.type) = Size(i.type)
         /\ i.type = "word" => Size(i.type) = 4
         /\ i.type = "half" => Size(i.type) = 2
         /\ i.type = "byte" => Size(i.type) = 1
  BY InsnTypes DEF Size, Items!Bytes

LEMMA EffectiveAddressIs ==
  ASSUME NEW i \in Insns
  PROVE  /\ EA(i) \in Addr /\ (EA(i) % 4) \in Lane
         /\ i.useincr => EA(i) = (i.base + i.offset) % SIZE
         /\ ~i.useincr => EA(i) = i.base
  <1>1. i.base \in Addr /\ i.offset \in Addr /\ i.useincr \in BOOLEAN
    BY InsnTypes
  <1>2. /\ i.useincr => EA(i) = (i.base + i.offset) % SIZE
        /\ ~i.useincr => EA(i) = i.base % SIZE
    BY DEF EA, Items!EffectiveAddress
  <1>3. i.base % SIZE = i.base
    BY <1>1, SizeAssumption DEF Addr
  <1>4. EA(i) \in Addr
    BY <1>1, <1>2, <1>3, SumIsAddress
  <1> QED BY <1>2, <1>3, <1>4, SizeAssumption DEF Addr, Lane

LEMMA ItemAddressIs ==
  ASSUME NEW i \in Insns, NEW n \in Lane
  PROVE  /\ Items!ItemAddress(i, n) \in Addr
         /\ Items!ItemAddress(i, n) =
              IF EA(i) + n < SIZE THEN EA(i) + n ELSE (EA(i) + n) - SIZE
         /\ Items!ItemAddress(i, n) % 4 = ((EA(i) % 4) + n) % 4
         /\ (Items!ItemAddress(i, n) - EA(i)) % SIZE = n
  <1> DEFINE e == EA(i)
             x == Items!ItemAddress(i, n)
  <1>1. e \in Addr /\ n \in 0 .. 7
    BY EffectiveAddressIs DEF Lane
  <1>2. x = (e + n) % SIZE
    BY DEF Items!ItemAddress, EA
  <1> HIDE DEF e, x
  <1>3. x = IF e + n < SIZE THEN e + n ELSE (e + n) - SIZE
    BY <1>1, <1>2, Wrap
  <1>4. x \in Addr
    BY <1>1, <1>3, SizeAssumption DEF Addr
  <1>5. x % 4 = ((e % 4) + n) % 4
    BY <1>1, <1>3, SizeAssumption DEF Addr
  <1>6. (x - e) % SIZE = n
    BY <1>1, <1>3, <1>4, Distance, SizeAssumption DEF Addr, Lane
  <1> QED BY <1>3, <1>4, <1>5, <1>6 DEF e, x

(* One access, or two if the item spans two words. *)
LEMMA AccessesAre ==
  ASSUME NEW i \in Insns
  PROVE  /\ ~Spans(i) => Items!Accesses(i) = << Low(i) >>
         /\ Spans(i) => Items!Accesses(i) = << Low(i), High(i) >>
  <1>1. Items!Accesses(i) =
          IF High(i) = {} THEN << Low(i) >> ELSE << Low(i), High(i) >>
    BY SizeIs DEF Items!Accesses, Low, High, EA, Items!Lane, Lane
  <1>2. High(i) # {} <=> Spans(i)
    <2>1. (EA(i) % 4) \in Lane /\ Size(i.type) \in {1, 2, 4}
      BY EffectiveAddressIs, SizeIs
    <2>2. Spans(i) => Size(i.type) - 1 \in {k \in Lane : k < Size(i.type) /\ k >= 4 - (EA(i) % 4)}
      BY <2>1 DEF Spans, Lane
    <2>3. ~Spans(i) => {k \in Lane : k < Size(i.type) /\ k >= 4 - (EA(i) % 4)} = {}
      BY <2>1 DEF Spans, Lane
    <2> QED BY <2>2, <2>3 DEF High
  <1> QED BY <1>1, <1>2
------------------------------------------------------------------------------
(* What the registers in front of the execute stage hold: the instruction  *)
(* as it was decoded, or its second pass, at the address behind the first. *)
InsnInExecute ==
  ex # None =>
    /\ ~ex.misaligned => ex = Decoded(ex.insn)
    /\ ex.misaligned =>
         /\ ex.useincr = TRUE /\ ex.alu_we = FALSE
         /\ alu_result = (EA(ex.insn) + 4) % SIZE
         /\ Spans(ex.insn)

LEMMA AddressOfPass ==
  ASSUME TypeOK, InsnInExecute, ex # None
  PROVE  /\ ~ex.misaligned => data_addr_int = EA(ex.insn)
         /\ ex.misaligned =>
              data_addr_int = IF EA(ex.insn) + 4 < SIZE
                                THEN EA(ex.insn) + 4 ELSE (EA(ex.insn) + 4) - SIZE
         /\ Offset(data_addr_int) = EA(ex.insn) % 4
  <1>1. ex.insn \in Insns
    BY ExecuteTypes
  <1>2. CASE ~ex.misaligned
    <2>1. /\ ex.a = ex.insn.base /\ ex.b = ex.insn.offset
          /\ ex.useincr = ex.insn.useincr
      BY <1>2 DEF InsnInExecute, Decoded
    <2>2. data_addr_int = EA(ex.insn)
      BY <1>1, <2>1, EffectiveAddressIs, InsnTypes DEF data_addr_int, alu_result
    <2> QED BY <1>2, <2>2 DEF Offset
  <1>3. CASE ex.misaligned
    <2>1. data_addr_int = (EA(ex.insn) + 4) % SIZE
      BY <1>3 DEF InsnInExecute, data_addr_int
    <2>2. EA(ex.insn) \in Addr
      BY <1>1, EffectiveAddressIs
    <2>3. data_addr_int = IF EA(ex.insn) + 4 < SIZE
                            THEN EA(ex.insn) + 4 ELSE (EA(ex.insn) + 4) - SIZE
      BY <2>1, <2>2, Wrap
    <2>4. Offset(data_addr_int) = EA(ex.insn) % 4
      BY <2>2, <2>3, SizeAssumption DEF Offset, Addr
    <2> QED BY <1>3, <2>3, <2>4
  <1> QED BY <1>2, <1>3

(* The unit sees that the item spans two words. *)
LEMMA MisalignedIs ==
  ASSUME TypeOK, InsnInExecute, ex # None, NEW in
  PROVE  misaligned(in) <=> ~ex.misaligned /\ Spans(ex.insn)
  <1>1. /\ ex.insn \in Insns /\ ex.insn.type \in {"word", "half", "byte"}
        /\ EA(ex.insn) % 4 \in Lane
    BY ExecuteTypes, InsnTypes, EffectiveAddressIs
  <1>2. Spans(ex.insn) <=>
          \/ ex.insn.type = "word" /\ EA(ex.insn) % 4 # 0
          \/ ex.insn.type = "half" /\ EA(ex.insn) % 4 = 3
    BY <1>1, SizeIs DEF Spans, Lane
  <1>3. Offset(data_addr_int) = EA(ex.insn) % 4
    BY AddressOfPass
  <1> QED BY <1>2, <1>3, CrossesIs DEF Crosses

(* The bytes of the pass that is in the execute stage. *)
Pass == IF ex.misaligned THEN High(ex.insn) ELSE Low(ex.insn)

LEMMA TouchedIs ==
  ASSUME TypeOK, InsnInExecute, ex # None, NEW in \in Inputs, Answered(in)
  PROVE  Touched(in) = Pass
  <1> DEFINE i == ex.insn
             e == EA(i)
             o == e % 4
             s == Size(i.type)
             A == data_addr_int
  <1>1. i \in Insns /\ ex.misaligned \in BOOLEAN
    BY ExecuteTypes
  <1>2. e \in Addr /\ o \in Lane /\ s \in {1, 2, 4} /\ o = e % 4
    BY <1>1, EffectiveAddressIs, SizeIs
  <1>3. /\ A \in Addr /\ Offset(A) = o
        /\ ~ex.misaligned => A = e
        /\ ex.misaligned => A = IF e + 4 < SIZE THEN e + 4 ELSE (e + 4) - SIZE
        /\ ex.misaligned => o + s > 4
    BY AddressOfPass, ExecuteTypes DEF InsnInExecute, Spans
  <1>4. word_address(in) = A - o
    BY <1>3, WordAddress
  <1>5. data_be(Wired(in)) =
          IF ex.misaligned THEN 0 .. (o + s - 1) - 4 ELSE Lane \cap (o .. o + s - 1)
    <2>1. /\ Wired(in).misaligned = ex.misaligned
          /\ Wired(in).addr = A /\ Wired(in).type = i.type
      BY <1>1 DEF Wired
    <2> QED BY <1>3, <2>1 DEF data_be
  <1>6. Touched(in) = {(A - o) + l : l \in data_be(Wired(in))}
    BY <1>4 DEF Touched
  <1>7. \A n \in Lane : Items!ItemAddress(i, n) =
                          IF e + n < SIZE THEN e + n ELSE (e + n) - SIZE
    BY <1>1, ItemAddressIs
  <1>8. /\ Low(i) = {Items!ItemAddress(i, n) : n \in {k \in Lane : k < s /\ k < 4 - o}}
        /\ High(i) = {Items!ItemAddress(i, n) : n \in {k \in Lane : k < s /\ k >= 4 - o}}
    BY DEF Low, High
  <1> HIDE DEF i, e, o, s, A
  <1>9. CASE ~ex.misaligned
    <2>1. Touched(in) = {(e - o) + l : l \in Lane \cap (o .. o + s - 1)}
      BY <1>3, <1>5, <1>6, <1>9
    <2>2. \A n \in Lane : n < 4 - o => Items!ItemAddress(i, n) = (e - o) + (o + n)
      <3>1. ASSUME NEW n \in Lane, n < 4 - o PROVE e + n < SIZE
        <4>1. (e % 4) + n < 4
          BY <1>2, <3>1 DEF Lane
        <4> QED BY <1>2, <4>1, LastLane
      <3> QED BY <1>2, <1>7, <3>1 DEF Lane, Addr
    <2>3. ASSUME NEW x \in Touched(in)
          PROVE  x \in Low(i)
      <3>1. PICK l \in Lane \cap (o .. o + s - 1) : x = (e - o) + l
        BY <2>1
      <3>2. /\ l \in 0 .. 3 /\ o \in 0 .. 3 /\ s \in {1, 2, 4}
            /\ l >= o /\ l <= o + s - 1
        BY <1>2, <3>1 DEF Lane
      <3>3. l - o \in Lane /\ l - o < s /\ l - o < 4 - o /\ o + (l - o) = l
        BY <3>2 DEF Lane
      <3>4. l - o \in {k \in Lane : k < s /\ k < 4 - o}
        BY <3>3
      <3>5. x = Items!ItemAddress(i, l - o)
        BY <2>2, <3>1, <3>3
      <3> QED BY <1>8, <3>5, <3>4
    <2>4. ASSUME NEW x \in Low(i)
          PROVE  x \in Touched(in)
      <3>1. PICK n \in {k \in Lane : k < s /\ k < 4 - o} : x = Items!ItemAddress(i, n)
        BY <1>8
      <3>2. o + n \in Lane \cap (o .. o + s - 1)
        BY <1>2, <3>1 DEF Lane
      <3>3. x = (e - o) + (o + n)
        BY <2>2, <3>1
      <3> QED BY <2>1, <3>2, <3>3
    <2> QED BY <1>9, <2>3, <2>4 DEF Pass, i
  <1>10. CASE ex.misaligned
    <2>1. Touched(in) = {(A - o) + l : l \in 0 .. (o + s - 1) - 4}
      BY <1>5, <1>6, <1>10
    <2>2. \A n \in Lane : n >= 4 - o => Items!ItemAddress(i, n) = (A - o) + ((o + n) - 4)
      <3>1. PICK k \in Nat : SIZE = 4 * k
        BY SizeAssumption
      <3>2. e + 4 < SIZE => \A n \in Lane : e + n < SIZE
        BY <1>2, SizeAssumption DEF Lane, Addr
      <3>3. e + 4 >= SIZE => \A n \in Lane : n >= 4 - o => e + n >= SIZE
        BY <1>2, <3>1 DEF Lane, Addr
      <3> QED BY <1>2, <1>3, <1>7, <1>10, <3>2, <3>3, SizeAssumption DEF Lane, Addr
    <2>3. ASSUME NEW x \in Touched(in)
          PROVE  x \in High(i)
      <3>1. PICK l \in 0 .. (o + s - 1) - 4 : x = (A - o) + l
        BY <2>1
      <3>2. /\ (l + 4) - o \in {k \in Lane : k < s /\ k >= 4 - o}
            /\ (o + ((l + 4) - o)) - 4 = l
        BY <1>2, <3>1 DEF Lane
      <3>3. x = Items!ItemAddress(i, (l + 4) - o)
        BY <2>2, <3>1, <3>2
      <3> QED BY <1>8, <3>2, <3>3
    <2>4. ASSUME NEW x \in High(i)
          PROVE  x \in Touched(in)
      <3>1. PICK n \in {k \in Lane : k < s /\ k >= 4 - o} : x = Items!ItemAddress(i, n)
        BY <1>8
      <3>2. (o + n) - 4 \in 0 .. (o + s - 1) - 4
        BY <1>2, <3>1 DEF Lane
      <3>3. x = (A - o) + ((o + n) - 4)
        BY <2>2, <3>1
      <3> QED BY <2>1, <3>2, <3>3
    <2> QED BY <1>10, <2>3, <2>4 DEF Pass, i
  <1> QED BY <1>1, <1>9, <1>10
------------------------------------------------------------------------------
(* The bytes accessed so far are those of the first pass, once it is over, *)
(* and those of this pass, once its request is accepted: its transaction   *)
(* is then the second of two.                                              *)
Before == IF ex.misaligned THEN << Low(ex.insn) >> ELSE << >>

PartsExact ==
  ex # None => parts = IF cnt_q = 2 THEN Append(Before, Pass) ELSE Before

LEMMA SecondPassIs ==
  ASSUME FPU = FALSE, TypeOK, InsnInExecute, ex # None,
         NEW in \in Inputs, misaligned(in)
  PROVE  /\ SecondPass(in).insn = ex.insn /\ SecondPass(in).misaligned = TRUE
         /\ SecondPass(in).useincr = TRUE /\ SecondPass(in).alu_we = FALSE
         /\ SecondPass(in).a = EA(ex.insn) /\ SecondPass(in).b = 4
         /\ ~ex.misaligned /\ Spans(ex.insn)
  <1>1. ex \in ExecuteRegisters
    BY ExecuteTypes
  <1>2. ~ex.misaligned /\ Spans(ex.insn)
    BY MisalignedIs
  <1>3. data_addr_int = EA(ex.insn)
    BY <1>2, AddressOfPass
  <1>4. regfile_alu_wdata_fw(in) = alu_result
    BY NoFpuResult DEF regfile_alu_wdata_fw
  <1>5. (IF ex.useincr THEN regfile_alu_wdata_fw(in) ELSE ex.a) = EA(ex.insn)
    BY <1>3, <1>4 DEF data_addr_int
  <1> QED BY <1>1, <1>2, <1>5 DEF SecondPass, ExecuteRegisters

LEMMA DecodedRegisters ==
  ASSUME NEW i \in Insns
  PROVE  /\ Decoded(i) \in ExecuteRegisters /\ Decoded(i) # None
         /\ Decoded(i).insn = i /\ Decoded(i).misaligned = FALSE
  <1>1. Decoded(i) \in ExecuteRegisters
    BY InsnTypes DEF Decoded, ExecuteRegisters
  <1> QED BY <1>1, NoneAssumption DEF Decoded

LEMMA InsnInExecuteStep ==
  ASSUME FPU = FALSE, TypeOK, InsnInExecute, NEW in \in Inputs, Cycle(in)
  PROVE  InsnInExecute'
  <1>1. CASE Stall(in)
    BY <1>1 DEF Stall, InsnInExecute, alu_result
  <1>2. CASE Continue(in) /\ ex # None /\ misaligned(in) /\ ex' = SecondPass(in)
    <2>1. /\ ex'.insn = ex.insn /\ ex'.misaligned = TRUE /\ ex'.useincr = TRUE
          /\ ex'.alu_we = FALSE /\ ex'.a = EA(ex.insn) /\ ex'.b = 4
          /\ Spans(ex.insn)
      BY <1>2, SecondPassIs
    <2> QED BY <2>1 DEF InsnInExecute, alu_result
  <1>3. CASE Drain(in)
    BY <1>3 DEF Drain, InsnInExecute
  <1>4. CASE Issue(in)
    <2>1. ex' = Decoded(in.next) /\ ex'.insn = in.next /\ ~ex'.misaligned
      BY <1>4 DEF Issue, Decoded
    <2> QED BY <2>1 DEF InsnInExecute
  <1> QED BY <1>1, <1>2, <1>3, <1>4, StepCases

LEMMA AccessesNowAre ==
  ASSUME TypeOK, CountsOutstanding, InsnInExecute, PartsExact, ex # None,
         NEW in \in Inputs, Answered(in)
  PROVE  /\ Accepted(in) => AccessesNow(in) = Append(Before, Pass)
         /\ ~Accepted(in) => AccessesNow(in) = parts
  <1>1. CASE Accepted(in)
    <2>1. cnt_q # 2
      BY <1>1, AcceptedRequest DEF TypeOK, LsuTypeOK, DEPTH
    <2>2. parts = Before
      BY <2>1 DEF PartsExact
    <2>3. Len(Before) < MAX_PARTS
      BY DEF Before, MAX_PARTS
    <2>4. Touched(in) = Pass
      BY TouchedIs
    <2> QED BY <1>1, <2>2, <2>3, <2>4 DEF AccessesNow
  <1>2. CASE ~Accepted(in)
    BY <1>2 DEF AccessesNow
  <1> QED BY <1>1, <1>2

(* An instruction that is done with a pass has made its access. *)
LEMMA AccessesOfPass ==
  ASSUME TypeOK, CountsOutstanding, InsnInExecute, PartsExact, ex # None,
         NEW in \in Inputs, Answered(in), Clock(in), lsu_ready_ex_o(Wired(in))
  PROVE  AccessesNow(in) = Append(Before, Pass)
  <1>1. Accepted(in) \/ cnt_q = 2
    BY MoveCases
  <1>2. cnt_q = 2 => parts = Append(Before, Pass)
    BY DEF PartsExact
  <1> QED BY <1>1, <1>2, AccessesNowAre

LEMMA AccessesOfItem ==
  ASSUME TypeOK, InsnInExecute, ex # None, NEW in \in Inputs, ~misaligned(in)
  PROVE  Append(Before, Pass) = Items!Accesses(ex.insn)
  <1>1. ex.insn \in Insns
    BY ExecuteTypes
  <1>2. CASE ex.misaligned
    <2>1. Spans(ex.insn)
      BY <1>2 DEF InsnInExecute
    <2> QED BY <1>1, <1>2, <2>1, AccessesAre DEF Before, Pass
  <1>3. CASE ~ex.misaligned
    <2>1. ~Spans(ex.insn)
      BY <1>3, MisalignedIs
    <2> QED BY <1>1, <1>3, <2>1, AccessesAre DEF Before, Pass
  <1> QED BY <1>2, <1>3

(* At most one transaction is left behind. *)
LEMMA LeavesOne ==
  ASSUME TypeOK, CountsOutstanding, NEW in \in Inputs, Answered(in), Clock(in),
         CanLeave(in)
  PROVE  cnt_q' < 2
  <1>1. CASE ex = None
    BY <1>1, IdleCases
  <1>2. CASE ex # None
    BY <1>2, MoveCases DEF CanLeave, ex_ready_o
  <1> QED BY <1>1, <1>2

LEMMA PartsStep ==
  ASSUME FPU = FALSE, TypeOK, CountsOutstanding, InsnInExecute, PartsExact,
         AccessesExact, NEW in \in Inputs, Cycle(in)
  PROVE  PartsExact' /\ AccessesExact'
  <1>1. Answered(in) /\ Clock(in)
    BY StepCases
  <1>2. CASE Stall(in)
    <2>1. ~lsu_ready_ex_o(Wired(in))
      BY <1>1, <1>2, StallCases, NoFpuResult
    <2>2. /\ ex # None /\ ex' = ex
          /\ Accepted(in) => cnt_q' = 2
          /\ ~Accepted(in) => (cnt_q' = 2 <=> cnt_q = 2)
      BY <1>1, <1>2, <2>1, WaitCases
    <2>3. parts' = AccessesNow(in) /\ left' = left
      BY <1>2 DEF Stall
    <2>4. /\ Accepted(in) => parts' = Append(Before, Pass)
          /\ ~Accepted(in) => parts' = parts
      BY <1>1, <2>2, <2>3, AccessesNowAre
    <2>5. Before' = Before /\ Pass' = Pass
      BY <2>2 DEF Before, Pass
    <2>6. PartsExact'
      BY <2>2, <2>4, <2>5 DEF PartsExact
    <2> QED BY <2>3, <2>6 DEF AccessesExact
  <1>3. CASE Continue(in) /\ ex # None /\ misaligned(in)
             /\ lsu_ready_ex_o(Wired(in)) /\ ex' = SecondPass(in)
    <2>1. ex'.insn = ex.insn /\ ex'.misaligned = TRUE /\ ~ex.misaligned
      BY <1>3, SecondPassIs
    <2>2. parts' = Append(Before, Pass) /\ left' = left /\ cnt_q' = 1
      BY <1>1, <1>3, AccessesOfPass, MoveCases DEF Continue
    <2>3. Append(Before, Pass) = Before'
      BY <2>1 DEF Before, Pass
    <2> QED BY <2>2, <2>3 DEF PartsExact, AccessesExact
  <1>4. CASE Drain(in) \/ Issue(in)
    <2>1. parts' = << >> /\ ~(ex' # None /\ ex'.misaligned)
      BY <1>4, IssuedRegisters DEF Drain, Issue, Leave
    <2>2. cnt_q' < 2
      BY <1>1, <1>4, LeavesOne DEF Drain, Issue
    <2>3. PartsExact'
      BY <2>1, <2>2 DEF PartsExact, Before
    <2>4. CASE ex = None
      <3>1. left' = left
        BY <1>4, <2>4 DEF Drain, Issue, Leave
      <3> QED BY <2>3, <3>1 DEF AccessesExact
    <2>5. CASE ex # None
      <3>1. /\ left' = [insn |-> ex.insn, parts |-> AccessesNow(in)]
            /\ ex_ready_o(in) /\ ~misaligned(in)
        BY <1>4, <2>5 DEF Drain, Issue, Leave, CanLeave
      <3>2. AccessesNow(in) = Items!Accesses(ex.insn)
        BY <1>1, <2>5, <3>1, AccessesOfPass, AccessesOfItem DEF ex_ready_o
      <3> QED BY <2>3, <3>1, <3>2 DEF AccessesExact
    <2> QED BY <2>4, <2>5
  <1> QED BY <1>2, <1>3, <1>4, StepCases

(* The invariant of the items.  Only without an FPU does it survive every  *)
(* step: a result of the FPU can take the write port from an access.       *)
ItemInv == IInv /\ InsnInExecute /\ PartsExact /\ AccessesExact

LEMMA ItemInvariant ==
  ASSUME FPU = FALSE
  PROVE  Spec => []ItemInv
  <1>1. Init => InsnInExecute /\ PartsExact /\ AccessesExact
    BY DEF Init, InsnInExecute, PartsExact, AccessesExact
  <1>2. IInv /\ InsnInExecute /\ PartsExact /\ AccessesExact /\ [Next]_vars
          => InsnInExecute' /\ PartsExact' /\ AccessesExact'
    <2>1. ASSUME IInv, InsnInExecute, PartsExact, AccessesExact,
                 NEW in \in Inputs, Cycle(in)
          PROVE  InsnInExecute' /\ PartsExact' /\ AccessesExact'
      BY <2>1, InsnInExecuteStep, PartsStep DEF IInv
    <2>2. CASE UNCHANGED vars
      BY <2>2 DEF vars, lsuRegs, pipeRegs, envVars, InsnInExecute, PartsExact,
                  AccessesExact, Before, Pass, alu_result
    <2> QED BY <2>1, <2>2 DEF Next
  <1> QED BY <1>1, <1>2, Invariant, PTL DEF Spec, ItemInv

(* Every instruction that has left made exactly the accesses of its item,  *)
(* the lower address first, none of them twice.                            *)
THEOREM AccessesAreExact ==
  ASSUME FPU = FALSE
  PROVE  Spec => []AccessesExact
  <1>1. ItemInv => AccessesExact
    BY DEF ItemInv
  <1> QED BY <1>1, ItemInvariant, PTL
------------------------------------------------------------------------------
(* The byte of the item that lies at an address. *)
Nth(i, a) == (a - EA(i)) % SIZE

LEMMA StoreIs ==
  ASSUME NEW i \in Insns, NEW m
  PROVE  /\ DOMAIN Items!Store(m, i) = Addr
         /\ Items!Store(m, i) = [a \in Addr |-> Items!Store(m, i)[a]]
         /\ \A a \in Addr : Items!Store(m, i)[a] =
              IF Nth(i, a) < Size(i.type) THEN i.wdata[Nth(i, a)] ELSE m[a]
  BY SizeIs DEF Items!Store, Nth, EA, Addr

LEMMA InPass ==
  ASSUME NEW i \in Insns, NEW x \in Low(i) \cup High(i)
  PROVE  /\ x \in Addr /\ Nth(i, x) \in Lane /\ Nth(i, x) < Size(i.type)
         /\ x = Items!ItemAddress(i, Nth(i, x))
         /\ ((x % 4) - (EA(i) % 4)) % 4 = Nth(i, x)
         /\ x \in Low(i) <=> Nth(i, x) < 4 - (EA(i) % 4)
  <1>1. PICK n \in Lane : n < Size(i.type) /\ x = Items!ItemAddress(i, n)
    BY DEF Low, High
  <1>2. x \in Addr /\ Nth(i, x) = n /\ x % 4 = ((EA(i) % 4) + n) % 4
    BY <1>1, ItemAddressIs DEF Nth
  <1>3. EA(i) % 4 \in Lane
    BY EffectiveAddressIs
  <1>4. ((x % 4) - (EA(i) % 4)) % 4 = n
    BY <1>2, <1>3 DEF Lane
  <1>5. n < 4 - (EA(i) % 4) => x \in Low(i)
    BY <1>1, <1>3 DEF Low
  <1>6. ASSUME x \in Low(i)
        PROVE  n < 4 - (EA(i) % 4)
    <2>1. PICK k \in Lane : k < 4 - (EA(i) % 4) /\ x = Items!ItemAddress(i, k)
      BY <1>6 DEF Low
    <2>2. k = n
      BY <1>2, <2>1, ItemAddressIs DEF Nth
    <2> QED BY <2>1, <2>2
  <1> QED BY <1>1, <1>2, <1>4, <1>5, <1>6

LEMMA PassCovers ==
  ASSUME NEW i \in Insns, NEW x \in Addr, Nth(i, x) < Size(i.type)
  PROVE  /\ x \in Low(i) \cup High(i)
         /\ ~Spans(i) => x \in Low(i)
  <1> DEFINE e == EA(i)
             n == Nth(i, x)
  <1>1. e \in Addr /\ e % 4 \in Lane /\ Size(i.type) \in {1, 2, 4}
    BY EffectiveAddressIs, SizeIs
  <1>2. n = IF x >= e THEN x - e ELSE (x - e) + SIZE
    BY <1>1, Distance DEF Nth
  <1>3. n \in Lane /\ n < Size(i.type)
    BY <1>1, <1>2, SizeAssumption DEF Lane, Addr
  <1>4. x = Items!ItemAddress(i, n)
    <2>1. Items!ItemAddress(i, n) = IF e + n < SIZE THEN e + n ELSE (e + n) - SIZE
      BY <1>3, ItemAddressIs
    <2> HIDE DEF e, n
    <2> QED BY <1>1, <1>2, <2>1, SizeAssumption DEF Addr
  <1>5. n < 4 - (e % 4) \/ n >= 4 - (e % 4)
    BY <1>1, <1>3 DEF Lane
  <1>6. ~Spans(i) => n < 4 - (e % 4)
    BY <1>1, <1>3 DEF Spans, Lane
  <1> QED BY <1>3, <1>4, <1>5, <1>6 DEF Low, High
------------------------------------------------------------------------------
(* The bytes of the item that were accessed already. *)
Made ==
  (IF ex.misaligned THEN Low(ex.insn) ELSE {}) \cup (IF cnt_q = 2 THEN Pass ELSE {})

Written ==
  ex # None /\ ex.insn.we => \A x \in Made : mem[x] = Items!Store(mem, ex.insn)[x]

(* What one cycle does to the memory. *)
LEMMA MemoryBytes ==
  ASSUME TypeOK, InsnInExecute, NEW in \in Inputs, Answered(in), Memory(in)
  PROVE  /\ mem' = [a \in Addr |-> mem'[a]]
         /\ ~(Accepted(in) /\ ex.insn.we) => mem' = mem
         /\ Accepted(in) /\ ex.insn.we =>
              /\ \A x \in Addr \ Pass : mem'[x] = mem[x]
              /\ \A x \in Pass : mem'[x] = Items!Store(mem, ex.insn)[x]
  <1> DEFINE i == ex.insn
  <1>1. CASE ~(Accepted(in) /\ ex.insn.we)
    BY <1>1 DEF Memory, TypeOK
  <1>2. CASE Accepted(in) /\ ex.insn.we
    <2>1. ex # None /\ i \in Insns
      BY <1>2, AcceptedRequest, ExecuteTypes
    <2>2. Touched(in) = Pass
      BY <2>1, TouchedIs
    <2>3. mem' = [a \in Addr |-> IF a \in Pass THEN data_wdata(Wired(in))[a % 4] ELSE mem[a]]
      BY <1>2, <2>2 DEF Memory
    <2>4. ASSUME NEW x \in Pass
          PROVE  x \in Addr /\ data_wdata(Wired(in))[x % 4] = Items!Store(mem, i)[x]
      <3>1. /\ x \in Addr /\ Nth(i, x) \in Lane /\ Nth(i, x) < Size(i.type)
            /\ ((x % 4) - (EA(i) % 4)) % 4 = Nth(i, x)
        BY <2>1, <2>4, InPass DEF Pass
      <3>2. Offset(Wired(in).addr) = EA(i) % 4 /\ Wired(in).wdata = i.wdata
        BY <2>1, AddressOfPass DEF Wired
      <3>3. x % 4 \in Lane
        BY <3>1, SizeAssumption DEF Addr, Lane
      <3>4. data_wdata(Wired(in))[x % 4] = i.wdata[Nth(i, x)]
        BY <3>1, <3>2, <3>3 DEF data_wdata
      <3> QED BY <2>1, <3>1, <3>4, StoreIs
    <2> QED BY <1>2, <2>3, <2>4
  <1> QED BY <1>1, <1>2

(* The store in the execute stage will leave the same memory as before.    *)
LEMMA StoreContinues ==
  ASSUME TypeOK, InsnInExecute, ex # None, NEW in \in Inputs, Answered(in), Memory(in)
  PROVE  /\ Items!MemoryAfter(mem', ex.insn) = Items!MemoryAfter(mem, ex.insn)
         /\ ex.insn.we => Items!Store(mem', ex.insn) = Items!Store(mem, ex.insn)
  <1> DEFINE i == ex.insn
  <1>1. i \in Insns /\ i.we \in BOOLEAN
    BY ExecuteTypes, InsnTypes
  <1>2. CASE i.we
    <2>1. ASSUME NEW a \in Addr
          PROVE  Items!Store(mem', i)[a] = Items!Store(mem, i)[a]
      <3>1. CASE Nth(i, a) < Size(i.type)
        BY <1>1, <3>1, StoreIs
      <3>2. CASE ~(Nth(i, a) < Size(i.type))
        <4>1. a \notin Pass
          BY <1>1, <3>2, InPass DEF Pass
        <4>2. mem'[a] = mem[a]
          BY <4>1, MemoryBytes
        <4> QED BY <1>1, <3>2, <4>2, StoreIs
      <3> QED BY <3>1, <3>2
    <2>2. Items!Store(mem', i) = Items!Store(mem, i)
      <3>1. /\ Items!Store(mem', i) = [a \in Addr |-> Items!Store(mem', i)[a]]
            /\ Items!Store(mem, i) = [a \in Addr |-> Items!Store(mem, i)[a]]
        BY <1>1, StoreIs
      <3> QED BY <2>1, <3>1
    <2> QED BY <1>2, <2>2 DEF Items!MemoryAfter
  <1>3. CASE ~i.we
    BY <1>3, MemoryBytes DEF Items!MemoryAfter
  <1> QED BY <1>2, <1>3

(* Once a pass is done its bytes are written, and those of the one before. *)
LEMMA PassIsWritten ==
  ASSUME TypeOK, CountsOutstanding, InsnInExecute, Written, ex # None, ex.insn.we,
         NEW in \in Inputs, Answered(in), Memory(in),
         Accepted(in) \/ cnt_q = 2
  PROVE  \A x \in Made \cup Pass : mem'[x] = Items!Store(mem', ex.insn)[x]
  <1>1. ex.insn \in Insns /\ Made \cup Pass \subseteq Addr
    <2>1. ex.insn \in Insns
      BY ExecuteTypes
    <2>2. Low(ex.insn) \subseteq Addr /\ High(ex.insn) \subseteq Addr
      BY <2>1, InPass
    <2> QED BY <2>1, <2>2 DEF Made, Pass
  <1>2. Items!Store(mem', ex.insn) = Items!Store(mem, ex.insn)
    BY StoreContinues
  <1>3. CASE Accepted(in)
    BY <1>1, <1>2, <1>3, MemoryBytes DEF Written
  <1>4. CASE ~Accepted(in)
    <2>1. Pass \subseteq Made /\ mem' = mem
      BY <1>4, MemoryBytes DEF Made
    <2> QED BY <1>2, <2>1 DEF Written
  <1> QED BY <1>3, <1>4

(* An instruction that leaves has completed its access of the memory.      *)
LEMMA LeavesCompleted ==
  ASSUME FPU = FALSE, TypeOK, CountsOutstanding, InsnInExecute, Written,
         NEW in \in Inputs, Answered(in), Clock(in), CanLeave(in)
  PROVE  mem' = Completed
  <1>1. Memory(in)
    BY DEF Clock
  <1>2. CASE ex = None
    BY <1>1, <1>2, IdleCases, MemoryBytes DEF Completed
  <1>3. CASE ex # None /\ ~ex.insn.we
    BY <1>1, <1>3, MemoryBytes DEF Completed, Items!MemoryAfter
  <1>4. CASE ex # None /\ ex.insn.we
    <2> DEFINE i == ex.insn
    <2>1. i \in Insns /\ lsu_ready_ex_o(Wired(in)) /\ ~misaligned(in)
      BY <1>4, ExecuteTypes DEF CanLeave, ex_ready_o
    <2>2. Accepted(in) \/ cnt_q = 2
      BY <1>4, <2>1, MoveCases
    <2>3. \A x \in Made \cup Pass : mem'[x] = Items!Store(mem', i)[x]
      BY <1>1, <1>4, <2>2, PassIsWritten
    <2>4. ASSUME NEW a \in Addr
          PROVE  mem'[a] = Items!Store(mem', i)[a]
      <3>1. CASE Nth(i, a) < Size(i.type)
        <4>1. a \in Made \cup Pass
          <5>1. CASE ex.misaligned
            BY <2>1, <3>1, <5>1, PassCovers DEF Made, Pass
          <5>2. CASE ~ex.misaligned
            <6>1. ~Spans(i)
              BY <1>4, <2>1, <5>2, MisalignedIs
            <6> QED BY <2>1, <3>1, <5>2, <6>1, PassCovers DEF Pass
          <5> QED BY <5>1, <5>2
        <4> QED BY <2>3, <4>1
      <3>2. CASE ~(Nth(i, a) < Size(i.type))
        BY <2>1, <3>2, StoreIs
      <3> QED BY <3>1, <3>2
    <2>5. mem' = [a \in Addr |-> mem'[a]]
      BY <1>1, MemoryBytes
    <2>6. Items!Store(mem', i) = [a \in Addr |-> Items!Store(mem', i)[a]]
      BY <2>1, StoreIs
    <2>7. mem' = Items!Store(mem', i)
      BY <2>4, <2>5, <2>6
    <2>8. Items!Store(mem', i) = Items!Store(mem, i)
      BY <1>1, <1>4, StoreContinues
    <2> QED BY <1>4, <2>7, <2>8 DEF Completed, Items!MemoryAfter
  <1> QED BY <1>2, <1>3, <1>4

LEMMA WrittenStep ==
  ASSUME FPU = FALSE, TypeOK, CountsOutstanding, InsnInExecute, Written,
         NEW in \in Inputs, Cycle(in)
  PROVE  Written'
  <1>1. Answered(in) /\ Clock(in) /\ Memory(in)
    BY StepCases DEF Clock
  <1>2. CASE Stall(in)
    <2> ~lsu_ready_ex_o(Wired(in))
      BY <1>1, <1>2, StallCases, NoFpuResult
    <2>1. /\ ex # None /\ ex' = ex
          /\ Accepted(in) => cnt_q' = 2
          /\ ~Accepted(in) => (cnt_q' = 2 <=> cnt_q = 2)
      BY <1>1, <1>2, WaitCases
    <2>2. CASE Accepted(in) /\ ex.insn.we
      <3>1. \A x \in Made \cup Pass : mem'[x] = Items!Store(mem', ex.insn)[x]
        BY <1>1, <2>1, <2>2, PassIsWritten
      <3>2. Made' \subseteq Made \cup Pass
        BY <2>1 DEF Made, Pass
      <3> QED BY <2>1, <3>1, <3>2 DEF Written
    <2>3. CASE ~(Accepted(in) /\ ex.insn.we)
      <3>1. mem' = mem
        BY <1>1, <2>3, MemoryBytes
      <3>2. ex.insn.we => Made' = Made
        BY <2>1, <2>3 DEF Made, Pass
      <3> QED BY <2>1, <3>1, <3>2 DEF Written
    <2> QED BY <2>2, <2>3
  <1>3. CASE Continue(in) /\ ex # None /\ misaligned(in)
             /\ lsu_ready_ex_o(Wired(in)) /\ ex' = SecondPass(in)
    <2>1. ex'.insn = ex.insn /\ ex'.misaligned = TRUE /\ ~ex.misaligned
      BY <1>3, SecondPassIs
    <2>2. cnt_q' = 1 /\ (Accepted(in) \/ cnt_q = 2)
      BY <1>1, <1>3, MoveCases
    <2>3. Made' = Pass
      BY <2>1, <2>2 DEF Made, Pass
    <2>4. ex.insn.we => \A x \in Pass : mem'[x] = Items!Store(mem', ex.insn)[x]
      BY <1>1, <1>3, <2>2, PassIsWritten
    <2> QED BY <2>1, <2>3, <2>4 DEF Written
  <1>4. CASE Drain(in) \/ Issue(in)
    <2>1. ~(ex' # None /\ ex'.misaligned)
      BY <1>4, IssuedRegisters
    <2>2. cnt_q' < 2
      BY <1>1, <1>4, LeavesOne DEF Drain, Issue
    <2> QED BY <2>1, <2>2 DEF Written, Made
  <1> QED BY <1>2, <1>3, <1>4, StepCases
------------------------------------------------------------------------------
(* The two instances of MemoryItems agree. *)
LEMMA SameItems ==
  ASSUME NEW m, NEW r, NEW p, NEW i
  PROVE  /\ AtomicMemory!MemoryAfter(m, i) = Items!MemoryAfter(m, i)
         /\ AtomicMemory!RegsAfter(m, r, i) = Items!RegsAfter(m, r, i)
         /\ AtomicMemory!PointerAfter(p, i) = Items!PointerAfter(p, i)
  <1>1. /\ AtomicMemory!Bytes(i.type) = Items!Bytes(i.type)
        /\ AtomicMemory!EffectiveAddress(i) = Items!EffectiveAddress(i)
        /\ \A n : AtomicMemory!ItemAddress(i, n) = Items!ItemAddress(i, n)
    BY DEF AtomicMemory!Bytes, Items!Bytes, AtomicMemory!EffectiveAddress,
           Items!EffectiveAddress, AtomicMemory!ItemAddress, Items!ItemAddress
  <1>2. AtomicMemory!Store(m, i) = Items!Store(m, i)
    BY <1>1 DEF AtomicMemory!Store, Items!Store
  <1>3. AtomicMemory!Load(m, i) = Items!Load(m, i)
    BY <1>1 DEF AtomicMemory!Load, Items!Load, AtomicMemory!Lane, Items!Lane
  <1> QED BY <1>2, <1>3
          DEF AtomicMemory!MemoryAfter, Items!MemoryAfter, AtomicMemory!RegsAfter,
              Items!RegsAfter, AtomicMemory!PointerAfter, Items!PointerAfter

(* Each cycle is the issued instruction in the atomic memory, or nothing.  *)
LEMMA MemoryStep ==
  ASSUME FPU = FALSE, TypeOK, CountsOutstanding, InsnInExecute, Written,
         NEW in \in Inputs, Cycle(in)
  PROVE  [AtomicMemory!Next]_<< Completed, promise.regs, promise.pointer >>
  <1>1. Answered(in) /\ Clock(in) /\ Memory(in)
    BY StepCases DEF Clock
  <1>2. CASE ex # None /\ ex' # None /\ ex'.insn = ex.insn /\ promise' = promise
    <2>1. Completed' = Completed
      BY <1>1, <1>2, StoreContinues DEF Completed
    <2> QED BY <1>2, <2>1
  <1>3. CASE Stall(in)
    BY <1>2, <1>3 DEF Stall
  <1>4. CASE Continue(in) /\ ex # None /\ misaligned(in) /\ ex' = SecondPass(in)
    BY <1>2, <1>4, SecondPassIs, SecondPassRegisters DEF Continue
  <1>5. CASE Drain(in)
    <2>1. ex' = None /\ mem' = Completed /\ promise' = promise
      BY <1>1, <1>5, LeavesCompleted DEF Drain
    <2> QED BY <2>1 DEF Completed
  <1>6. CASE Issue(in)
    <2>1. mem' = Completed /\ in.next \in Insns
      BY <1>1, <1>6, LeavesCompleted, InputTypes DEF Issue
    <2>2. /\ ex' # None /\ ex'.insn = in.next
          /\ promise' = [regs |-> Items!RegsAfter(Completed, promise.regs, in.next),
                         pointer |-> Items!PointerAfter(promise.pointer, in.next)]
      BY <1>6, <2>1, DecodedRegisters DEF Issue
    <2>3. Completed' = Items!MemoryAfter(Completed, in.next)
      BY <2>1, <2>2 DEF Completed
    <2>4. AtomicMemory!Execute(in.next)
      BY <2>2, <2>3, SameItems DEF AtomicMemory!Execute
    <2> QED BY <2>1, <2>4 DEF AtomicMemory!Next
  <1> QED BY <1>3, <1>4, <1>5, <1>6, StepCases

LEMMA WrittenInvariant ==
  ASSUME FPU = FALSE
  PROVE  Spec => [](ItemInv /\ Written)
  <1>1. Init => Written
    BY DEF Init, Written
  <1>2. ItemInv /\ Written /\ [Next]_vars => Written'
    <2>1. ASSUME ItemInv, Written, NEW in \in Inputs, Cycle(in)
          PROVE  Written'
      BY <2>1, WrittenStep DEF ItemInv, IInv
    <2>2. CASE UNCHANGED vars
      BY <2>2 DEF vars, lsuRegs, pipeRegs, envVars, Written, Made, Pass
    <2> QED BY <2>1, <2>2 DEF Next
  <1> QED BY <1>1, <1>2, ItemInvariant, PTL DEF Spec

(* Loads and stores are atomic and happen in program order, wherever the   *)
(* items lie and however long the bus takes.                               *)
THEOREM MemoryIsAtomic ==
  ASSUME FPU = FALSE
  PROVE  Spec => ImplementsAtomicMemory
  <1>1. ItemInv /\ Written /\ [Next]_vars =>
          [AtomicMemory!Next]_<< Completed, promise.regs, promise.pointer >>
    <2>1. ASSUME ItemInv, Written, NEW in \in Inputs, Cycle(in)
          PROVE  [AtomicMemory!Next]_<< Completed, promise.regs, promise.pointer >>
      BY <2>1, MemoryStep DEF ItemInv, IInv
    <2>2. CASE UNCHANGED vars
      BY <2>2 DEF vars, lsuRegs, pipeRegs, envVars, Completed
    <2> QED BY <2>1, <2>2 DEF Next
  <1> QED BY <1>1, WrittenInvariant, PTL
       DEF Spec, ImplementsAtomicMemory, AtomicMemory!MemorySpec
------------------------------------------------------------------------------
(* What write-back makes of an answer: the item of a load, if the last     *)
(* answer holds the bytes of its last access and rdata_q those of the      *)
(* first of two.                                                           *)
Carries(d, m, S) == \A x \in S : d[x % 4] = m[x]

Describes(i) ==
  /\ data_type_q = i.type /\ rdata_offset_q = EA(i) % 4
  /\ data_sign_ext_q = i.sign_ext

ItemIsLoaded ==
  \A m, d : \A i \in Insns :
    /\ Describes(i)
    /\ Spans(i) => Carries(rdata_q, m, Low(i)) /\ Carries(d, m, High(i))
    /\ ~Spans(i) => Carries(d, m, Low(i))
    => data_rdata_ext(d) = Items!Load(m, i)

LEMMA ItemLoaded == ItemIsLoaded
  <1> SUFFICES ASSUME NEW i \in Insns, NEW m, NEW d, Describes(i),
                      Spans(i) => Carries(rdata_q, m, Low(i)) /\ Carries(d, m, High(i)),
                      ~Spans(i) => Carries(d, m, Low(i))
               PROVE  data_rdata_ext(d) = Items!Load(m, i)
    BY DEF ItemIsLoaded
  <1> DEFINE o == EA(i) % 4
             s == Size(i.type)
  <1>1. o \in Lane /\ s \in {1, 2, 4} /\ i.sign_ext \in 0 .. 2
    BY EffectiveAddressIs, SizeIs, InsnTypes
  <1>2. /\ Size(data_type_q) = s /\ rdata_offset_q = o
        /\ data_sign_ext_q = i.sign_ext /\ Items!Bytes(i.type) = s
    BY SizeIs DEF Describes
  <1>3. ASSUME NEW n \in Lane, n < s
        PROVE  ItemByte(n, d) = m[Items!ItemAddress(i, n)]
    <2> DEFINE x == Items!ItemAddress(i, n)
    <2>1. x % 4 = (o + n) % 4
      BY ItemAddressIs
    <2>2. n < 4 - o => x \in Low(i)
      BY <1>1, <1>3 DEF Low
    <2>3. n >= 4 - o => x \in High(i)
      BY <1>1, <1>3 DEF High
    <2>4. ItemByte(n, d) = IF o + s > 4 /\ o + n < 4 THEN rdata_q[o + n]
                                                      ELSE d[(o + n) % 4]
      BY <1>2 DEF ItemByte
    <2>5. CASE o + n < 4
      <3>1. n < 4 - o /\ (o + n) % 4 = o + n
        BY <1>1, <2>5 DEF Lane
      <3>2. x \in Low(i) /\ x % 4 = o + n
        BY <2>1, <2>2, <3>1
      <3> QED BY <2>4, <2>5, <3>1, <3>2 DEF Carries, Spans
    <2>6. CASE ~(o + n < 4)
      <3>1. n >= 4 - o /\ o + s > 4
        BY <1>1, <1>3, <2>6 DEF Lane
      <3> QED BY <2>1, <2>3, <2>4, <2>6, <3>1 DEF Carries, Spans
    <2> QED BY <2>5, <2>6
  <1>4. s - 1 \in Lane /\ s - 1 < s
    BY <1>1 DEF Lane
  <1>5. ExtensionByte(d) =
          IF i.sign_ext = 2 \/ (i.sign_ext = 1 /\ m[Items!ItemAddress(i, s - 1)] >= 128)
            THEN 255 ELSE 0
    <2>1. ItemByte(s - 1, d) = m[Items!ItemAddress(i, s - 1)]
      BY <1>3, <1>4
    <2> HIDE DEF s
    <2> QED BY <1>1, <1>2, <2>1 DEF ExtensionByte
  <1>6. data_rdata_ext(d) =
          [n \in Lane |-> IF n < s THEN ItemByte(n, d) ELSE ExtensionByte(d)]
    BY <1>2 DEF data_rdata_ext
  <1>7. Items!Load(m, i) =
          [n \in Lane |->
             IF n < s THEN m[Items!ItemAddress(i, n)]
               ELSE IF i.sign_ext = 2
                       \/ (i.sign_ext = 1 /\ m[Items!ItemAddress(i, s - 1)] >= 128)
                      THEN 255 ELSE 0]
    BY <1>2 DEF Items!Load, Items!Lane, Lane
  <1> HIDE DEF s, o
  <1> QED BY <1>3, <1>5, <1>6, <1>7

LEMMA ItemLoadedNext == ItemIsLoaded'
  BY ItemLoaded, PTL

(* The answer to a load holds the bytes it touches. *)
LEMMA NewAnswerCarries ==
  ASSUME TypeOK, InsnInExecute, ex # None, ~ex.insn.we,
         NEW in \in Inputs, Answered(in)
  PROVE  Carries(NewAnswer(in).data, mem, Pass)
  <1> DEFINE be == data_be(Wired(in))
             w == word_address(in)
  <1>1. SUFFICES ASSUME NEW x \in Pass
                 PROVE  NewAnswer(in).data[x % 4] = mem[x]
    BY DEF Carries
  <1>2. PICK l \in be : x = w + l
    BY TouchedIs DEF Touched
  <1>3. be \subseteq Lane
    <2>1. /\ Wired(in).misaligned = ex.misaligned
          /\ Wired(in).type \in {"word", "half", "byte"}
          /\ Offset(Wired(in).addr) \in Lane
      <3>1. ex.insn \in Insns /\ ex.misaligned \in BOOLEAN
        BY ExecuteTypes
      <3>2. EA(ex.insn) % 4 \in Lane /\ ex.insn.type \in {"word", "half", "byte"}
        BY <3>1, EffectiveAddressIs, InsnTypes
      <3>3. Wired(in).addr = data_addr_int /\ Wired(in).type = ex.insn.type
        BY DEF Wired
      <3> QED BY <3>1, <3>2, <3>3, AddressOfPass DEF Wired
    <2> QED BY <2>1 DEF data_be, Lane, Size
  <1>4. w % 4 = 0 /\ w \in Int
    <2>1. data_addr_int \in Addr /\ w = data_addr_int - Offset(data_addr_int)
      BY ExecuteTypes, WordAddress
    <2> QED BY <2>1, SizeAssumption DEF Offset, Addr
  <1>5. x % 4 = l
    BY <1>2, <1>3, <1>4 DEF Lane
  <1>6. NewAnswer(in).data =
          [k \in Lane |-> IF ~ex.insn.we /\ k \in be THEN mem[w + k] ELSE Junk[k]]
    BY DEF NewAnswer
  <1> HIDE DEF be, w
  <1> QED BY <1>2, <1>3, <1>5, <1>6
------------------------------------------------------------------------------
(* The registers: what the answers under way carry, and what rdata_q keeps *)
(* of the first half of a load, is what the promise was made from.         *)
LoadOf(r) == ex # None /\ ~ex.insn.we /\ ex.insn.rd = r

FirstHalf ==
  ex # None /\ ex.misaligned /\ ~ex.insn.we =>
    /\ cnt_q = 0 => Carries(rdata_q, mem, Low(ex.insn))
    /\ cnt_q > 0 => ~data_we_q /\ Carries(answers[1].data, mem, Low(ex.insn))

LastHalf ==
  ex # None /\ ~ex.insn.we /\ cnt_q = 2 => Carries(answers[2].data, mem, Pass)

LoadPromised ==
  ex # None /\ ~ex.insn.we => promise.regs[ex.insn.rd] = Items!Load(mem, ex.insn)

WriteBackCarries ==
  regfile_we_lsu /\ ~LoadOf(regfile_waddr_lsu) =>
    data_rdata_ext(answers[1].data) = promise.regs[regfile_waddr_lsu]

PointerPromised ==
  promise.pointer = IF ex # None /\ ex.alu_we THEN alu_result ELSE pointer

RegisterInv ==
  /\ DOMAIN promise.regs = Reg
  /\ FirstHalf /\ LastHalf /\ LoadPromised /\ WriteBackCarries /\ PointerPromised
  /\ RegistersAgree

(* What a cycle does to what the instructions were promised. *)
LEMMA PromiseStep ==
  ASSUME FPU = FALSE, TypeOK, CountsOutstanding, InsnInExecute, Written,
         DOMAIN promise.regs = Reg, NEW in \in Inputs, Cycle(in)
  PROVE  /\ DOMAIN promise'.regs = Reg
         /\ \A r \in Reg : promise'.regs[r] = promise.regs[r] \/ LoadOf(r)'
  <1>1. CASE promise' = promise
    BY <1>1
  <1>2. CASE Issue(in)
    <2>1. in.next \in Insns
      BY <1>2, InputTypes DEF Issue
    <2>2. /\ ex' # None /\ ex'.insn = in.next
          /\ promise'.regs = Items!RegsAfter(Completed, promise.regs, in.next)
      BY <1>2, <2>1, DecodedRegisters DEF Issue
    <2> QED BY <2>1, <2>2 DEF Items!RegsAfter, LoadOf
  <1> QED BY <1>1, <1>2 DEF Cycle, Stall, Continue, Drain

LEMMA LoadPromisedStep ==
  ASSUME FPU = FALSE, TypeOK, CountsOutstanding, InsnInExecute, Written,
         DOMAIN promise.regs = Reg, LoadPromised, NEW in \in Inputs, Cycle(in)
  PROVE  LoadPromised'
  <1>1. Answered(in) /\ Clock(in) /\ Memory(in)
    BY StepCases DEF Clock
  <1>2. CASE ex # None /\ ex'.insn = ex.insn /\ promise' = promise
    <2>1. ~ex.insn.we => mem' = mem
      BY <1>1, <1>2, MemoryBytes
    <2> QED BY <1>2, <2>1 DEF LoadPromised
  <1>3. CASE Issue(in)
    <2>1. mem' = Completed /\ in.next \in Insns
      BY <1>1, <1>3, LeavesCompleted, InputTypes DEF Issue
    <2>2. /\ ex'.insn = in.next /\ in.next.rd \in Reg
          /\ promise'.regs = Items!RegsAfter(Completed, promise.regs, in.next)
      BY <1>3, <2>1, DecodedRegisters, InsnTypes DEF Issue
    <2> QED BY <2>1, <2>2 DEF LoadPromised, Items!RegsAfter
  <1>4. CASE Stall(in)
    BY <1>2, <1>4 DEF Stall
  <1>5. CASE Continue(in) /\ ex # None /\ misaligned(in) /\ ex' = SecondPass(in)
    BY <1>2, <1>5, SecondPassIs DEF Continue
  <1>6. CASE Drain(in)
    BY <1>6 DEF Drain, LoadPromised
  <1> QED BY <1>3, <1>4, <1>5, <1>6, StepCases

LEMMA PointerStep ==
  ASSUME FPU = FALSE, TypeOK, InsnInExecute, PointerPromised,
         NEW in \in Inputs, Cycle(in)
  PROVE  PointerPromised'
  <1>1. pointer' = promise.pointer
    <2>1. RegisterWrites(in) /\ in.apu = None
      BY StepCases, NoFpuResult DEF Clock
    <2> QED BY <2>1 DEF RegisterWrites, regfile_alu_wdata_fw, PointerPromised
  <1>2. CASE Stall(in)
    <2>1. ex' = ex /\ promise' = promise /\ alu_result' = alu_result
      BY <1>2 DEF Stall, alu_result
    <2>2. ~(ex # None /\ ex.alu_we) => pointer' = pointer
      BY <1>1 DEF PointerPromised
    <2> QED BY <2>1, <2>2 DEF PointerPromised
  <1>3. CASE Continue(in) /\ ex # None /\ misaligned(in) /\ ex' = SecondPass(in)
    BY <1>1, <1>3, SecondPassIs DEF Continue, PointerPromised
  <1>4. CASE Drain(in)
    BY <1>1, <1>4 DEF Drain, PointerPromised
  <1>5. CASE Issue(in)
    <2>1. in.next \in Insns /\ in.next.useincr \in BOOLEAN
      BY <1>5, InputTypes, InsnTypes DEF Issue
    <2>2. /\ ex' = Decoded(in.next) /\ ex' # None
          /\ promise'.pointer = Items!PointerAfter(promise.pointer, in.next)
      BY <1>5, <2>1, DecodedRegisters DEF Issue
    <2>3. /\ ex'.alu_we = ~in.next.useincr
          /\ alu_result' = (in.next.base + in.next.offset) % SIZE
      BY <2>2 DEF Decoded, alu_result
    <2> QED BY <1>1, <2>1, <2>2, <2>3 DEF PointerPromised, Items!PointerAfter
  <1> QED BY <1>2, <1>3, <1>4, <1>5, StepCases

(* The answer to the pass that moves on. *)
LEMMA LastAnswerCarries ==
  ASSUME TypeOK, CountsOutstanding, InsnInExecute, LastHalf, ex # None, ~ex.insn.we,
         NEW in \in Inputs, Answered(in), Clock(in), lsu_ready_ex_o(Wired(in))
  PROVE  cnt_q' = 1 /\ mem' = mem /\ Carries(answers'[1].data, mem, Pass)
  <1>1. cnt_q' = 1 /\ answers'[1] = LastAnswer(in)
    BY MoveCases
  <1>2. mem' = mem
    BY MemoryBytes DEF Clock
  <1>3. Carries(LastAnswer(in).data, mem, Pass)
    BY NewAnswerCarries DEF LastAnswer, LastHalf
  <1> QED BY <1>1, <1>2, <1>3

(* The oldest answer is the one that comes. *)
LEMMA OldestAnswer ==
  ASSUME TypeOK, CountsOutstanding, NEW in \in Inputs, Answered(in), in.rvalid
  PROVE  Wired(in).resp_rdata = answers[1].data
  BY DEF Wired, Answered, TypeOK

LEMMA FirstHalfStep ==
  ASSUME FPU = FALSE, TypeOK, CountsOutstanding, InsnInExecute, FirstHalf, LastHalf,
         NEW in \in Inputs, Cycle(in)
  PROVE  FirstHalf'
  <1>1. Answered(in) /\ Clock(in) /\ Memory(in) /\ LsuClock(Wired(in))
    BY StepCases DEF Clock
  <1>2. CASE Stall(in) /\ ex # None /\ ex.misaligned /\ ~ex.insn.we
    <2>1. ~lsu_ready_ex_o(Wired(in))
      BY <1>1, <1>2, StallCases, NoFpuResult
    <2>2. ex' = ex /\ mem' = mem
      BY <1>1, <1>2, MemoryBytes DEF Stall
    <2>3. data_we_q' = data_we_q
      BY <1>1, <2>1 DEF LsuClock, ControlInfo
    <2>4. /\ \/ cnt_q = 0 /\ ~in.rvalid /\ cnt_q' = 0
             \/ cnt_q = 1 /\ ~in.rvalid /\ cnt_q' > 0
             \/ cnt_q = 1 /\ in.rvalid /\ cnt_q' = 0
             \/ cnt_q = 2 /\ ~in.rvalid /\ cnt_q' > 0
          /\ cnt_q > 0 /\ ~in.rvalid => answers'[1] = answers[1]
      BY <1>1, <1>2, <2>1, WaitCases
    <2>5. cnt_q' = 0 => Carries(rdata_q', mem, Low(ex.insn))
      <3>1. CASE cnt_q = 0 /\ ~in.rvalid
        <4>1. rdata_q' = rdata_q
          BY <1>1, <3>1, WiredTypes DEF LsuClock, KeepAnswer
        <4> QED BY <1>2, <3>1, <4>1 DEF FirstHalf
      <3>2. CASE cnt_q = 1 /\ in.rvalid
        <4>1. ~data_we_q /\ Carries(answers[1].data, mem, Low(ex.insn))
          BY <1>2, <3>2 DEF FirstHalf
        <4>2. Wired(in).misaligned = TRUE /\ Wired(in).resp_valid = TRUE
          BY <1>1, <1>2, <3>2, WiredTypes DEF Wired
        <4>3. rdata_q' = Wired(in).resp_rdata
          BY <1>1, <4>1, <4>2 DEF LsuClock, KeepAnswer
        <4> QED BY <1>1, <3>2, <4>1, <4>3, OldestAnswer
      <3> QED BY <2>4, <3>1, <3>2
    <2>6. cnt_q' > 0 => ~data_we_q /\ Carries(answers'[1].data, mem, Low(ex.insn))
      BY <1>2, <2>4 DEF FirstHalf
    <2> QED BY <2>2, <2>3, <2>5, <2>6 DEF FirstHalf
  <1>3. CASE Stall(in) /\ ~(ex # None /\ ex.misaligned /\ ~ex.insn.we)
    BY <1>3 DEF Stall, FirstHalf
  <1>4. CASE Continue(in) /\ ex # None /\ misaligned(in)
             /\ lsu_ready_ex_o(Wired(in)) /\ ex' = SecondPass(in)
    <2>1. ex'.insn = ex.insn /\ ~ex.misaligned
      BY <1>4, SecondPassIs
    <2>2. SUFFICES ASSUME ~ex.insn.we
                   PROVE  FirstHalf'
      BY <2>1 DEF FirstHalf
    <2>3. cnt_q' = 1 /\ mem' = mem /\ Carries(answers'[1].data, mem, Low(ex.insn))
      BY <1>1, <1>4, <2>1, <2>2, LastAnswerCarries DEF Pass
    <2>4. ~data_we_q'
      <3>1. data_we_q' = Wired(in).we /\ Wired(in).we = FALSE
        BY <1>1, <1>4, <2>2 DEF LsuClock, ControlInfo, Wired
      <3> QED BY <3>1
    <2> QED BY <2>1, <2>3, <2>4 DEF FirstHalf
  <1>5. CASE Drain(in) \/ Issue(in)
    BY <1>5, IssuedRegisters DEF FirstHalf
  <1> QED BY <1>2, <1>3, <1>4, <1>5, StepCases

LEMMA LastHalfStep ==
  ASSUME FPU = FALSE, TypeOK, CountsOutstanding, InsnInExecute, LastHalf,
         NEW in \in Inputs, Cycle(in)
  PROVE  LastHalf'
  <1>1. Answered(in) /\ Clock(in) /\ Memory(in)
    BY StepCases DEF Clock
  <1>2. CASE Stall(in)
    <2>1. ex # None /\ ex' = ex /\ ~lsu_ready_ex_o(Wired(in))
      BY <1>1, <1>2, StallCases, NoFpuResult DEF Stall
    <2>2. SUFFICES ASSUME ~ex.insn.we, cnt_q' = 2
                   PROVE  Carries(answers'[2].data, mem, Pass)
      <3>1. ~ex.insn.we => mem' = mem
        BY <1>1, MemoryBytes
      <3> QED BY <2>1, <3>1 DEF LastHalf, Pass, Carries
    <2>3. \/ cnt_q = 2 /\ ~in.rvalid
          \/ Accepted(in)
      BY <1>1, <1>2, <2>1, <2>2, WaitCases
    <2>4. CASE cnt_q = 2 /\ ~in.rvalid
      <3>1. answers'[2] = answers[2]
        BY <1>1, <1>2, <2>1, <2>4, WaitCases
      <3> QED BY <2>1, <2>2, <2>4, <3>1 DEF LastHalf
    <2>5. CASE Accepted(in)
      <3>1. answers'[2] = NewAnswer(in)
        BY <1>1, <1>2, <2>1, <2>5, WaitCases
      <3> QED BY <1>1, <2>1, <2>2, <3>1, NewAnswerCarries
    <2> QED BY <2>3, <2>4, <2>5
  <1>3. CASE Continue(in) /\ ex # None /\ lsu_ready_ex_o(Wired(in))
    BY <1>1, <1>3, MoveCases DEF LastHalf
  <1>4. CASE Drain(in) \/ Issue(in)
    BY <1>1, <1>4, LeavesOne DEF Drain, Issue, LastHalf
  <1> QED BY <1>2, <1>3, <1>4, StepCases

(* While write-back waits, what it will write stays the same. *)
ExtOldest == data_rdata_ext(answers[1].data)

LEMMA WaitsInWriteBack ==
  ASSUME TypeOK, CountsOutstanding, NEW in \in Inputs, Answered(in), Clock(in),
         ~(ex # None /\ lsu_ready_ex_o(Wired(in))), regfile_we_lsu'
  PROVE  /\ regfile_we_lsu /\ regfile_waddr_lsu' = regfile_waddr_lsu
         /\ ~in.rvalid /\ ExtOldest' = ExtOldest
  <1>1. Memory(in) /\ WriteBackRegisters(in) /\ LsuClock(Wired(in))
    BY DEF Clock
  <1>2. /\ regfile_we_lsu /\ ~lsu_ready_wb_o(Wired(in))
        /\ regfile_waddr_lsu' = regfile_waddr_lsu
    BY <1>1 DEF WriteBackRegisters
  <1>3. cnt_q > 0 /\ ~in.rvalid /\ ~Wired(in).resp_valid
    BY <1>2, WiredTypes DEF lsu_ready_wb_o, CountsOutstanding
  <1>4. answers'[1] = answers[1]
    BY <1>1, <1>3, AnswerElements DEF CountsOutstanding, TypeOK, LsuTypeOK
  <1>5. /\ data_type_q' = data_type_q /\ rdata_offset_q' = rdata_offset_q
        /\ data_sign_ext_q' = data_sign_ext_q /\ rdata_q' = rdata_q
    BY <1>1, <1>3, WiredTypes DEF LsuClock, ControlInfo, KeepAnswer
  <1>6. ExtOldest' = ExtOldest
    BY <1>4, <1>5 DEF ExtOldest, data_rdata_ext, ItemByte, ExtensionByte
  <1> QED BY <1>2, <1>3, <1>6

(* A load that leaves will write its item. *)
LEMMA ItemInWriteBack ==
  ASSUME FPU = FALSE, TypeOK, CountsOutstanding, InsnInExecute, FirstHalf, LastHalf,
         ex # None, ~ex.insn.we, NEW in \in Inputs, Answered(in), Clock(in),
         lsu_ready_ex_o(Wired(in)), ~misaligned(in)
  PROVE  ExtOldest' = Items!Load(mem, ex.insn)
  <1> DEFINE i == ex.insn
  <1>1. i \in Insns /\ LsuClock(Wired(in))
    BY ExecuteTypes DEF Clock
  <1>2. Carries(answers'[1].data, mem, Pass)
    BY LastAnswerCarries
  <1>3. /\ data_type_q' = i.type /\ rdata_offset_q' = EA(i) % 4
        /\ data_sign_ext_q' = i.sign_ext
    <2>1. Wired(in).req = TRUE
      BY WiredTypes
    <2>2. /\ Wired(in).type = i.type /\ Wired(in).sign_ext = i.sign_ext
          /\ Wired(in).addr = data_addr_int
      BY DEF Wired
    <2> QED BY <1>1, <2>1, <2>2, AddressOfPass DEF LsuClock, ControlInfo
  <1>4. CASE ex.misaligned
    <2>1. Spans(i)
      BY <1>4 DEF InsnInExecute
    <2>2. Carries(rdata_q', mem, Low(i))
      <3>1. CASE cnt_q = 0 /\ ~in.rvalid
        <4>1. rdata_q' = rdata_q
          BY <1>1, <3>1, WiredTypes DEF LsuClock, KeepAnswer
        <4> QED BY <1>4, <3>1, <4>1 DEF FirstHalf
      <3>2. CASE cnt_q > 0 /\ in.rvalid
        <4>1. ~data_we_q /\ Carries(answers[1].data, mem, Low(i))
          BY <1>4, <3>2 DEF FirstHalf
        <4>2. Wired(in).misaligned = TRUE /\ Wired(in).resp_valid = TRUE
          BY <1>4, <3>2, WiredTypes DEF Wired
        <4>3. rdata_q' = Wired(in).resp_rdata
          BY <1>1, <4>1, <4>2 DEF LsuClock, KeepAnswer
        <4> QED BY <3>2, <4>1, <4>3, OldestAnswer
      <3> QED BY <3>1, <3>2, MoveCases
    <2>3. Carries(answers'[1].data, mem, High(i))
      BY <1>2, <1>4 DEF Pass
    <2> QED BY <1>1, <1>3, <2>1, <2>2, <2>3, ItemLoadedNext
            DEF ItemIsLoaded, Describes, ExtOldest, data_rdata_ext, ItemByte,
                ExtensionByte
  <1>5. CASE ~ex.misaligned
    <2>1. ~Spans(i) /\ Carries(answers'[1].data, mem, Low(i))
      BY <1>2, <1>5, MisalignedIs DEF Pass
    <2> QED BY <1>1, <1>3, <2>1, ItemLoadedNext
            DEF ItemIsLoaded, Describes, ExtOldest, data_rdata_ext, ItemByte,
                ExtensionByte
  <1> QED BY <1>4, <1>5

(* An instruction that moves on takes its place in write-back. *)
LEMMA TakesWriteBack ==
  ASSUME TypeOK, CountsOutstanding, ex # None, NEW in \in Inputs, Answered(in),
         Clock(in), lsu_ready_ex_o(Wired(in))
  PROVE  /\ regfile_we_lsu' = ~ex.insn.we
         /\ ~ex.insn.we => regfile_waddr_lsu' = ex.insn.rd
  <1>1. lsu_ready_wb_o(Wired(in)) /\ WriteBackRegisters(in)
    BY MoveCases DEF Clock
  <1> QED BY <1>1 DEF WriteBackRegisters

LEMMA WriteBackStep ==
  ASSUME FPU = FALSE, TypeOK, CountsOutstanding, InsnInExecute, Written, RegisterInv,
         NEW in \in Inputs, Cycle(in)
  PROVE  WriteBackCarries'
  <1>1. Answered(in) /\ Clock(in)
    BY StepCases
  <1>2. SUFFICES ASSUME regfile_we_lsu', ~LoadOf(regfile_waddr_lsu)'
                 PROVE  ExtOldest' = promise'.regs[regfile_waddr_lsu']
    BY DEF WriteBackCarries, ExtOldest
  <1>3. regfile_waddr_lsu' \in Reg
    BY <1>1, RegisterTypeStep DEF Clock
  <1>4. promise'.regs[regfile_waddr_lsu'] = promise.regs[regfile_waddr_lsu']
    BY <1>2, <1>3, PromiseStep DEF RegisterInv, LoadOf
  <1>5. CASE ~(ex # None /\ lsu_ready_ex_o(Wired(in)))
    <2>1. /\ regfile_we_lsu /\ regfile_waddr_lsu' = regfile_waddr_lsu
          /\ ExtOldest' = ExtOldest
      BY <1>1, <1>2, <1>5, WaitsInWriteBack
    <2>2. ~LoadOf(regfile_waddr_lsu)
      <3>1. ex = None \/ Stall(in)
        BY <1>5, StepCases
      <3> QED BY <1>2, <2>1, <3>1 DEF LoadOf, Stall
    <2> QED BY <1>4, <2>1, <2>2 DEF RegisterInv, WriteBackCarries, ExtOldest
  <1>6. CASE ex # None /\ lsu_ready_ex_o(Wired(in))
    <2>1. ~ex.insn.we /\ regfile_waddr_lsu' = ex.insn.rd
      BY <1>1, <1>2, <1>6, TakesWriteBack
    <2>2. CASE misaligned(in)
      <3>1. ex' = SecondPass(in)
        BY <1>1, <1>6, <2>2, StepCases, StallCases, NoFpuResult
      <3>2. ex' # None /\ ex'.insn = ex.insn
        BY <1>6, <3>1, SecondPassRegisters
      <3> QED BY <1>2, <2>1, <3>2 DEF LoadOf
    <2>3. CASE ~misaligned(in)
      <3>1. ExtOldest' = Items!Load(mem, ex.insn)
        BY <1>1, <1>6, <2>1, <2>3, ItemInWriteBack DEF RegisterInv
      <3>2. promise.regs[ex.insn.rd] = Items!Load(mem, ex.insn)
        BY <1>6, <2>1 DEF RegisterInv, LoadPromised
      <3> QED BY <1>4, <2>1, <3>1, <3>2
    <2> QED BY <2>2, <2>3
  <1> QED BY <1>5, <1>6

LEMMA AgreeStep ==
  ASSUME FPU = FALSE, TypeOK, CountsOutstanding, InsnInExecute, Written, RegisterInv,
         NEW in \in Inputs, Cycle(in), InsnInExecute', PointerPromised'
  PROVE  RegistersAgree'
  <1>1. Answered(in) /\ Clock(in)
    BY StepCases
  <1>2. ASSUME NEW r \in Reg, ~Pending(r)'
        PROVE  regs'[r] = promise'.regs[r]
    <2>1. promise'.regs[r] = promise.regs[r]
      BY <1>2, PromiseStep DEF RegisterInv, LoadOf, Pending
    <2>2. ~LoadOf(r)
      <3>1. CASE ex # None /\ lsu_ready_ex_o(Wired(in))
        BY <1>1, <1>2, <3>1, TakesWriteBack DEF Pending, LoadOf
      <3>2. CASE ~(ex # None /\ lsu_ready_ex_o(Wired(in)))
        <4>1. ex = None \/ Stall(in)
          BY <3>2, StepCases
        <4> QED BY <1>2, <4>1 DEF Pending, LoadOf, Stall
      <3> QED BY <3>1, <3>2
    <2>3. RegisterWrites(in) /\ WriteBackRegisters(in)
      BY <1>1 DEF Clock
    <2>4. regs \in [Reg -> Word]
      BY DEF TypeOK
    <2>5. CASE regfile_we_lsu /\ regfile_waddr_lsu = r
      <3>1. cnt_q > 0
        BY <2>5 DEF CountsOutstanding
      <3>2. lsu_ready_wb_o(Wired(in))
        <4>1. ex # None /\ lsu_ready_ex_o(Wired(in)) => lsu_ready_wb_o(Wired(in))
          BY <1>1, MoveCases
        <4> QED BY <1>2, <2>3, <2>5, <4>1 DEF WriteBackRegisters, Pending
      <3>3. in.rvalid = TRUE
        BY <1>1, <3>1, <3>2, WiredTypes, InputTypes
        DEF lsu_ready_wb_o, TypeOK, LsuTypeOK
      <3>4. data_rdata_ex_o(Wired(in)) = data_rdata_ext(answers[1].data)
        BY <1>1, <3>3, WiredTypes, OldestAnswer DEF data_rdata_ex_o
      <3>5. regs'[r] = data_rdata_ex_o(Wired(in))
        BY <2>3, <2>4, <2>5 DEF RegisterWrites
      <3> QED BY <2>1, <2>2, <2>5, <3>4, <3>5 DEF RegisterInv, WriteBackCarries
    <2>6. CASE ~(regfile_we_lsu /\ regfile_waddr_lsu = r)
      <3>1. regs'[r] = regs[r]
        BY <2>3, <2>4, <2>6 DEF RegisterWrites
      <3>2. ~Pending(r)
        BY <2>2, <2>6 DEF Pending, LoadOf
      <3> QED BY <2>1, <3>1, <3>2 DEF RegisterInv, RegistersAgree
    <2> QED BY <2>5, <2>6
  <1>3. (ex = None \/ ex.misaligned => pointer = promise.pointer)'
    BY DEF PointerPromised, InsnInExecute
  <1> QED BY <1>2, <1>3 DEF RegistersAgree

(* Once no load to a register is under way the register holds the item of  *)
(* its last load, and the base register was incremented exactly once.      *)
THEOREM RegistersAreRight ==
  ASSUME FPU = FALSE
  PROVE  Spec => []RegistersAgree
  <1>1. Init => RegisterInv
    BY DEF Init, LsuInit, RegisterInv, FirstHalf, LastHalf, LoadPromised,
           WriteBackCarries, PointerPromised, RegistersAgree
  <1>2. ItemInv /\ Written /\ ItemInv' /\ RegisterInv /\ [Next]_vars => RegisterInv'
    <2>1. ASSUME ItemInv, Written, ItemInv', RegisterInv, NEW in \in Inputs, Cycle(in)
          PROVE  RegisterInv'
      <3>1. /\ TypeOK /\ CountsOutstanding /\ InsnInExecute /\ InsnInExecute'
            /\ FirstHalf /\ LastHalf /\ LoadPromised /\ PointerPromised
            /\ DOMAIN promise.regs = Reg
        BY <2>1 DEF ItemInv, IInv, RegisterInv
      <3>2. PointerPromised'
        BY <2>1, <3>1, PointerStep
      <3>3. DOMAIN promise'.regs = Reg /\ LoadPromised'
        BY <2>1, <3>1, PromiseStep, LoadPromisedStep
      <3>4. FirstHalf' /\ LastHalf'
        BY <2>1, <3>1, FirstHalfStep, LastHalfStep
      <3>5. WriteBackCarries'
        BY <2>1, <3>1, WriteBackStep
      <3>6. RegistersAgree'
        BY <2>1, <3>1, <3>2, AgreeStep
      <3> QED BY <3>2, <3>3, <3>4, <3>5, <3>6 DEF RegisterInv
    <2>2. CASE UNCHANGED vars
      <3>1. /\ ex' = ex /\ mem' = mem /\ answers' = answers /\ promise' = promise
            /\ regs' = regs /\ pointer' = pointer
            /\ regfile_we_lsu' = regfile_we_lsu
            /\ regfile_waddr_lsu' = regfile_waddr_lsu
            /\ cnt_q' = cnt_q /\ data_we_q' = data_we_q /\ rdata_q' = rdata_q
            /\ data_type_q' = data_type_q /\ rdata_offset_q' = rdata_offset_q
            /\ data_sign_ext_q' = data_sign_ext_q
        BY <2>2 DEF vars, lsuRegs, pipeRegs, envVars
      <3>2. FirstHalf' <=> FirstHalf
        BY <3>1 DEF FirstHalf, Carries
      <3>3. LastHalf' <=> LastHalf
        BY <3>1 DEF LastHalf, Carries, Pass
      <3>4. LoadPromised' <=> LoadPromised
        BY <3>1 DEF LoadPromised
      <3>5. WriteBackCarries' <=> WriteBackCarries
        <4>1. ExtOldest' = ExtOldest
          BY <3>1 DEF ExtOldest, data_rdata_ext, ItemByte, ExtensionByte
        <4> QED BY <3>1, <4>1 DEF WriteBackCarries, ExtOldest, LoadOf
      <3>6. PointerPromised' <=> PointerPromised
        BY <3>1 DEF PointerPromised, alu_result
      <3>7. RegistersAgree' <=> RegistersAgree
        BY <3>1 DEF RegistersAgree, Pending
      <3> QED BY <3>1, <3>2, <3>3, <3>4, <3>5, <3>6, <3>7 DEF RegisterInv
    <2> QED BY <2>1, <2>2 DEF Next
  <1>3. RegisterInv => RegistersAgree
    BY DEF RegisterInv
  <1> QED BY <1>1, <1>2, <1>3, WrittenInvariant, PTL DEF Spec
==============================================================================
