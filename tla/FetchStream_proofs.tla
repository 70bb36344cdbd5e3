------------------------- MODULE FetchStream_proofs --------------------------
(***************************************************************************)
(* The fetch unit hands the words of the program to the fetch stage: the   *)
(* detailed PrefetchBuffer implements the abstract FetchStream.  What the  *)
(* ring buffer does is taken from the proofs about it (Fifo_proofs).       *)
(***************************************************************************)
EXTENDS MCPrefetchBuffer, PrefetchBuffer_proofs

Ring == INSTANCE Fifo_proofs
  WITH PTR_VALUES <- DEPTH, Word <- Addr, ResetWord <- 0
------------------------------------------------------------------------------
(* Sequences without their first elements. *)
Drop(s, k) == SubSeq(s, k + 1, Len(s))

LEMMA DropProperties ==
  ASSUME NEW S, NEW s \in Seq(S), NEW k \in 0 .. Len(s)
  PROVE  /\ Drop(s, k) \in Seq(S)
         /\ Len(Drop(s, k)) = Len(s) - k
         /\ \A i \in 1 .. Len(s) - k : Drop(s, k)[i] = s[k + i]
  <1>1. /\ k + 1 \in Int /\ Len(s) \in Nat
        /\ \A i \in k + 1 .. Len(s) : s[i] \in S
    BY ElementOfSeq, LenProperties
  <1> DEFINE d == SubSeq(s, k + 1, Len(s))
  <1>2. /\ d \in Seq(S)
        /\ Len(d) = IF k + 1 <= Len(s) THEN Len(s) - (k + 1) + 1 ELSE 0
        /\ \A i \in 1 .. Len(s) - (k + 1) + 1 : d[i] = s[(k + 1) + i - 1]
    BY <1>1, SubSeqProperties
  <1> HIDE DEF d
  <1>3. Len(d) = Len(s) - k
    BY <1>1, <1>2
  <1>4. ASSUME NEW i \in 1 .. Len(s) - k PROVE d[i] = s[k + i]
    <2>1. i \in 1 .. Len(s) - (k + 1) + 1 /\ (k + 1) + i - 1 = k + i
      BY <1>1
    <2> QED BY <1>2, <2>1
  <1>5. d = Drop(s, k)
    BY DEF d, Drop
  <1> QED BY <1>2, <1>3, <1>4, <1>5

LEMMA DropOfConcat ==
  ASSUME NEW S, NEW s \in Seq(S), NEW t \in Seq(S), NEW k \in 0 .. Len(s)
  PROVE  Drop(s \o t, k) = Drop(s, k) \o t
  <1>1. /\ s \o t \in Seq(S) /\ Len(s \o t) = Len(s) + Len(t)
        /\ Len(s) \in Nat /\ Len(t) \in Nat /\ k \in 0 .. Len(s \o t)
    BY ConcatProperties, LenProperties
  <1> DEFINE whole == s \o t
             d == Drop(whole, k)
             r == Drop(s, k) \o t
  <1>2. \A j \in 1 .. Len(s) + Len(t) :
          whole[j] = IF j <= Len(s) THEN s[j] ELSE t[j - Len(s)]
    BY ConcatProperties
  <1>3. /\ Drop(s, k) \in Seq(S) /\ Len(Drop(s, k)) = Len(s) - k
        /\ \A i \in 1 .. Len(s) - k : Drop(s, k)[i] = s[k + i]
    BY DropProperties
  <1>4. /\ r \in Seq(S) /\ Len(r) = Len(Drop(s, k)) + Len(t)
        /\ \A i \in 1 .. Len(Drop(s, k)) + Len(t) : r[i] =
              IF i <= Len(Drop(s, k)) THEN Drop(s, k)[i] ELSE t[i - Len(Drop(s, k))]
    BY <1>3, ConcatProperties
  <1> HIDE DEF whole
  <1>5. /\ d \in Seq(S) /\ Len(d) = Len(whole) - k
        /\ \A i \in 1 .. Len(whole) - k : d[i] = whole[k + i]
    BY <1>1, DropProperties DEF whole
  <1> HIDE DEF d, r
  <1>6. Len(whole) = Len(s) + Len(t)
    BY <1>1 DEF whole
  <1>7. Len(d) = Len(r) /\ Len(d) = Len(s) + Len(t) - k
    BY <1>1, <1>3, <1>4, <1>5, <1>6
  <1>8. ASSUME NEW i \in 1 .. Len(d) PROVE d[i] = r[i]
    <2>1. /\ i \in 1 .. Len(whole) - k /\ k + i \in 1 .. Len(s) + Len(t)
          /\ i \in 1 .. Len(Drop(s, k)) + Len(t)
      BY <1>1, <1>3, <1>6, <1>7
    <2>2. CASE i <= Len(s) - k
      <3>1. i \in 1 .. Len(s) - k /\ k + i <= Len(s)
        BY <1>1, <2>1, <2>2
      <3> QED BY <1>2, <1>3, <1>4, <1>5, <2>1, <2>2, <3>1
    <2>3. CASE ~(i <= Len(s) - k)
      <3>1. ~(k + i <= Len(s)) /\ (k + i) - Len(s) = i - (Len(s) - k)
        BY <1>1, <2>1, <2>3
      <3> QED BY <1>2, <1>3, <1>4, <1>5, <2>1, <2>3, <3>1
    <2> QED BY <2>2, <2>3
  <1>9. d = r
    BY <1>4, <1>5, <1>7, <1>8, SeqEqual
  <1> QED BY <1>9 DEF d, r, whole

LEMMA DropOfTail ==
  ASSUME NEW S, NEW s \in Seq(S), s # << >>, NEW k \in 0 .. Len(s) - 1
  PROVE  Drop(Tail(s), k) = Drop(s, k + 1)
  <1>1. /\ Tail(s) \in Seq(S) /\ Len(Tail(s)) = Len(s) - 1 /\ Len(s) \in Nat
        /\ \A i \in 1 .. Len(s) - 1 : Tail(s)[i] = s[i + 1]
        /\ k \in 0 .. Len(Tail(s)) /\ k + 1 \in 0 .. Len(s)
    BY HeadTailProperties, LenProperties
  <1> DEFINE d == Drop(Tail(s), k)
             r == Drop(s, k + 1)
  <1>2. /\ d \in Seq(S) /\ Len(d) = Len(Tail(s)) - k
        /\ \A i \in 1 .. Len(Tail(s)) - k : d[i] = Tail(s)[k + i]
    BY <1>1, DropProperties
  <1>3. /\ r \in Seq(S) /\ Len(r) = Len(s) - (k + 1)
        /\ \A i \in 1 .. Len(s) - (k + 1) : r[i] = s[(k + 1) + i]
    BY <1>1, DropProperties
  <1> HIDE DEF d, r
  <1>4. Len(d) = Len(r)
    BY <1>1, <1>2, <1>3
  <1>5. ASSUME NEW i \in 1 .. Len(d) PROVE d[i] = r[i]
    <2>1. /\ i \in 1 .. Len(Tail(s)) - k /\ i \in 1 .. Len(s) - (k + 1)
          /\ k + i \in 1 .. Len(s) - 1 /\ (k + i) + 1 = (k + 1) + i
      BY <1>1, <1>2
    <2> QED BY <1>1, <1>2, <1>3, <2>1
  <1>6. d = r
    BY <1>2, <1>3, <1>4, <1>5, SeqEqual
  <1> QED BY <1>6 DEF d, r

LEMMA DropNone ==
  ASSUME NEW S, NEW s \in Seq(S)
  PROVE  Drop(s, 0) = s
  BY SubSeqFull DEF Drop

LEMMA DropAll ==
  ASSUME NEW S, NEW s \in Seq(S)
  PROVE  Drop(s, Len(s)) = << >>
  BY DropProperties, EmptySeq, LenProperties

LEMMA DropPrefix ==
  ASSUME NEW S, NEW s \in Seq(S), NEW t \in Seq(S)
  PROVE  Drop(s \o t, Len(s)) = t
  <1>1. Len(s) \in 0 .. Len(s)
    BY LenProperties
  <1>2. Drop(s \o t, Len(s)) = Drop(s, Len(s)) \o t
    BY <1>1, DropOfConcat
  <1>3. Drop(s, Len(s)) = << >>
    BY DropAll
  <1>4. << >> \o t = t
    BY ConcatEmptySeq
  <1> QED BY <1>2, <1>3, <1>4

(* The first element, on its own and in front of others. *)
LEMMA SingletonProperties ==
  ASSUME NEW S, NEW a \in S, NEW s \in Seq(S)
  PROVE  /\ << a >> \in Seq(S)
         /\ << a >> \o s \in Seq(S)
         /\ << a >> \o s # << >>
         /\ Len(<< a >> \o s) = Len(s) + 1
         /\ Head(<< a >> \o s) = a
         /\ (<< a >> \o s)[1] = a
         /\ Tail(<< a >> \o s) = s
  <1>1. << a >> \in Seq(S) /\ Len(<< a >>) = 1 /\ << a >>[1] = a
    OBVIOUS
  <1>2. /\ << a >> \o s \in Seq(S) /\ Len(<< a >> \o s) = Len(s) + 1
        /\ Len(s) \in Nat
        /\ \A i \in 1 .. Len(s) + 1 :
             (<< a >> \o s)[i] = IF i <= 1 THEN << a >>[i] ELSE s[i - 1]
    BY <1>1, ConcatProperties, LenProperties
  <1> DEFINE r == << a >> \o s
  <1>3. r # << >> /\ r[1] = a
    BY <1>1, <1>2, EmptySeq
  <1>4. Head(r) = r[1]
    <2> HIDE DEF r
    <2> QED BY <1>2, <1>3
  <1>5. /\ Tail(r) \in Seq(S) /\ Len(Tail(r)) = Len(s)
        /\ \A i \in 1 .. Len(s) : Tail(r)[i] = r[i + 1]
    <2>1. r \in Seq(S) /\ Len(r) = Len(s) + 1 /\ Len(s) \in Nat
      BY <1>2
    <2> HIDE DEF r
    <2> QED BY <2>1, <1>3, HeadTailProperties
  <1>6. \A i \in 1 .. Len(s) : Tail(r)[i] = s[i]
    BY <1>2, <1>5
  <1>7. Tail(r) = s
    <2> HIDE DEF r
    <2> QED BY <1>5, <1>6, SeqEqual
  <1> QED BY <1>1, <1>2, <1>3, <1>4, <1>7

LEMMA HeadAndTail ==
  ASSUME NEW S, NEW s \in Seq(S), s # << >>
  PROVE  /\ s = << Head(s) >> \o Tail(s)
         /\ Head(s) \in S /\ Tail(s) \in Seq(S) /\ s[1] = Head(s)
         /\ Len(s) \in Nat \ {0} /\ Len(Tail(s)) = Len(s) - 1
  <1>1. /\ Head(s) \in S /\ Tail(s) \in Seq(S) /\ Len(s) \in Nat \ {0}
        /\ Len(Tail(s)) = Len(s) - 1
        /\ \A i \in 1 .. Len(Tail(s)) : Tail(s)[i] = s[i + 1]
    BY HeadTailProperties, EmptySeq
  <1>2. s[1] = Head(s)
    OBVIOUS
  <1> DEFINE r == << Head(s) >> \o Tail(s)
  <1>3. /\ r \in Seq(S) /\ Len(r) = Len(s)
        /\ \A i \in 1 .. Len(s) : r[i] = IF i <= 1 THEN << Head(s) >>[i] ELSE Tail(s)[i - 1]
    <2>1. << Head(s) >> \in Seq(S) /\ Len(<< Head(s) >>) = 1
      BY <1>1
    <2> QED BY <1>1, <2>1, ConcatProperties
  <1>4. \A i \in 1 .. Len(s) : r[i] = s[i]
    BY <1>1, <1>2, <1>3
  <1> HIDE DEF r
  <1>5. r = s
    BY <1>3, <1>4, SeqEqual
  <1> QED BY <1>1, <1>2, <1>5 DEF r

LEMMA TailOfConcat ==
  ASSUME NEW S, NEW s \in Seq(S), NEW t \in Seq(S), s # << >>
  PROVE  Tail(s \o t) = Tail(s) \o t
  <1>1. /\ s = << Head(s) >> \o Tail(s) /\ Head(s) \in S /\ Tail(s) \in Seq(S)
    BY HeadAndTail
  <1>2. << Head(s) >> \in Seq(S) /\ Tail(s) \o t \in Seq(S)
    BY <1>1, ConcatProperties
  <1>3. s \o t = << Head(s) >> \o (Tail(s) \o t)
    <2>1. (<< Head(s) >> \o Tail(s)) \o t = << Head(s) >> \o (Tail(s) \o t)
      BY <1>1, <1>2, ConcatAssociative
    <2> QED BY <1>1, <2>1
  <1>4. Tail(<< Head(s) >> \o (Tail(s) \o t)) = Tail(s) \o t
    BY <1>1, <1>2, SingletonProperties
  <1> QED BY <1>3, <1>4
------------------------------------------------------------------------------
(* The transactions that remain after the answer of a cycle, the one that  *)
(* is requested in it, and the word that arrives and is wanted.            *)
left(in) == IF in.rvalid THEN Tail(Outstanding) ELSE Outstanding
requested(in) == IF up(in) THEN << trans_addr(in) >> ELSE << >>
arrived(in) ==
  IF in.rvalid /\ flush_cnt_q = 0 THEN << Head(Outstanding) >> ELSE << >>

Held == IF obi_state_q = "REGISTERED" THEN << obi_addr_q >> ELSE << >>

LEMMA OutstandingTypes ==
  ASSUME TypeOK
  PROVE  /\ granted \in Seq(Addr) /\ Held \in Seq(Addr)
         /\ Outstanding \in Seq(Addr) /\ Outstanding = granted \o Held
  <1>1. granted \in Seq(Addr) /\ obi_addr_q \in Addr
    BY DEF TypeOK
  <1>2. Held \in Seq(Addr)
    BY <1>1 DEF Held
  <1>3. Outstanding = granted \o Held
    BY DEF Outstanding, Held
  <1> QED BY <1>1, <1>2, <1>3, ConcatProperties

(* The answer on the bus is that of the oldest transaction. *)
LEMMA AnswerIsOldest ==
  ASSUME TypeOK, NEW in \in AnyInputs, Clock(in), in.rvalid
  PROVE  /\ granted # << >> /\ Outstanding # << >>
         /\ Head(granted) = Head(Outstanding) /\ Head(granted) \in Addr
         /\ Tail(Outstanding) = Tail(granted) \o Held
  <1>1. granted # << >>
    BY DEF Clock, Allowed
  <1>2. /\ granted \in Seq(Addr) /\ Held \in Seq(Addr)
        /\ Outstanding = granted \o Held
    BY OutstandingTypes
  <1> DEFINE h == Head(granted)
             t == Tail(granted)
  <1>3. granted = << h >> \o t /\ h \in Addr /\ t \in Seq(Addr)
    BY <1>1, <1>2, HeadAndTail
  <1> HIDE DEF h, t
  <1>4. Outstanding = << h >> \o (t \o Held)
    <2>1. << h >> \in Seq(Addr)
      BY <1>3
    <2> QED BY <1>2, <1>3, <2>1, ConcatAssociative
  <1>5. t \o Held \in Seq(Addr)
    BY <1>2, <1>3, ConcatProperties
  <1>6. /\ Outstanding # << >> /\ Head(Outstanding) = h
        /\ Tail(Outstanding) = t \o Held
    BY <1>3, <1>4, <1>5, SingletonProperties
  <1> QED BY <1>1, <1>3, <1>6 DEF h, t

LEMMA LeftTypes ==
  ASSUME TypeOK, NEW in \in AnyInputs, Clock(in)
  PROVE  /\ left(in) \in Seq(Addr) /\ requested(in) \in Seq(Addr)
         /\ in.rvalid => Len(left(in)) = Len(Outstanding) - 1
         /\ ~in.rvalid => Len(left(in)) = Len(Outstanding)
         /\ left(in) = (IF in.rvalid THEN Tail(granted) ELSE granted) \o Held
  <1>1. Outstanding \in Seq(Addr) /\ Outstanding = granted \o Held
    BY OutstandingTypes
  <1>2. in.rvalid => /\ Outstanding # << >>
                     /\ Tail(Outstanding) = Tail(granted) \o Held
    BY AnswerIsOldest
  <1>3. requested(in) \in Seq(Addr)
    BY AddressTypes DEF requested
  <1>4. in.rvalid \in BOOLEAN
    BY InputTypes
  <1>5. left(in) = (IF in.rvalid THEN Tail(granted) ELSE granted) \o Held
    BY <1>1, <1>2, <1>4 DEF left
  <1>6. in.rvalid => /\ Tail(Outstanding) \in Seq(Addr)
                     /\ Len(Tail(Outstanding)) = Len(Outstanding) - 1
    BY <1>1, <1>2, HeadTailProperties
  <1> QED BY <1>1, <1>3, <1>4, <1>5, <1>6 DEF left

(* The bus keeps the order of the transactions.                            *)
LEMMA OutstandingStep ==
  ASSUME TypeOK, NEW in \in AnyInputs, Clock(in)
  PROVE  Outstanding' = left(in) \o requested(in)
  <1> DEFINE ans == IF in.rvalid THEN Tail(granted) ELSE granted
             a == instr_addr_o(in)
  <1>1. ans \in Seq(Addr) /\ a \in Addr /\ left(in) = ans \o Held
    BY LeftTypes, AddressTypes, AnswerIsOldest, OutstandingTypes, InputTypes
  <1>2. /\ obi_state_q \in {"TRANSPARENT", "REGISTERED"}
        /\ obi_state_q' = "REGISTERED" <=> instr_req_o(in) /\ ~in.gnt
        /\ instr_req_o(in) <=> obi_state_q = "REGISTERED" \/ trans_valid(in)
        /\ up(in) <=> trans_valid(in) /\ obi_state_q = "TRANSPARENT"
    BY AddressPhaseStep
  <1>3. granted' = ans \o (IF instr_req_o(in) /\ in.gnt THEN << a >> ELSE << >>)
    BY DEF Clock, Memory
  <1>4. instr_req_o(in) /\ ~in.gnt => obi_addr_q' = a
    BY InputTypes
    DEF TypeOK, Clock, UnitClock, instr_req_o, instr_addr_o,
        instruction_obi_i!ObiClock, instruction_obi_i!obi_req_o,
        instruction_obi_i!obi_addr_o, instruction_obi_i!Register,
        instruction_obi_i!Release, instruction_obi_i!Keep,
        instruction_obi_i!obiVars
  <1>5. /\ obi_state_q = "REGISTERED" => a = obi_addr_q
        /\ obi_state_q = "TRANSPARENT" => a = trans_addr(in)
    BY DEF instr_addr_o, instruction_obi_i!obi_addr_o
  <1>6. Held \o requested(in) = IF instr_req_o(in) THEN << a >> ELSE << >>
    <2>1. << a >> \o << >> = << a >> /\ << >> \o << a >> = << a >>
          /\ << >> \o << >> = << >>
      BY <1>1
    <2> HIDE DEF a
    <2> QED BY <1>2, <1>5, <2>1 DEF Held, requested
  <1>7. Outstanding' = ans \o (IF instr_req_o(in) THEN << a >> ELSE << >>)
    <2> HIDE DEF a, ans
    <2>1. << a >> \in Seq(Addr) /\ << >> \in Seq(Addr)
          /\ ans \o << a >> \in Seq(Addr)
      BY <1>1
    <2>2. CASE instr_req_o(in) /\ in.gnt
      <3>1. Outstanding' = granted' \o << >> /\ granted' = ans \o << a >>
        BY <1>2, <1>3, <2>2 DEF Outstanding
      <3> QED BY <2>1, <2>2, <3>1, ConcatEmptySeq
    <2>3. CASE instr_req_o(in) /\ ~in.gnt
      <3>1. Outstanding' = granted' \o << a >> /\ granted' = ans \o << >>
        BY <1>2, <1>3, <1>4, <2>3 DEF Outstanding
      <3> QED BY <1>1, <2>3, <3>1, ConcatEmptySeq
    <2>4. CASE ~instr_req_o(in)
      <3>1. Outstanding' = granted' \o << >> /\ granted' = ans \o << >>
        BY <1>2, <1>3, <2>4 DEF Outstanding
      <3> QED BY <1>1, <2>4, <3>1, ConcatEmptySeq
    <2> QED BY <2>2, <2>3, <2>4, InputTypes
  <1>8. Outstanding' = ans \o (Held \o requested(in))
    BY <1>6, <1>7
  <1>9. Held \in Seq(Addr) /\ requested(in) \in Seq(Addr)
    BY OutstandingTypes, LeftTypes
  <1> HIDE DEF ans
  <1> QED BY <1>1, <1>8, <1>9, ConcatAssociative
------------------------------------------------------------------------------
NextAddr(a) == prefetch_controller_i!NextAddr(a)

LEMMA NextAddrTypes ==
  /\ \A a \in Addr : NextAddr(a) \in Addr
  /\ \A a \in Addr : NextAddr(a) = FetchStream!Successor(a)
  BY WordsAssumption
  DEF Addr, NextAddr, prefetch_controller_i!NextAddr, FetchStream!Successor

(* The word that is requested next. *)
LEMMA NextRequestTypes ==
  ASSUME TypeOK
  PROVE  NextRequest \in Addr
  BY NextAddrTypes DEF TypeOK, NextRequest, NextAddr

LEMMA NextRequestStep ==
  ASSUME TypeOK, NEW in \in AnyInputs, Clock(in)
  PROVE  /\ ~in.branch /\ ~in.hwlp_jump =>
              /\ up(in) => /\ trans_addr(in) = NextRequest
                           /\ NextRequest' = NextAddr(NextRequest)
              /\ ~up(in) => NextRequest' = NextRequest
         /\ in.branch \/ (in.hwlp_jump /\ state_q = "IDLE") =>
              /\ up(in) => /\ trans_addr(in) = in.target
                           /\ NextRequest' = NextAddr(in.target)
              /\ ~up(in) => NextRequest' = in.target
  <1> USE InputTypes
      DEF TypeOK, Clock, UnitClock, Wired, up, trans_addr, NextRequest, NextAddr,
      prefetch_controller_i!CtrlClock, prefetch_controller_i!State,
      prefetch_controller_i!Address, prefetch_controller_i!Redirect,
      prefetch_controller_i!trans_addr_o, prefetch_controller_i!NextAddr
  <1>1. CASE in.branch
    BY <1>1
  <1>2. CASE ~in.branch /\ in.hwlp_jump /\ state_q = "IDLE"
    BY <1>2
  <1>3. CASE ~in.branch /\ ~in.hwlp_jump
    BY <1>3
  <1> QED BY <1>1, <1>2, <1>3
------------------------------------------------------------------------------
(* Wanted with the definitions of this module. *)
LEMMA WantedIsDrop ==
  ASSUME hwlp_flush_cnt_delayed_q \in Nat
  PROVE  /\ hwlp_flush_after_resp =>
              Wanted = << Outstanding[1] >>
                       \o Drop(Outstanding, hwlp_flush_cnt_delayed_q + 1)
         /\ ~hwlp_flush_after_resp => Wanted = Drop(Outstanding, flush_cnt_q)
  <1>1. hwlp_flush_cnt_delayed_q + 2 = (hwlp_flush_cnt_delayed_q + 1) + 1
    OBVIOUS
  <1> QED BY <1>1 DEF Wanted, Drop

LEMMA NextWantedIsDrop ==
  ASSUME hwlp_flush_cnt_delayed_q' \in Nat
  PROVE  /\ hwlp_flush_after_resp' =>
              Wanted' = << Outstanding'[1] >>
                        \o Drop(Outstanding', hwlp_flush_cnt_delayed_q' + 1)
         /\ ~hwlp_flush_after_resp' => Wanted' = Drop(Outstanding', flush_cnt_q')
  <1>1. hwlp_flush_cnt_delayed_q' + 2 = (hwlp_flush_cnt_delayed_q' + 1) + 1
    OBVIOUS
  <1> QED BY <1>1 DEF Wanted, Drop

LEMMA FlushTypes ==
  ASSUME IInv
  PROVE  /\ TypeOK
         /\ Outstanding \in Seq(Addr) /\ Len(Outstanding) \in Nat
         /\ flush_cnt_q \in Nat /\ hwlp_flush_cnt_delayed_q \in Nat
         /\ ~hwlp_flush_after_resp => flush_cnt_q <= Len(Outstanding)
         /\ hwlp_flush_after_resp =>
              flush_cnt_q = 0 /\ hwlp_flush_cnt_delayed_q + 1 <= Len(Outstanding)
         /\ hwlp_flush_after_resp \in BOOLEAN
  BY OutstandingTypes, LenProperties, DepthAssumption
  DEF IInv, TypeOK, CountsOutstanding, WantedWordsFit, LoopEndPending, Unwanted

LEMMA WantedTypes ==
  ASSUME IInv
  PROVE  /\ Wanted \in Seq(Addr)
         /\ Len(Wanted) = cnt_q - Unwanted
  <1>1. cnt_q = Len(Outstanding)
    BY DEF IInv, CountsOutstanding
  <1>2. CASE ~hwlp_flush_after_resp
    BY <1>1, <1>2, FlushTypes, WantedIsDrop, DropProperties DEF Unwanted
  <1>3. CASE hwlp_flush_after_resp
    <2> DEFINE k == hwlp_flush_cnt_delayed_q + 1
    <2>1. k \in 0 .. Len(Outstanding) /\ 1 \in 1 .. Len(Outstanding)
      BY <1>3, FlushTypes
    <2>2. /\ Drop(Outstanding, k) \in Seq(Addr) /\ Outstanding[1] \in Addr
          /\ Len(Drop(Outstanding, k)) = Len(Outstanding) - k
      BY <2>1, FlushTypes, DropProperties, ElementOfSeq
    <2>3. Wanted = << Outstanding[1] >> \o Drop(Outstanding, k)
      BY <1>3, FlushTypes, WantedIsDrop
    <2>4. /\ Wanted \in Seq(Addr)
          /\ Len(Wanted) = Len(Drop(Outstanding, k)) + 1
      BY <2>2, <2>3, SingletonProperties
    <2> QED BY <1>1, <1>3, <2>2, <2>4, FlushTypes DEF Unwanted
  <1> QED BY <1>2, <1>3

(* The flush counters in a cycle without redirection. *)
LEMMA SequentialFlush ==
  ASSUME IInv, NEW in \in AnyInputs, Clock(in), ~in.branch, ~in.hwlp_jump
  PROVE  /\ hwlp_flush_after_resp /\ in.rvalid =>
              /\ flush_cnt_q' = hwlp_flush_cnt_delayed_q
              /\ hwlp_flush_after_resp' = FALSE
         /\ ~(hwlp_flush_after_resp /\ in.rvalid) =>
              /\ flush_cnt_q' = IF in.rvalid /\ flush_cnt_q > 0
                                  THEN flush_cnt_q - 1 ELSE flush_cnt_q
              /\ hwlp_flush_after_resp' = hwlp_flush_after_resp
         /\ hwlp_flush_cnt_delayed_q' = IF hwlp_flush_after_resp /\ in.rvalid
                                          THEN 0 ELSE hwlp_flush_cnt_delayed_q
         /\ hwlp_flush_cnt_delayed_q \in Nat /\ hwlp_flush_cnt_delayed_q' \in Nat
  <1>1. TypeOK /\ hwlp_flush_cnt_delayed_q \in Nat
    BY FlushTypes
  <1>2. CASE hwlp_flush_after_resp /\ in.rvalid
    <2>1. /\ flush_cnt_q' = hwlp_flush_cnt_delayed_q
          /\ hwlp_flush_after_resp' = FALSE
          /\ hwlp_flush_cnt_delayed_q' = 0
      BY <1>1, <1>2, FlushStep
    <2> QED BY <1>1, <1>2, <2>1
  <1>3. CASE ~(hwlp_flush_after_resp /\ in.rvalid)
    <2>1. /\ flush_cnt_q' = IF in.rvalid /\ flush_cnt_q > 0
                              THEN flush_cnt_q - 1 ELSE flush_cnt_q
          /\ hwlp_flush_after_resp' = hwlp_flush_after_resp
          /\ hwlp_flush_cnt_delayed_q' = hwlp_flush_cnt_delayed_q
      BY <1>1, <1>3, FlushStep
    <2> QED BY <1>1, <1>3, <2>1
  <1> QED BY <1>2, <1>3

(* In a cycle without redirection the first wanted word may arrive, and    *)
(* the one that is requested is wanted.                                    *)
LEMMA WantedStep ==
  ASSUME IInv, NEW in \in AnyInputs, Clock(in), ~in.branch, ~in.hwlp_jump
  PROVE  \E rest \in Seq(Addr) :
           /\ Wanted = arrived(in) \o rest
           /\ Wanted' = rest \o requested(in)
  <1> DEFINE O == Outstanding
             r == requested(in)
  <1>1. /\ TypeOK /\ O \in Seq(Addr) /\ Wanted \in Seq(Addr) /\ r \in Seq(Addr)
        /\ left(in) \in Seq(Addr) /\ O' = left(in) \o r
        /\ in.rvalid \in BOOLEAN /\ hwlp_flush_after_resp \in BOOLEAN
        /\ Len(O) \in Nat
    BY FlushTypes, WantedTypes, LeftTypes, OutstandingStep, InputTypes
  <1>2. in.rvalid => /\ O # << >> /\ O = << Head(O) >> \o Tail(O)
                     /\ Head(O) \in Addr /\ Tail(O) \in Seq(Addr)
                     /\ O[1] = Head(O) /\ Len(Tail(O)) = Len(O) - 1
    BY <1>1, AnswerIsOldest, HeadAndTail
  <1>3. CASE ~hwlp_flush_after_resp /\ ~(in.rvalid /\ flush_cnt_q = 0)
    <2> DEFINE k == IF in.rvalid THEN flush_cnt_q - 1 ELSE flush_cnt_q
    <2>1. flush_cnt_q \in 0 .. Len(O) /\ Wanted = Drop(O, flush_cnt_q)
      BY <1>3, FlushTypes, WantedIsDrop
    <2>2. flush_cnt_q' = k /\ ~hwlp_flush_after_resp' /\ k \in 0 .. Len(left(in))
      <3>1. /\ flush_cnt_q' = IF in.rvalid /\ flush_cnt_q > 0
                                THEN flush_cnt_q - 1 ELSE flush_cnt_q
            /\ hwlp_flush_after_resp' = hwlp_flush_after_resp
        BY <1>3, SequentialFlush
      <3>2. /\ in.rvalid => Len(left(in)) = Len(O) - 1
            /\ ~in.rvalid => Len(left(in)) = Len(O)
        BY <1>1, LeftTypes
      <3> QED BY <1>1, <1>3, <2>1, <3>1, <3>2
    <2>3. Wanted' = Drop(left(in) \o r, k)
      BY <1>1, <2>2, NextWantedIsDrop, SequentialFlush
    <2>4. Wanted' = Drop(left(in), k) \o r
      <3> HIDE DEF k, r, O
      <3> QED BY <1>1, <2>2, <2>3, DropOfConcat
    <2>5. Drop(left(in), k) = Wanted
      <3>1. CASE in.rvalid
        <4>1. k \in 0 .. Len(O) - 1 /\ k + 1 = flush_cnt_q
          BY <1>1, <1>3, <2>1, <3>1
        <4> QED BY <1>1, <1>2, <2>1, <3>1, <4>1, DropOfTail DEF left
      <3>2. CASE ~in.rvalid
        BY <2>1, <3>2 DEF left
      <3> QED BY <3>1, <3>2
    <2>6. Wanted = arrived(in) \o Wanted
      BY <1>1, <1>3, ConcatEmptySeq DEF arrived
    <2> QED BY <1>1, <2>4, <2>5, <2>6
  <1>4. CASE ~hwlp_flush_after_resp /\ in.rvalid /\ flush_cnt_q = 0
    <2>1. Wanted = O
      BY <1>1, <1>4, WantedIsDrop, SequentialFlush, DropNone
    <2>2. flush_cnt_q' = 0 /\ ~hwlp_flush_after_resp'
      <3>1. /\ flush_cnt_q' = IF in.rvalid /\ flush_cnt_q > 0
                                THEN flush_cnt_q - 1 ELSE flush_cnt_q
            /\ hwlp_flush_after_resp' = hwlp_flush_after_resp
        BY <1>4, SequentialFlush
      <3> QED BY <1>4, <3>1
    <2>3. Wanted' = O'
      BY <1>1, <2>2, NextWantedIsDrop, SequentialFlush, DropNone, ConcatProperties
    <2> QED BY <1>1, <1>2, <1>4, <2>1, <2>3 DEF left, arrived
  <1>5. CASE hwlp_flush_after_resp
    <2> DEFINE k == hwlp_flush_cnt_delayed_q + 1
               rest == Drop(O, k)
    <2>1. /\ k \in 0 .. Len(O) /\ flush_cnt_q = 0 /\ rest \in Seq(Addr)
          /\ hwlp_flush_cnt_delayed_q \in 0 .. Len(O) - 1
          /\ Wanted = << O[1] >> \o rest
          /\ O[1] \in Addr
      <3>1. /\ k \in 0 .. Len(O) /\ flush_cnt_q = 0
            /\ hwlp_flush_cnt_delayed_q \in 0 .. Len(O) - 1
            /\ 1 \in 1 .. Len(O)
        BY <1>5, FlushTypes
      <3>2. Wanted = << O[1] >> \o rest
        BY <1>5, FlushTypes, WantedIsDrop
      <3>3. rest \in Seq(Addr) /\ O[1] \in Addr
        BY <1>1, <3>1, DropProperties, ElementOfSeq
      <3> QED BY <3>1, <3>2, <3>3
    <2>2. CASE in.rvalid
      <3>1. flush_cnt_q' = hwlp_flush_cnt_delayed_q /\ ~hwlp_flush_after_resp'
        BY <1>1, <1>5, <2>2, FlushStep
      <3>2. Wanted' = Drop(Tail(O) \o r, hwlp_flush_cnt_delayed_q)
        BY <1>1, <2>2, <3>1, NextWantedIsDrop, SequentialFlush DEF left
      <3>3. hwlp_flush_cnt_delayed_q \in 0 .. Len(Tail(O))
        BY <1>2, <2>1, <2>2
      <3>4. Wanted' = Drop(Tail(O), hwlp_flush_cnt_delayed_q) \o r
        <4> HIDE DEF r, O
        <4> QED BY <1>1, <1>2, <2>2, <3>2, <3>3, DropOfConcat
      <3>5. Drop(Tail(O), hwlp_flush_cnt_delayed_q) = rest
        BY <1>1, <1>2, <2>1, <2>2, DropOfTail
      <3> QED BY <1>2, <2>1, <2>2, <3>4, <3>5 DEF arrived
    <2>3. CASE ~in.rvalid
      <3>1. /\ hwlp_flush_after_resp'
            /\ hwlp_flush_cnt_delayed_q' = hwlp_flush_cnt_delayed_q
        BY <1>1, <1>5, <2>3, FlushStep
      <3>2. O' = O \o r
        BY <1>1, <2>3 DEF left
      <3>3. O'[1] = O[1]
        BY <1>1, <2>1, <3>2, ConcatProperties, LenProperties
      <3>4. Wanted' = << O[1] >> \o Drop(O \o r, k)
        BY <3>1, <3>2, <3>3, NextWantedIsDrop, SequentialFlush
      <3>5. Drop(O \o r, k) = rest \o r
        <4> HIDE DEF r, O, k
        <4> QED BY <1>1, <2>1, DropOfConcat
      <3>6. Wanted' = Wanted \o r
        <4>1. << O[1] >> \in Seq(Addr) /\ r \in Seq(Addr) /\ rest \in Seq(Addr)
          BY <1>1, <2>1
        <4>2. (<< O[1] >> \o rest) \o r = << O[1] >> \o (rest \o r)
          BY <4>1, ConcatAssociative
        <4> QED BY <2>1, <3>4, <3>5, <4>2
      <3>7. Wanted = arrived(in) \o Wanted
        BY <1>1, <2>3, ConcatEmptySeq DEF arrived
      <3> QED BY <1>1, <3>6, <3>7
    <2> QED BY <1>1, <2>2, <2>3
  <1> QED BY <1>1, <1>3, <1>4, <1>5

(* After a redirection without a last word under way, only what is         *)
(* requested is wanted.                                                    *)
LEMMA NothingOldWanted ==
  ASSUME IInv, NEW in \in AnyInputs, Clock(in),
         ~hwlp_flush_after_resp', hwlp_flush_cnt_delayed_q' \in Nat,
         flush_cnt_q' = IF in.rvalid /\ cnt_q > 0 THEN cnt_q - 1 ELSE cnt_q
  PROVE  Wanted' = requested(in)
  <1>1. /\ TypeOK /\ cnt_q = Len(Outstanding) /\ Len(Outstanding) \in Nat
        /\ Outstanding' = left(in) \o requested(in)
        /\ left(in) \in Seq(Addr) /\ requested(in) \in Seq(Addr)
    BY FlushTypes, LeftTypes, OutstandingStep DEF IInv, CountsOutstanding
  <1>2. flush_cnt_q' = Len(left(in)) /\ Len(left(in)) \in 0 .. Len(left(in))
    <2>1. /\ in.rvalid => Len(left(in)) = Len(Outstanding) - 1 /\ cnt_q > 0
          /\ ~in.rvalid => Len(left(in)) = Len(Outstanding)
      BY <1>1, LeftTypes, CountInvariant
    <2>2. Len(left(in)) \in Nat /\ in.rvalid \in BOOLEAN
      BY <1>1, LenProperties, InputTypes
    <2> QED BY <1>1, <2>1, <2>2
  <1>3. Wanted' = Drop(left(in) \o requested(in), Len(left(in)))
    BY <1>1, <1>2, NextWantedIsDrop
  <1> QED BY <1>1, <1>3, DropPrefix

LEMMA BranchWanted ==
  ASSUME IInv, NEW in \in AnyInputs, Clock(in), in.branch
  PROVE  Wanted' = requested(in)
  <1>1. /\ flush_cnt_q' = IF in.rvalid /\ cnt_q > 0 THEN cnt_q - 1 ELSE cnt_q
        /\ hwlp_flush_after_resp' = FALSE
        /\ hwlp_flush_cnt_delayed_q' = 0
    BY FlushTypes, FlushStep
  <1> QED BY <1>1, NothingOldWanted

(* Before a hardware-loop jump every transaction under way is wanted.       *)
NoRedirection ==
  /\ cnt_q > 0 \/ status_cnt_q > 0
  /\ flush_cnt_q = 0 /\ hwlp_flush_after_resp = FALSE
  /\ state_q = "IDLE"

LEMMA NoRedirectionWanted ==
  ASSUME IInv, NoRedirection
  PROVE  Wanted = Outstanding
  BY FlushTypes, WantedIsDrop, DropNone DEF NoRedirection

(* A hardware-loop jump keeps the oldest word: it is in the FIFO, or it    *)
(* arrives, or it is the only old one that stays wanted.                   *)
LEMMA JumpWanted ==
  ASSUME IInv, NoRedirection, PULP_XPULP, NEW in \in AnyInputs, Clock(in),
         ~in.branch, in.hwlp_jump
  PROVE  /\ status_cnt_q > 0 \/ in.rvalid => Wanted' = requested(in)
         /\ status_cnt_q = 0 /\ ~in.rvalid =>
              /\ Wanted # << >>
              /\ Wanted' = << Head(Wanted) >> \o requested(in)
  <1>1. /\ TypeOK /\ cnt_q = Len(Outstanding) /\ Outstanding \in Seq(Addr)
        /\ hwlp_flush_cnt_delayed_q \in Nat /\ in.rvalid \in BOOLEAN
        /\ cnt_q \in Nat /\ status_cnt_q \in Nat
        /\ Wanted = Outstanding
    BY FlushTypes, InputTypes, NoRedirectionWanted, DepthAssumption
    DEF IInv, CountsOutstanding, TypeOK
  <1>2. /\ cnt_q > 0 \/ status_cnt_q > 0
        /\ hwlp_flush_after_resp = FALSE /\ flush_cnt_q = 0
    BY DEF NoRedirection
  <1>3. \/ /\ status_cnt_q > 0 \/ in.rvalid
           /\ flush_cnt_q' = IF in.rvalid /\ cnt_q > 0 THEN cnt_q - 1 ELSE cnt_q
        \/ /\ status_cnt_q = 0 /\ ~in.rvalid
           /\ hwlp_flush_after_resp' = TRUE
           /\ hwlp_flush_cnt_delayed_q' = cnt_q - 1
    BY <1>1, FlushStep
  <1>4. CASE status_cnt_q > 0 \/ in.rvalid
    <2>1. flush_cnt_q' = IF in.rvalid /\ cnt_q > 0 THEN cnt_q - 1 ELSE cnt_q
      BY <1>1, <1>4, <1>3
    <2>2. ~hwlp_flush_after_resp' /\ hwlp_flush_cnt_delayed_q' \in Nat
      BY <1>1, <1>2, <1>4
      DEF Clock, UnitClock, prefetch_controller_i!CtrlClock,
          prefetch_controller_i!DelayedFlush, Wired,
          prefetch_controller_i!hwlp_wait_resp_flush,
          prefetch_controller_i!hwlp_flush_resp_delayed
    <2>3. Wanted' = requested(in)
      BY <2>1, <2>2, NothingOldWanted
    <2> QED BY <1>1, <1>4, <2>3
  <1>5. CASE status_cnt_q = 0 /\ ~in.rvalid
    <2> DEFINE r == requested(in)
               O == Outstanding
    <2>1. /\ hwlp_flush_after_resp' /\ hwlp_flush_cnt_delayed_q' = cnt_q - 1
          /\ cnt_q \in Nat \ {0}
      BY <1>1, <1>2, <1>5, <1>3
    <2>2. O' = O \o r /\ r \in Seq(Addr)
      BY <1>1, <1>5, OutstandingStep, LeftTypes DEF left
    <2>3. O # << >> /\ O[1] = Head(O) /\ Head(O) \in Addr
      BY <1>1, <2>1, HeadAndTail, EmptySeq
    <2>4. O'[1] = O[1]
      BY <1>1, <2>1, <2>2, ConcatProperties, LenProperties
    <2>5. hwlp_flush_cnt_delayed_q' + 1 = Len(O) /\ Len(O) \in 0 .. Len(O)
      BY <1>1, <2>1
    <2>6. Wanted' = << Head(O) >> \o Drop(O \o r, Len(O))
      BY <2>1, <2>2, <2>3, <2>4, <2>5, NextWantedIsDrop
    <2>7. Drop(O \o r, Len(O)) = r
      BY <1>1, <2>2, DropPrefix
    <2> QED BY <1>1, <1>5, <2>3, <2>6, <2>7
  <1> QED BY <1>1, <1>4, <1>5
------------------------------------------------------------------------------
(* The FIFO is a queue (Fifo_proofs) of as many words as its pointer       *)
(* register has values.                                                    *)
LEMMA RingAssumptions ==
  Ring!DepthAssumption /\ Ring!PtrAssumption /\ Ring!ResetWordAssumption
  BY DepthAssumption, WordsAssumption
  DEF Ring!DepthAssumption, Ring!PtrAssumption, Ring!ResetWordAssumption, Addr

LEMMA RingIsFifo ==
  /\ Ring!Contents = fifo_i!Contents
  /\ Ring!Contents' = fifo_i!Contents'
  BY DEF Ring!Contents, fifo_i!Contents, Ring!Slot, fifo_i!Slot

LEMMA RingTypes ==
  ASSUME TypeOK
  PROVE  Ring!FifoTypeOK
  BY DEF TypeOK, Ring!FifoTypeOK

flush(in) == prefetch_controller_i!fifo_flush_o(Wired(in))
keep_first(in) == prefetch_controller_i!fifo_flush_but_first_o(Wired(in))
push(in) == prefetch_controller_i!fifo_push_o(Wired(in))
pop(in) == prefetch_controller_i!fifo_pop_o(Wired(in))
word(in) == IF in.rvalid THEN Head(granted) ELSE 0

LEMMA RingInputs ==
  ASSUME TypeOK, NEW in \in AnyInputs, Clock(in)
  PROVE  /\ word(in) \in Addr
         /\ flush(in) \in BOOLEAN /\ keep_first(in) \in BOOLEAN
         /\ push(in) \in BOOLEAN /\ pop(in) \in BOOLEAN
         /\ Ring!FifoClock(flush(in), keep_first(in), push(in), pop(in), word(in))
  <1>1. word(in) \in Addr
    BY WordsAssumption, InputTypes DEF TypeOK, Addr, Clock, Allowed, word
  <1>2. /\ flush(in) \in BOOLEAN /\ keep_first(in) \in BOOLEAN
        /\ push(in) \in BOOLEAN /\ pop(in) \in BOOLEAN
    BY InputTypes, FlagsAssumption
    DEF flush, keep_first, push, pop, Wired, prefetch_controller_i!fifo_flush_o,
        prefetch_controller_i!fifo_flush_but_first_o,
        prefetch_controller_i!fifo_push_o, prefetch_controller_i!fifo_pop_o
  <1>3. Ring!FifoClock(flush(in), keep_first(in), push(in), pop(in), word(in))
    <2>1. fifo_i!FifoClock(flush(in), keep_first(in), push(in), pop(in), word(in))
      BY DEF Clock, UnitClock, flush, keep_first, push, pop, word
    <2> QED
      BY <1>2, <2>1
      DEF Ring!FifoClock, fifo_i!FifoClock, Ring!Store, fifo_i!Store,
          Ring!Flush, fifo_i!Flush, Ring!FlushButFirst, fifo_i!FlushButFirst,
          Ring!Transfer, fifo_i!Transfer, Ring!full_o, fifo_i!full_o,
          Ring!empty_o, fifo_i!empty_o, Ring!NextPointer, fifo_i!NextPointer,
          Ring!PointerPlusOne, fifo_i!PointerPlusOne
  <1> QED BY <1>1, <1>2, <1>3

(* The pointers of the FIFO agree with the number of its words. *)
LEMMA RingStep ==
  ASSUME TypeOK, Ring!PointersAgree, NEW in \in AnyInputs, Clock(in)
  PROVE  Ring!IInv /\ Ring!FifoTypeOK' /\ Ring!PointersAgree'
  <1>1. Ring!IInv
    BY RingTypes DEF Ring!IInv
  <1>2. Ring!IInv'
    BY <1>1, RingInputs, RingAssumptions, Ring!ClockIsQueueStep
  <1> QED BY <1>1, <1>2 DEF Ring!IInv

LEMMA ContentsTypes ==
  ASSUME TypeOK
  PROVE  /\ fifo_i!Contents \in Seq(Addr)
         /\ Len(fifo_i!Contents) = status_cnt_q
         /\ status_cnt_q \in 0 .. DEPTH
         /\ status_cnt_q > 0 <=> fifo_i!Contents # << >>
         /\ status_cnt_q > 0 => fifo_i!Contents[1] = fifo_i!data_o
  <1> DEFINE C == fifo_i!Contents
  <1>1. /\ C \in Seq(Addr) /\ Len(C) = status_cnt_q
        /\ \A i \in 1 .. status_cnt_q : C[i] = mem_q[Ring!Slot(i)]
    BY RingTypes, RingAssumptions, RingIsFifo, Ring!ContentsProperties
    DEF Ring!ContentsOK
  <1>2. status_cnt_q \in 0 .. DEPTH /\ read_pointer_q \in 0 .. DEPTH - 1
    BY DEF TypeOK
  <1>3. Ring!Slot(1) = read_pointer_q
    BY <1>2, DepthAssumption DEF Ring!Slot
  <1> HIDE DEF C
  <1>4. status_cnt_q > 0 => 1 \in 1 .. status_cnt_q
    BY <1>2, DepthAssumption
  <1>5. status_cnt_q > 0 <=> C # << >>
    BY <1>1, <1>2, EmptySeq, DepthAssumption
  <1> QED BY <1>1, <1>2, <1>3, <1>4, <1>5 DEF C, fifo_i!data_o

(* The words the unit can hand over: those of the FIFO and the one that    *)
(* arrives.                                                                *)
offered(in) == fifo_i!Contents \o arrived(in)

(* A word that arrives and is wanted finds a free slot. *)
LEMMA NewWordFits ==
  ASSUME IInv, NEW in \in AnyInputs, Clock(in), in.rvalid, flush_cnt_q = 0
  PROVE  status_cnt_q < DEPTH
  <1>1. cnt_q > 0 /\ cnt_q \in 0 .. DEPTH /\ status_cnt_q \in 0 .. DEPTH
    BY CountInvariant
  <1>2. Unwanted < cnt_q /\ Unwanted \in Nat
    BY <1>1, FlushTypes DEF IInv, LoopEndPending, Unwanted
  <1>3. status_cnt_q + (cnt_q - Unwanted) <= DEPTH
    BY DEF IInv, WantedWordsFit
  <1> QED BY <1>1, <1>2, <1>3, DepthAssumption

LEMMA OfferedTypes ==
  ASSUME IInv, NEW in \in AnyInputs, Clock(in)
  PROVE  /\ fifo_i!Contents \in Seq(Addr)
         /\ arrived(in) \in Seq(Addr) /\ offered(in) \in Seq(Addr)
         /\ status_cnt_q > 0 <=> fifo_i!Contents # << >>
         /\ status_cnt_q > 0 =>
              /\ offered(in) # << >>
              /\ Head(offered(in)) = fifo_i!data_o
              /\ Tail(offered(in)) = Tail(fifo_i!Contents) \o arrived(in)
         /\ ~(status_cnt_q > 0) => offered(in) = arrived(in)
         /\ in.rvalid /\ flush_cnt_q = 0 =>
              /\ arrived(in) = << Head(granted) >> /\ word(in) = Head(granted)
              /\ Head(granted) \in Addr
         /\ ~(in.rvalid /\ flush_cnt_q = 0) => arrived(in) = << >>
         /\ in.fetch_ready =>
              /\ status_cnt_q > 0 \/ in.rvalid
              /\ flush_cnt_q = 0 /\ ~in.branch
         /\ in.rvalid \in BOOLEAN /\ in.fetch_ready \in BOOLEAN
  <1> DEFINE C == fifo_i!Contents
             a == arrived(in)
  <1>1. /\ TypeOK /\ C \in Seq(Addr) /\ (status_cnt_q > 0 <=> C # << >>)
        /\ status_cnt_q > 0 => C[1] = fifo_i!data_o
    BY FlushTypes, ContentsTypes
  <1>2. in.rvalid => Head(granted) = Head(Outstanding) /\ Head(granted) \in Addr
    BY <1>1, AnswerIsOldest
  <1>3. /\ in.rvalid /\ flush_cnt_q = 0 =>
             a = << Head(granted) >> /\ word(in) = Head(granted)
        /\ ~(in.rvalid /\ flush_cnt_q = 0) => a = << >>
    BY <1>2 DEF arrived, word
  <1>4. a \in Seq(Addr)
    <2>1. \A h \in Addr : << h >> \in Seq(Addr)
      OBVIOUS
    <2> HIDE DEF a
    <2> QED BY <1>2, <1>3, <2>1, EmptySeq
  <1>5. in.fetch_ready => /\ status_cnt_q > 0 \/ in.rvalid
                          /\ flush_cnt_q = 0 /\ ~in.branch
    BY <1>1, TakeStep
  <1> HIDE DEF C, a
  <1>6. C \o a \in Seq(Addr)
    BY <1>1, <1>4, ConcatProperties
  <1>7. ~(status_cnt_q > 0) => C \o a = a
    BY <1>1, <1>4, ConcatEmptySeq
  <1>8. ASSUME status_cnt_q > 0
        PROVE  /\ C \o a # << >> /\ Head(C \o a) = fifo_i!data_o
               /\ Tail(C \o a) = Tail(C) \o a
    <2>1. C # << >> /\ Head(C) = fifo_i!data_o
      BY <1>1, <1>8, HeadAndTail
    <2>2. /\ C = << Head(C) >> \o Tail(C) /\ Head(C) \in Addr
          /\ Tail(C) \in Seq(Addr) /\ << Head(C) >> \in Seq(Addr)
      BY <1>1, <2>1, HeadAndTail
    <2>3. C \o a = << Head(C) >> \o (Tail(C) \o a)
      <3>1. (<< Head(C) >> \o Tail(C)) \o a = << Head(C) >> \o (Tail(C) \o a)
        BY <1>4, <2>2, ConcatAssociative
      <3> QED BY <2>2, <3>1
    <2>4. Tail(C) \o a \in Seq(Addr)
      BY <1>4, <2>2, ConcatProperties
    <2> QED BY <2>1, <2>2, <2>3, <2>4, SingletonProperties
  <1> QED
    BY <1>1, <1>2, <1>3, <1>4, <1>5, <1>6, <1>7, <1>8, InputTypes
    DEF C, a, offered

(* The word taken is the first one offered. *)
LEMMA TakenWord ==
  ASSUME IInv, NEW in \in AnyInputs, Clock(in)
  PROVE  /\ in.fetch_ready => /\ offered(in) # << >>
                              /\ fetched' = Head(offered(in))
         /\ ~in.fetch_ready => fetched' = None
  <1>1. in.fetch_ready => fetched' = fetch_rdata_o(in)
    BY DEF Clock, FetchStage
  <1>2. ~in.fetch_ready => fetched' = None
    BY DEF Clock, FetchStage
  <1>3. status_cnt_q \in Nat
    BY DEF IInv, TypeOK
  <1>4. CASE in.fetch_ready /\ status_cnt_q > 0
    <2>1. fetch_rdata_o(in) = fifo_i!data_o
      BY <1>3, <1>4 DEF fetch_rdata_o, fifo_i!empty_o
    <2> QED BY <1>1, <1>4, <2>1, OfferedTypes
  <1>5. CASE in.fetch_ready /\ ~(status_cnt_q > 0)
    <2>1. fetch_rdata_o(in) = Head(granted)
      BY <1>3, <1>5 DEF fetch_rdata_o, fifo_i!empty_o
    <2>2. offered(in) = << Head(granted) >> /\ Head(granted) \in Addr
      BY <1>5, OfferedTypes
    <2> QED BY <1>1, <1>5, <2>1, <2>2
  <1> QED BY <1>2, <1>4, <1>5

(* The FIFO in a cycle in which nothing empties it. *)
LEMMA TransferContents ==
  ASSUME IInv, Ring!PointersAgree, NEW in \in AnyInputs, Clock(in),
         ~flush(in), ~keep_first(in), ~in.branch
  PROVE  fifo_i!Contents' = IF in.fetch_ready THEN Tail(offered(in)) ELSE offered(in)
  <1> DEFINE C == fifo_i!Contents
  <1>1. TypeOK
    BY FlushTypes
  <1>2. /\ Ring!Transfer(push(in), pop(in)) /\ Ring!Store(push(in), word(in))
        /\ push(in) \in BOOLEAN /\ pop(in) \in BOOLEAN /\ word(in) \in Addr
    BY <1>1, RingInputs DEF Ring!FifoClock
  <1>3. Ring!Queue!Transfer(push(in), pop(in), word(in))
    BY <1>1, <1>2, RingStep, RingAssumptions, Ring!TransferStep
  <1>4. /\ C \in Seq(Addr) /\ Len(C) = status_cnt_q /\ status_cnt_q \in 0 .. DEPTH
        /\ C = Ring!Contents /\ C' = Ring!Contents'
    BY <1>1, ContentsTypes, RingIsFifo
  <1>5. /\ pop(in) <=> status_cnt_q > 0 /\ in.fetch_ready
        /\ push(in) <=> /\ in.rvalid /\ flush_cnt_q = 0
                        /\ status_cnt_q > 0 \/ ~in.fetch_ready
    BY DEF pop, push, Wired, prefetch_controller_i!fifo_pop_o,
           prefetch_controller_i!fifo_push_o
  <1> HIDE DEF C
  <1>6. C' = Ring!Queue!Pushed(Ring!Queue!Popped(C, pop(in)), push(in), word(in))
    <2>1. pop(in) => C # << >>
      BY <1>4, <1>5, OfferedTypes DEF C
    <2>2. push(in) => Len(C) < DEPTH
      BY <1>4, <1>5, NewWordFits
    <2>3. /\ Ring!Queue!HandsOver(pop(in)) = pop(in)
          /\ Ring!Queue!Accepts(push(in)) = push(in)
      BY <1>2, <1>4, <2>1, <2>2 DEF Ring!Queue!HandsOver, Ring!Queue!Accepts
    <2> QED BY <1>3, <1>4, <2>3 DEF Ring!Queue!Transfer
  <1>7. push(in) => arrived(in) = << word(in) >>
    BY <1>5, OfferedTypes
  <1>8. CASE status_cnt_q > 0
    <2> DEFINE q == IF pop(in) THEN Tail(C) ELSE C
    <2>1. q \in Seq(Addr)
      BY <1>4, <1>5, <1>8, OfferedTypes, HeadTailProperties DEF C
    <2>2. C' = IF push(in) THEN Append(q, word(in)) ELSE q
      BY <1>6 DEF Ring!Queue!Pushed, Ring!Queue!Popped
    <2>3. push(in) => Append(q, word(in)) = q \o arrived(in)
      <3> HIDE DEF q
      <3> QED BY <1>2, <1>7, <2>1, AppendIsConcat
    <2>4. ~push(in) => q = q \o arrived(in)
      <3>1. ~push(in) => arrived(in) = << >>
        BY <1>5, <1>8, OfferedTypes
      <3> HIDE DEF q
      <3> QED BY <2>1, <3>1, ConcatEmptySeq
    <2>5. C' = q \o arrived(in)
      BY <2>2, <2>3, <2>4
    <2> QED BY <1>5, <1>8, <2>5, OfferedTypes DEF C, offered
  <1>9. CASE ~(status_cnt_q > 0)
    <2>1. C = << >> /\ ~pop(in)
      BY <1>5, <1>9, OfferedTypes DEF C
    <2>2. C' = IF push(in) THEN Append(<< >>, word(in)) ELSE << >>
      BY <1>6, <2>1 DEF Ring!Queue!Pushed, Ring!Queue!Popped
    <2>3. offered(in) = arrived(in)
      BY <1>9, OfferedTypes
    <2>4. CASE in.fetch_ready
      <3>1. offered(in) = << Head(granted) >> /\ ~push(in)
        BY <1>5, <1>9, <2>3, <2>4, OfferedTypes
      <3>2. Tail(offered(in)) = << >>
        BY <3>1
      <3> QED BY <2>2, <2>4, <3>1, <3>2 DEF C
    <2>5. CASE ~in.fetch_ready
      <3>1. CASE push(in)
        <4>1. Append(<< >>, word(in)) = << word(in) >>
          OBVIOUS
        <4> QED BY <1>7, <2>2, <2>3, <2>5, <3>1, <4>1 DEF C
      <3>2. CASE ~push(in)
        <4>1. arrived(in) = << >>
          BY <1>5, <2>5, <3>2, OfferedTypes
        <4> QED BY <2>2, <2>3, <2>5, <3>2, <4>1 DEF C
      <3> QED BY <3>1, <3>2
    <2> QED BY <2>4, <2>5, InputTypes
  <1> QED BY <1>8, <1>9

(* The FIFO in the three kinds of cycles. *)
LEMMA SequentialContents ==
  ASSUME IInv, Ring!PointersAgree, NEW in \in AnyInputs, Clock(in),
         ~in.branch, ~in.hwlp_jump
  PROVE  fifo_i!Contents' = IF in.fetch_ready THEN Tail(offered(in)) ELSE offered(in)
  <1>1. ~flush(in) /\ ~keep_first(in)
    BY DEF flush, keep_first, Wired, prefetch_controller_i!fifo_flush_o,
           prefetch_controller_i!fifo_flush_but_first_o
  <1> QED BY <1>1, TransferContents

LEMMA EmptiedContents ==
  ASSUME IInv, Ring!PointersAgree, NEW in \in AnyInputs, Clock(in), flush(in)
  PROVE  fifo_i!Contents' = << >>
  <1>1. TypeOK
    BY FlushTypes
  <1>2. Ring!Flush
    BY <1>1, RingInputs DEF Ring!FifoClock
  <1>3. Ring!Queue!Flush
    BY <1>1, <1>2, RingStep, RingAssumptions, Ring!FlushStep
  <1> QED BY <1>3, RingIsFifo DEF Ring!Queue!Flush

LEMMA BranchContents ==
  ASSUME IInv, Ring!PointersAgree, NEW in \in AnyInputs, Clock(in), in.branch
  PROVE  fifo_i!Contents' = << >>
  <1>1. flush(in)
    BY DEF flush, Wired, prefetch_controller_i!fifo_flush_o
  <1> QED BY <1>1, EmptiedContents

LEMMA JumpContents ==
  ASSUME IInv, Ring!PointersAgree, NoRedirection, PULP_XPULP,
         NEW in \in AnyInputs, Clock(in), ~in.branch, in.hwlp_jump
  PROVE  /\ in.fetch_ready => fifo_i!Contents' = << >>
         /\ ~in.fetch_ready /\ (status_cnt_q > 0 \/ in.rvalid) =>
              /\ offered(in) # << >>
              /\ fifo_i!Contents' = << Head(offered(in)) >>
         /\ ~in.fetch_ready /\ status_cnt_q = 0 /\ ~in.rvalid =>
              fifo_i!Contents' = << >> /\ offered(in) = << >>
  <1>1. /\ TypeOK /\ status_cnt_q \in 0 .. DEPTH /\ flush_cnt_q = 0
        /\ in.rvalid \in BOOLEAN /\ in.fetch_ready \in BOOLEAN
    BY FlushTypes, InputTypes DEF TypeOK, NoRedirection
  <1>2. /\ flush(in) <=> status_cnt_q > 0 /\ in.fetch_ready
        /\ keep_first(in) <=> status_cnt_q > 0 /\ ~in.fetch_ready
    BY <1>1
    DEF flush, keep_first, Wired, prefetch_controller_i!fifo_flush_o,
        prefetch_controller_i!fifo_flush_but_first_o,
        prefetch_controller_i!fifo_pop_o
  <1>3. CASE status_cnt_q > 0 /\ in.fetch_ready
    BY <1>1, <1>2, <1>3, EmptiedContents
  <1>4. CASE status_cnt_q > 0 /\ ~in.fetch_ready
    <2>1. Ring!FlushButFirst /\ Ring!Store(push(in), word(in))
      BY <1>1, <1>2, <1>4, RingInputs DEF Ring!FifoClock
    <2>2. Ring!Queue!FlushButFirst
      BY <1>1, <2>1, RingInputs, RingStep, RingAssumptions, Ring!FlushButFirstStep
    <2>3. /\ fifo_i!Contents # << >>
          /\ fifo_i!Contents' = << Head(fifo_i!Contents) >>
      BY <1>4, <2>2, RingIsFifo, OfferedTypes DEF Ring!Queue!FlushButFirst
    <2>4. Head(fifo_i!Contents) = fifo_i!data_o
      BY <1>1, <1>4, <2>3, ContentsTypes, HeadAndTail
    <2> QED BY <1>1, <1>4, <2>3, <2>4, OfferedTypes
  <1>5. CASE ~(status_cnt_q > 0)
    <2>1. fifo_i!Contents' = IF in.fetch_ready THEN Tail(offered(in)) ELSE offered(in)
      BY <1>2, <1>5, TransferContents
    <2>2. /\ in.rvalid => /\ offered(in) = << Head(granted) >>
                          /\ Head(granted) \in Addr
          /\ ~in.rvalid => offered(in) = << >>
          /\ in.fetch_ready => in.rvalid
      BY <1>1, <1>5, OfferedTypes
    <2>3. in.rvalid => /\ Tail(offered(in)) = << >> /\ offered(in) # << >>
                       /\ offered(in) = << Head(offered(in)) >>
      <3>1. \A h \in Addr :
              Tail(<< h >>) = << >> /\ << h >> # << >> /\ Head(<< h >>) = h
        OBVIOUS
      <3> QED BY <2>2, <3>1
    <2> QED BY <1>1, <1>5, <2>1, <2>2, <2>3
  <1> QED BY <1>3, <1>4, <1>5, InputTypes
------------------------------------------------------------------------------
(***************************************************************************)
(* The stream.  Words and NextRequest are its two parts; the invariant     *)
(* says that its addresses follow one another, but for the step from the   *)
(* last word of a loop body, as long as that word has not been taken.      *)
(***************************************************************************)
Words == fifo_i!Contents \o Wanted

Successive ==
  \A i \in 1 .. Len(Stream) - 1 :
    Stream[i + 1] = NextAddr(Stream[i]) \/ (i = 1 /\ since_jump = 0)

StreamInv == IInv /\ Ring!PointersAgree /\ Successive

LEMMA StreamTypes ==
  ASSUME IInv
  PROVE  /\ fifo_i!Contents \in Seq(Addr) /\ Wanted \in Seq(Addr)
         /\ Words \in Seq(Addr) /\ NextRequest \in Addr
         /\ Stream = Append(Words, NextRequest)
         /\ Stream \in Seq(Addr) /\ Stream # << >>
         /\ Len(Stream) = Len(Words) + 1 /\ Len(Words) \in Nat
         /\ Stream[Len(Stream)] = NextRequest
  <1>1. /\ fifo_i!Contents \in Seq(Addr) /\ Wanted \in Seq(Addr)
        /\ NextRequest \in Addr
    BY FlushTypes, ContentsTypes, WantedTypes, NextRequestTypes
  <1>2. Words \in Seq(Addr) /\ Len(Words) \in Nat
    BY <1>1, ConcatProperties, LenProperties DEF Words
  <1>3. Stream = Append(Words, NextRequest)
    BY <1>1, <1>2, AppendIsConcat DEF Stream, Words
  <1> QED BY <1>1, <1>2, <1>3, AppendProperties

(* What a cycle without redirection does: a request makes the stream       *)
(* longer, and a word that is taken is its first.                          *)
Longer(in) ==
  IF up(in) THEN Append(Stream, NextAddr(NextRequest)) ELSE Stream

LEMMA LongerTypes ==
  ASSUME IInv, NEW in \in AnyInputs
  PROVE  /\ Longer(in) \in Seq(Addr)
         /\ Len(Longer(in)) = IF up(in) THEN Len(Stream) + 1 ELSE Len(Stream)
         /\ \A i \in 1 .. Len(Stream) : Longer(in)[i] = Stream[i]
         /\ up(in) => Longer(in)[Len(Stream) + 1] = NextAddr(NextRequest)
  <1>1. Stream \in Seq(Addr) /\ NextAddr(NextRequest) \in Addr
    BY StreamTypes, NextAddrTypes
  <1> QED BY <1>1, AppendProperties DEF Longer

LEMMA SequentialStream ==
  ASSUME IInv, Ring!PointersAgree, NEW in \in AnyInputs, Clock(in),
         ~in.branch, ~in.hwlp_jump
  PROVE  /\ ~in.fetch_ready => Stream' = Longer(in) /\ fetched' = None
         /\ in.fetch_ready => /\ Stream' = Tail(Longer(in))
                              /\ fetched' = Stream[1]
                              /\ Len(Stream) > 1
  <1> DEFINE c == fifo_i!Contents
             N == NextRequest
             r == requested(in)
             o == offered(in)
             rest1 == IF in.fetch_ready THEN Tail(o) ELSE o
  <1>1. /\ c \in Seq(Addr) /\ Wanted \in Seq(Addr) /\ N \in Addr /\ TypeOK
        /\ NextAddr(N) \in Addr /\ r \in Seq(Addr)
        /\ o \in Seq(Addr) /\ arrived(in) \in Seq(Addr)
        /\ in.fetch_ready \in BOOLEAN
    BY StreamTypes, FlushTypes, NextAddrTypes, LeftTypes, OfferedTypes
  <1>2. PICK rest \in Seq(Addr) : /\ Wanted = arrived(in) \o rest
                                  /\ Wanted' = rest \o r
    BY WantedStep
  <1>3. c' = rest1
    BY SequentialContents
  <1>4. /\ in.fetch_ready => o # << >> /\ fetched' = Head(o)
        /\ ~in.fetch_ready => fetched' = None
    BY TakenWord
  <1>5. rest1 \in Seq(Addr)
    BY <1>1, <1>4, HeadTailProperties
  <1> HIDE DEF rest1
  <1>6. Words = o \o rest
    <2>1. (c \o arrived(in)) \o rest = c \o (arrived(in) \o rest)
      BY <1>1, ConcatAssociative
    <2> QED BY <1>2, <2>1 DEF Words, offered
  <1> DEFINE w == rest1 \o rest
  <1>7. Stream' = (w \o r) \o << N' >>
    <2>1. Stream' = (rest1 \o (rest \o r)) \o << N' >>
      BY <1>2, <1>3 DEF Stream
    <2>2. rest1 \o (rest \o r) = (rest1 \o rest) \o r
      <3>1. rest1 \in Seq(Addr) /\ rest \in Seq(Addr) /\ r \in Seq(Addr)
        BY <1>1, <1>5
      <3> HIDE DEF r
      <3> QED BY <3>1, ConcatAssociative
    <2> QED BY <2>1, <2>2
  <1>8. w \in Seq(Addr)
    BY <1>2, <1>5, ConcatProperties
  <1>9. Stream' = IF up(in) THEN Append(Append(w, N), NextAddr(N)) ELSE Append(w, N)
    <2> HIDE DEF w, N, r
    <2>1. CASE up(in)
      <3>1. r = << N >> /\ N' = NextAddr(N)
        BY <1>1, <2>1, NextRequestStep DEF requested, N, r
      <3>2. w \o << N >> = Append(w, N) /\ Append(w, N) \in Seq(Addr)
        BY <1>1, <1>8, AppendIsConcat, AppendProperties
      <3>3. Append(w, N) \o << NextAddr(N) >> = Append(Append(w, N), NextAddr(N))
        BY <1>1, <3>2, AppendIsConcat
      <3> QED BY <1>7, <2>1, <3>1, <3>2, <3>3
    <2>2. CASE ~up(in)
      <3>1. r = << >> /\ N' = N
        BY <1>1, <2>2, NextRequestStep DEF requested, N, r
      <3>2. w \o << >> = w /\ w \o << N >> = Append(w, N)
        BY <1>1, <1>8, AppendIsConcat, ConcatEmptySeq
      <3> QED BY <1>7, <2>2, <3>1, <3>2
    <2> QED BY <2>1, <2>2
  <1>10. Stream = Append(Words, N)
    BY StreamTypes
  <1>11. CASE ~in.fetch_ready
    <2>1. w = Words
      BY <1>6, <1>11 DEF rest1
    <2> QED BY <1>4, <1>9, <1>10, <1>11, <2>1 DEF Longer
  <1>12. CASE in.fetch_ready
    <2>1. w = Tail(Words) /\ Words # << >> /\ Head(Words) = Head(o)
      <3>1. o # << >>
        BY <1>4, <1>12
      <3>2. /\ o = << Head(o) >> \o Tail(o) /\ Head(o) \in Addr
            /\ Tail(o) \in Seq(Addr) /\ << Head(o) >> \in Seq(Addr)
        BY <1>1, <3>1, HeadAndTail
      <3>3. (<< Head(o) >> \o Tail(o)) \o rest = << Head(o) >> \o (Tail(o) \o rest)
        BY <3>2, ConcatAssociative
      <3>4. Tail(o) \o rest \in Seq(Addr)
        BY <3>2, ConcatProperties
      <3>5. Words = << Head(o) >> \o (Tail(o) \o rest)
        BY <1>6, <3>2, <3>3
      <3>6. w = Tail(o) \o rest
        BY <1>12 DEF rest1
      <3> HIDE DEF w, o
      <3> QED BY <3>2, <3>4, <3>5, <3>6, SingletonProperties
    <2>2. Words \in Seq(Addr) /\ Append(Words, N) \in Seq(Addr)
          /\ Append(Words, N) # << >>
      BY <1>1, StreamTypes, AppendProperties
    <2>3. /\ Tail(Append(Words, N)) = Append(w, N)
          /\ Head(Append(Words, N)) = Head(Words)
      BY <1>1, <2>1, <2>2, HeadTailAppend
    <2>4. Tail(Append(Append(Words, N), NextAddr(N)))
            = Append(Append(w, N), NextAddr(N))
      BY <1>1, <2>2, <2>3, HeadTailAppend
    <2>5. Stream' = Tail(Longer(in))
      <3> HIDE DEF w, N
      <3> QED BY <1>9, <1>10, <2>3, <2>4 DEF Longer, N
    <2>6. fetched' = Stream[1]
      <3>1. Stream[1] = Head(Stream)
        BY StreamTypes, HeadAndTail
      <3> QED BY <1>4, <1>10, <1>12, <2>1, <2>3, <3>1
    <2>7. Len(Stream) > 1
      BY <2>1, <2>2, StreamTypes, EmptySeq
    <2> QED BY <1>12, <2>5, <2>6, <2>7
  <1> QED BY <1>1, <1>11, <1>12

(* A redirection keeps at most the word at the head of the stream.          *)
Redirected(target, in) ==
  IF up(in) THEN << target, NextAddr(target) >> ELSE << target >>

LEMMA ShortSequences ==
  ASSUME NEW S, NEW x \in S, NEW y \in S
  PROVE  << x >> \o << y >> = << x, y >> /\ << >> \o << x >> = << x >>
  <1> DEFINE s == << x >>
             t == << y >>
             u == << x, y >>
  <1>1. /\ s \in Seq(S) /\ Len(s) = 1 /\ s[1] = x
        /\ t \in Seq(S) /\ Len(t) = 1 /\ t[1] = y
        /\ u \in Seq(S) /\ Len(u) = 2 /\ u[1] = x /\ u[2] = y
    OBVIOUS
  <1> HIDE DEF s, t, u
  <1>2. /\ s \o t \in Seq(S) /\ Len(s \o t) = 2
        /\ (s \o t)[1] = x /\ (s \o t)[2] = y
    BY <1>1, ConcatProperties
  <1>3. \A i \in 1 .. 2 : i = 1 \/ i = 2
    OBVIOUS
  <1>4. s \o t = u
    BY <1>1, <1>2, <1>3, SeqEqual
  <1>5. << >> \o s = s
    BY <1>1, ConcatEmptySeq
  <1> QED BY <1>4, <1>5 DEF s, t, u

LEMMA RedirectedTypes ==
  ASSUME NEW in \in AnyInputs
  PROVE  Redirected(in.target, in) \in Seq(Addr)
  BY InputTypes, NextAddrTypes DEF Redirected

LEMMA BranchStream ==
  ASSUME IInv, Ring!PointersAgree, NEW in \in AnyInputs, Clock(in), in.branch
  PROVE  /\ Stream' = Redirected(in.target, in)
         /\ fetched' = None
  <1> DEFINE r == requested(in)
             a == in.target
  <1>1. /\ r \in Seq(Addr) /\ TypeOK /\ a \in Addr /\ NextAddr(a) \in Addr
    BY FlushTypes, LeftTypes, NextAddrTypes, InputTypes
  <1>2. /\ up(in) => r = << a >> /\ NextRequest' = NextAddr(a)
        /\ ~up(in) => r = << >> /\ NextRequest' = a
    BY <1>1, NextRequestStep DEF requested
  <1>3. Stream' = (<< >> \o r) \o << NextRequest' >>
    BY BranchContents, BranchWanted DEF Stream
  <1>4. << >> \o r = r
    BY <1>1, ConcatEmptySeq
  <1> HIDE DEF r, a
  <1>5. << a >> \o << NextAddr(a) >> = << a, NextAddr(a) >>
        /\ << >> \o << a >> = << a >>
    BY <1>1, ShortSequences
  <1>6. Stream' = Redirected(a, in)
    BY <1>2, <1>3, <1>4, <1>5 DEF Redirected
  <1>7. fetched' = None
    BY FlushTypes, InputTypes, TakeStep, TakenWord
  <1> QED BY <1>6, <1>7 DEF a

LEMMA JumpStream ==
  ASSUME IInv, Ring!PointersAgree, NoRedirection, PULP_XPULP,
         NEW in \in AnyInputs, Clock(in), ~in.branch, in.hwlp_jump
  PROVE  /\ ~in.fetch_ready =>
              /\ Stream' = << Stream[1] >> \o Redirected(in.target, in)
              /\ fetched' = None
         /\ in.fetch_ready =>
              /\ Stream' = Redirected(in.target, in)
              /\ fetched' = Stream[1]
  <1> DEFINE r == requested(in)
             a == in.target
             C == fifo_i!Contents
  <1>1. /\ r \in Seq(Addr) /\ TypeOK /\ a \in Addr /\ NextAddr(a) \in Addr
        /\ C \in Seq(Addr) /\ Wanted \in Seq(Addr) /\ Stream \in Seq(Addr)
        /\ Stream # << >> /\ NextRequest \in Addr /\ Words \in Seq(Addr)
        /\ Stream = Append(Words, NextRequest)
        /\ in.rvalid \in BOOLEAN /\ in.fetch_ready \in BOOLEAN
        /\ status_cnt_q \in Nat
    BY FlushTypes, LeftTypes, NextAddrTypes, InputTypes, StreamTypes DEF TypeOK
  <1>2. /\ up(in) => r = << a >> /\ NextRequest' = NextAddr(a)
        /\ ~up(in) => r = << >> /\ NextRequest' = a
    BY <1>1, NextRequestStep DEF requested, NoRedirection
  <1>3. r \o << NextRequest' >> = Redirected(a, in)
    <2>1. << a >> \o << NextAddr(a) >> = << a, NextAddr(a) >>
          /\ << >> \o << a >> = << a >>
      BY <1>1, ShortSequences
    <2> HIDE DEF r, a
    <2> QED BY <1>2, <2>1 DEF Redirected
  <1>4. /\ Wanted = Outstanding /\ flush_cnt_q = 0
    BY NoRedirectionWanted DEF NoRedirection
  <1>5. Stream[1] = Head(Stream) /\ (Words # << >> => Head(Stream) = Head(Words))
    BY <1>1, HeadAndTail, HeadTailAppend
  <1>6. Stream' = (C' \o Wanted') \o << NextRequest' >>
    BY DEF Stream
  <1>7. NextRequest' \in Addr /\ << NextRequest' >> \in Seq(Addr)
    BY <1>1, <1>2
  (* The head of the stream, where it is. *)
  <1>8. offered(in) # << >> => Head(offered(in)) = Stream[1]
    <2> SUFFICES ASSUME offered(in) # << >>
                 PROVE  Head(offered(in)) = Head(Words) /\ Words # << >>
      BY <1>5
    <2>1. CASE status_cnt_q > 0
      <3>1. /\ C # << >> /\ Head(C) = fifo_i!data_o
            /\ Head(offered(in)) = fifo_i!data_o
        BY <1>1, <2>1, OfferedTypes, ContentsTypes, HeadAndTail
      <3>2. /\ C = << Head(C) >> \o Tail(C) /\ Head(C) \in Addr
            /\ Tail(C) \in Seq(Addr) /\ << Head(C) >> \in Seq(Addr)
        BY <1>1, <3>1, HeadAndTail
      <3>3. (<< Head(C) >> \o Tail(C)) \o Wanted = << Head(C) >> \o (Tail(C) \o Wanted)
        BY <1>1, <3>2, ConcatAssociative
      <3>4. /\ Words = << Head(C) >> \o (Tail(C) \o Wanted)
            /\ Tail(C) \o Wanted \in Seq(Addr)
        BY <1>1, <3>2, <3>3, ConcatProperties DEF Words
      <3> HIDE DEF C
      <3> QED BY <3>1, <3>2, <3>4, SingletonProperties
    <2>2. CASE ~(status_cnt_q > 0)
      <3>1. offered(in) = arrived(in) /\ C = << >>
        BY <2>2, OfferedTypes
      <3>2. /\ in.rvalid /\ offered(in) = << Head(granted) >>
            /\ Head(granted) \in Addr
        BY <1>4, <3>1, OfferedTypes
      <3>3. Head(granted) = Head(Outstanding) /\ Outstanding # << >>
        BY <1>1, <3>2, AnswerIsOldest
      <3>4. Words = Wanted
        BY <1>1, <3>1, ConcatEmptySeq DEF Words
      <3>5. \A h \in Addr : Head(<< h >>) = h
        OBVIOUS
      <3> QED BY <1>4, <3>2, <3>3, <3>4, <3>5
    <2> QED BY <2>1, <2>2
  <1>9. CASE in.fetch_ready
    <2>1. C' = << >> /\ Wanted' = r
      BY <1>1, <1>9, JumpContents, JumpWanted, OfferedTypes
    <2>2. << >> \o r = r
      BY <1>1, ConcatEmptySeq
    <2>3. Stream' = Redirected(a, in)
      <3> HIDE DEF r, a, C
      <3> QED BY <1>3, <1>6, <2>1, <2>2
    <2> QED BY <1>8, <1>9, <2>3, TakenWord
  <1>10. CASE ~in.fetch_ready
    <2> DEFINE h == Stream[1]
    <2>1. h \in Addr /\ << h >> \in Seq(Addr)
      BY <1>1, <1>5, HeadAndTail
    <2>2. C' \o Wanted' = << h >> \o r
      <3>1. CASE status_cnt_q > 0 \/ in.rvalid
        <4>1. C' = << h >> /\ Wanted' = r
          BY <1>8, <1>10, <3>1, JumpContents, JumpWanted
        <4> QED BY <4>1
      <3>2. CASE ~(status_cnt_q > 0 \/ in.rvalid)
        <4>1. /\ C' = << >> /\ Wanted # << >>
              /\ Wanted' = << Head(Wanted) >> \o r /\ C = << >>
          BY <1>1, <1>10, <3>2, JumpContents, JumpWanted, OfferedTypes
        <4>2. Words = Wanted
          BY <1>1, <4>1, ConcatEmptySeq DEF Words
        <4>3. h = Head(Wanted)
          BY <1>5, <4>1, <4>2
        <4>4. << >> \o (<< h >> \o r) = << h >> \o r
          BY <1>1, <2>1, ConcatProperties, ConcatEmptySeq
        <4> HIDE DEF r, C, h
        <4> QED BY <4>1, <4>3, <4>4
      <3> QED BY <3>1, <3>2
    <2> HIDE DEF h, r, C, a
    <2>3. (<< h >> \o r) \o << NextRequest' >> = << h >> \o (r \o << NextRequest' >>)
      BY <1>1, <1>7, <2>1, ConcatAssociative
    <2>4. Stream' = << h >> \o Redirected(a, in)
      BY <1>3, <1>6, <2>2, <2>3
    <2> QED BY <1>10, <2>4, TakenWord DEF h, a
  <1> QED BY <1>1, <1>9, <1>10
------------------------------------------------------------------------------
(* The word after the first one, as the refinement mapping reads it.       *)
Follower(s) == IF Len(s) > 1 THEN s[2] ELSE NextAddr(s[1])

LEMMA MappingStep ==
  /\ FetchStream!Deliver <=>
       /\ fetched' = Stream[1] /\ redirect' = None
       /\ Stream'[1] = Follower(Stream)
       /\ Follower(Stream') = FetchStream!Successor(Follower(Stream))
  /\ FetchStream!Wait <=>
       /\ fetched' = None /\ redirect' = None
       /\ Stream'[1] = Stream[1] /\ Follower(Stream') = Follower(Stream)
  /\ \A target \in Addr :
       /\ FetchStream!Branch(target) <=>
            /\ redirect' = << "branch", target >> /\ fetched' = None
            /\ Stream'[1] = target
            /\ Follower(Stream') = FetchStream!Successor(target)
       /\ FetchStream!LoopJump(target) <=>
            /\ redirect' = << "hwlp_jump", target >>
            /\ \/ /\ fetched' = None /\ Stream'[1] = Stream[1]
                  /\ Follower(Stream') = target
               \/ /\ fetched' = Stream[1] /\ Stream'[1] = target
                  /\ Follower(Stream') = FetchStream!Successor(target)
  BY DEF FetchStream!Deliver, FetchStream!Wait, FetchStream!Branch,
         FetchStream!LoopJump, Follower, NextAddr,
         prefetch_controller_i!NextAddr

(* The addresses of the longer stream follow one another, too. *)
LEMMA LongerIsSuccessive ==
  ASSUME IInv, Successive, NEW in \in AnyInputs
  PROVE  \A i \in 1 .. Len(Longer(in)) - 1 :
           \/ Longer(in)[i + 1] = NextAddr(Longer(in)[i])
           \/ i = 1 /\ since_jump = 0
  <1> DEFINE L == Longer(in)
             S == Stream
  <1>1. /\ S \in Seq(Addr) /\ S # << >> /\ Len(S) \in Nat \ {0}
        /\ S[Len(S)] = NextRequest
    BY StreamTypes, EmptySeq
  <1>2. /\ Len(L) = IF up(in) THEN Len(S) + 1 ELSE Len(S)
        /\ \A i \in 1 .. Len(S) : L[i] = S[i]
        /\ up(in) => L[Len(S) + 1] = NextAddr(NextRequest)
    BY LongerTypes
  <1>3. \A i \in 1 .. Len(S) - 1 : S[i + 1] = NextAddr(S[i]) \/ (i = 1 /\ since_jump = 0)
    BY DEF Successive
  <1> HIDE DEF L, S
  <1> SUFFICES ASSUME NEW i \in 1 .. Len(L) - 1
               PROVE  L[i + 1] = NextAddr(L[i]) \/ (i = 1 /\ since_jump = 0)
    BY DEF L
  <1>4. CASE i \in 1 .. Len(S) - 1
    <2>1. i \in 1 .. Len(S) /\ i + 1 \in 1 .. Len(S)
      BY <1>1, <1>4
    <2> QED BY <1>2, <1>3, <1>4, <2>1
  <1>5. CASE ~(i \in 1 .. Len(S) - 1)
    <2>1. i = Len(S) /\ up(in) /\ i \in 1 .. Len(S)
      BY <1>1, <1>2, <1>5
    <2> QED BY <1>1, <1>2, <2>1
  <1> QED BY <1>4, <1>5

LEMMA SequentialRefines ==
  ASSUME StreamInv, NEW in \in SequentialInputs, SequentialCycle(in)
  PROVE  Successive' /\ (FetchStream!Deliver \/ FetchStream!Wait)
  <1> DEFINE L == Longer(in)
             S == Stream
  <1>1. /\ IInv /\ Ring!PointersAgree /\ Successive
        /\ in \in AnyInputs /\ Clock(in) /\ ~in.branch /\ ~in.hwlp_jump
        /\ redirect' = None /\ since_jump' = Taken(since_jump, in)
    BY InputSubsets DEF StreamInv, SequentialCycle
  <1>2. /\ L \in Seq(Addr) /\ S \in Seq(Addr) /\ Len(S) \in Nat \ {0}
        /\ Len(L) = IF up(in) THEN Len(S) + 1 ELSE Len(S)
        /\ \A i \in 1 .. Len(S) : L[i] = S[i]
    BY <1>1, LongerTypes, StreamTypes, EmptySeq
  <1>3. \A i \in 1 .. Len(L) - 1 :
           L[i + 1] = NextAddr(L[i]) \/ (i = 1 /\ since_jump = 0)
    BY <1>1, LongerIsSuccessive
  <1>4. /\ ~in.fetch_ready => Stream' = L /\ fetched' = None
        /\ in.fetch_ready => /\ Stream' = Tail(L) /\ fetched' = S[1]
                             /\ Len(S) > 1
    BY <1>1, SequentialStream
  <1>5. Len(S) = 1 /\ up(in) => L[2] = NextAddr(S[1])
    <2>1. S[Len(S)] = NextRequest /\ (up(in) => L[Len(S) + 1] = NextAddr(NextRequest))
      BY <1>1, StreamTypes, LongerTypes
    <2> HIDE DEF L, S
    <2> QED BY <2>1
  <1>6. CASE ~in.fetch_ready
    <2>1. Stream' = L /\ fetched' = None /\ since_jump' = since_jump
      BY <1>1, <1>4, <1>6 DEF Taken
    <2>2. Successive'
      <3> HIDE DEF L
      <3> QED BY <1>3, <2>1 DEF Successive
    <2>3. L[1] = S[1]
      BY <1>2
    <2>4. Follower(L) = Follower(S)
      <3> HIDE DEF L, S
      <3>1. CASE Len(S) = 1
        <4>1. Len(L) = IF up(in) THEN 2 ELSE 1
          BY <1>2, <3>1
        <4> QED BY <1>5, <2>3, <3>1, <4>1 DEF Follower
      <3>2. CASE Len(S) > 1
        <4>1. 2 \in 1 .. Len(S) /\ Len(L) > 1
          BY <1>2, <3>2
        <4> QED BY <1>2, <3>2, <4>1 DEF Follower
      <3>3. Len(S) = 1 \/ Len(S) > 1
        <4> DEFINE n == Len(S)
        <4>1. n \in Nat \ {0}
          BY <1>2
        <4> HIDE DEF n
        <4>2. n = 1 \/ n > 1
          BY <4>1
        <4> QED BY <4>2 DEF n
      <3> QED BY <3>1, <3>2, <3>3
    <2>5. FetchStream!Wait
      BY <1>1, <2>1, <2>3, <2>4, MappingStep
    <2> QED BY <2>2, <2>5
  <1>7. CASE in.fetch_ready
    <2> DEFINE T == Tail(L)
    <2>1. Stream' = T /\ fetched' = S[1] /\ Len(S) > 1
      BY <1>4, <1>7
    <2>2. /\ Len(T) = Len(L) - 1 /\ Len(L) > 1
          /\ \A i \in 1 .. Len(T) : T[i] = L[i + 1]
      <3>1. L # << >>
        BY <1>2, <2>1, EmptySeq
      <3> HIDE DEF L
      <3> QED BY <1>2, <2>1, <3>1, HeadTailProperties
    <2> HIDE DEF T, L, S
    <2>3. ASSUME NEW i \in 1 .. Len(T) - 1
          PROVE  T[i + 1] = NextAddr(T[i])
      <3>1. /\ i \in 1 .. Len(T) /\ i + 1 \in 1 .. Len(T)
            /\ i + 1 \in 1 .. Len(L) - 1 /\ i + 1 # 1
        BY <1>2, <2>2
      <3> QED BY <1>3, <2>2, <3>1
    <2>4. Successive'
      BY <2>1, <2>3 DEF Successive
    <2>5. T[1] = S[2] /\ Follower(S) = S[2] /\ S[2] \in Addr
      <3>1. 1 \in 1 .. Len(T) /\ 2 \in 1 .. Len(S) /\ 1 + 1 = 2
        BY <1>2, <2>1, <2>2
      <3> QED BY <1>2, <2>1, <2>2, <3>1, ElementOfSeq DEF Follower
    <2>6. Follower(T) = NextAddr(S[2])
      <3>1. CASE Len(T) > 1
        <4>1. 1 \in 1 .. Len(T) - 1
          BY <1>2, <2>2, <3>1
        <4> QED BY <2>3, <2>5, <3>1, <4>1 DEF Follower
      <3>2. CASE ~(Len(T) > 1)
        BY <2>5, <3>2 DEF Follower
      <3> QED BY <3>1, <3>2
    <2>7. FetchStream!Deliver
      BY <1>1, <2>1, <2>5, <2>6, MappingStep, NextAddrTypes DEF S
    <2> QED BY <2>4, <2>7
  <1> QED BY <1>6, <1>7

(* A redirected stream starts at the target. *)
LEMMA RedirectedStream ==
  ASSUME NEW in \in AnyInputs
  PROVE  LET R == Redirected(in.target, in)
         IN  /\ R \in Seq(Addr) /\ (Len(R) = 1 \/ Len(R) = 2) /\ R[1] = in.target
             /\ Len(R) = 2 => R[2] = NextAddr(in.target)
             /\ Follower(R) = NextAddr(in.target)
  <1>1. in.target \in Addr /\ NextAddr(in.target) \in Addr
    BY InputTypes, NextAddrTypes
  <1>2. CASE up(in)
    BY <1>1, <1>2 DEF Redirected, Follower
  <1>3. CASE ~up(in)
    BY <1>1, <1>3 DEF Redirected, Follower
  <1> QED BY <1>2, <1>3

LEMMA RedirectedIsSuccessive ==
  ASSUME NEW in \in AnyInputs, Stream' = Redirected(in.target, in)
  PROVE  Successive'
  <1> DEFINE R == Redirected(in.target, in)
  <1>1. /\ (Len(R) = 1 \/ Len(R) = 2) /\ R[1] = in.target
        /\ Len(R) = 2 => R[2] = NextAddr(in.target)
    BY RedirectedStream
  <1> HIDE DEF R
  <1>2. ASSUME NEW i \in 1 .. Len(R) - 1 PROVE R[i + 1] = NextAddr(R[i])
    <2>1. i = 1 /\ Len(R) = 2 /\ i + 1 = 2
      <3>1. CASE Len(R) = 1
        BY <3>1
      <3>2. CASE Len(R) = 2
        BY <3>2
      <3> QED BY <1>1, <3>1, <3>2
    <2> QED BY <1>1, <2>1
  <1>3. Stream' = R
    BY DEF R
  <1> QED BY <1>2, <1>3 DEF Successive

LEMMA BranchRefines ==
  ASSUME StreamInv, NEW in \in BranchInputs, BranchCycle(in)
  PROVE  Successive' /\ FetchStream!Branch(in.target)
  <1>1. /\ IInv /\ Ring!PointersAgree
        /\ in \in AnyInputs /\ Clock(in) /\ in.branch /\ in.target \in Addr
        /\ redirect' = << "branch", in.target >>
    BY InputSubsets, InputTypes DEF StreamInv, BranchCycle
  <1>2. Stream' = Redirected(in.target, in) /\ fetched' = None
    BY <1>1, BranchStream
  <1>3. Successive'
    BY <1>1, <1>2, RedirectedIsSuccessive
  <1>4. FetchStream!Branch(in.target)
    BY <1>1, <1>2, MappingStep, RedirectedStream, NextAddrTypes
  <1> QED BY <1>3, <1>4

LEMMA JumpRefines ==
  ASSUME StreamInv, NEW in \in HwlpJumpInputs, HwlpJumpCycle(in)
  PROVE  Successive' /\ FetchStream!LoopJump(in.target)
  <1> DEFINE R == Redirected(in.target, in)
             h == Stream[1]
  <1>1. /\ IInv /\ Ring!PointersAgree /\ TypeOK /\ PULP_XPULP
        /\ in \in AnyInputs /\ Clock(in) /\ ~in.branch /\ in.hwlp_jump
        /\ in.target \in Addr
        /\ redirect' = << "hwlp_jump", in.target >>
        /\ since_jump' = Taken(0, in)
    BY InputSubsets, InputTypes DEF StreamInv, IInv, HwlpJumpCycle
  <1>2. NoRedirection
    BY <1>1, MinLoopBodyAssumption
    DEF IInv, AfterTake, HwlpJumpCycle, TypeOK, NoRedirection
  <1>3. /\ ~in.fetch_ready => Stream' = << h >> \o R /\ fetched' = None
        /\ in.fetch_ready => Stream' = R /\ fetched' = h
    BY <1>1, <1>2, JumpStream
  <1>4. /\ R \in Seq(Addr) /\ (Len(R) = 1 \/ Len(R) = 2) /\ R[1] = in.target
        /\ Len(R) = 2 => R[2] = NextAddr(in.target)
        /\ Follower(R) = NextAddr(in.target)
        /\ NextAddr(in.target) = FetchStream!Successor(in.target)
    BY <1>1, RedirectedStream, NextAddrTypes
  <1>5. CASE in.fetch_ready
    <2>1. Successive'
      BY <1>1, <1>3, <1>5, RedirectedIsSuccessive
    <2>2. FetchStream!LoopJump(in.target)
      BY <1>1, <1>3, <1>4, <1>5, MappingStep
    <2> QED BY <2>1, <2>2
  <1>6. CASE ~in.fetch_ready
    <2> DEFINE T == << h >> \o R
    <2>1. h \in Addr
      BY <1>1, StreamTypes, HeadAndTail
    <2>2. since_jump' = 0 /\ Stream' = T /\ fetched' = None
      BY <1>1, <1>3, <1>6 DEF Taken
    <2>3. << h >> \in Seq(Addr) /\ Len(<< h >>) = 1 /\ << h >>[1] = h
      BY <2>1
    <2> HIDE DEF h, R
    <2>4. /\ Len(T) = 1 + Len(R)
          /\ \A i \in 1 .. 1 + Len(R) :
               T[i] = IF i <= 1 THEN << h >>[i] ELSE R[i - 1]
      BY <1>4, <2>3, ConcatProperties
    <2> HIDE DEF T
    <2>5. T[1] = h /\ T[2] = in.target /\ Len(T) > 1
      <3>1. 1 \in 1 .. 1 + Len(R) /\ 2 \in 1 .. 1 + Len(R) /\ 2 - 1 = 1
        BY <1>4
      <3> QED BY <1>4, <2>3, <2>4, <3>1
    <2>6. ASSUME NEW i \in 1 .. Len(T) - 1 PROVE i = 1 \/ T[i + 1] = NextAddr(T[i])
      <3>1. i = 1 \/ (i = 2 /\ Len(R) = 2)
        <4>1. CASE Len(R) = 1
          BY <2>4, <4>1
        <4>2. CASE Len(R) = 2
          BY <2>4, <4>2
        <4> QED BY <1>4, <4>1, <4>2
      <3>2. Len(R) = 2 => T[3] = NextAddr(in.target)
        <4>1. Len(R) = 2 => 3 \in 1 .. 1 + Len(R)
          OBVIOUS
        <4> QED BY <1>4, <2>4, <4>1
      <3> QED BY <2>5, <3>1, <3>2
    <2>7. Successive'
      BY <2>2, <2>6 DEF Successive
    <2>8. Follower(T) = in.target
      BY <2>5 DEF Follower
    <2>9. FetchStream!LoopJump(in.target)
      BY <1>1, <2>2, <2>5, <2>8, MappingStep DEF h
    <2> QED BY <2>7, <2>9
  <1> QED BY <1>5, <1>6
------------------------------------------------------------------------------
LEMMA InitRefines == Init => StreamInv /\ FetchStream!StreamInit
  <1> SUFFICES ASSUME Init PROVE StreamInv /\ FetchStream!StreamInit
    OBVIOUS
  <1>1. IInv
    BY InitInvariant
  <1>2. /\ status_cnt_q = 0 /\ cnt_q = 0 /\ read_pointer_q = 0
        /\ write_pointer_q = 0 /\ flush_cnt_q = 0
        /\ hwlp_flush_after_resp = FALSE
        /\ fetched = None /\ redirect = None
    BY DEF Init, prefetch_controller_i!CtrlInit, fifo_i!FifoInit
  <1>3. Ring!PointersAgree
    BY <1>2, DepthAssumption DEF Ring!PointersAgree
  <1>4. Len(Stream) = 1 /\ Stream[1] = NextRequest /\ NextRequest \in Addr
    <2>1. fifo_i!Contents = << >>
      BY <1>1, <1>2, FlushTypes, ContentsTypes, EmptySeq
    <2>2. Len(Wanted) = 0 /\ Wanted \in Seq(Addr)
      BY <1>1, <1>2, WantedTypes DEF Unwanted
    <2>3. Wanted = << >>
      BY <2>2, EmptySeq
    <2>4. Words = << >>
      BY <2>1, <2>2, <2>3, ConcatEmptySeq DEF Words
    <2> QED BY <1>1, <2>4, StreamTypes, EmptySeq
  <1>5. Successive
    BY <1>4 DEF Successive
  <1>6. FetchStream!StreamInit
    <2>1. Follower(Stream) = FetchStream!Successor(Stream[1])
      BY <1>4, NextAddrTypes DEF Follower
    <2> QED
      BY <1>2, <1>4, <2>1
      DEF FetchStream!StreamInit, Follower, NextAddr, FetchStream!Addr, Addr
  <1> QED BY <1>1, <1>3, <1>5, <1>6 DEF StreamInv

LEMMA NextRefines ==
  StreamInv /\ [Next]_vars =>
    StreamInv' /\ [FetchStream!StreamNext]_(FetchStream!streamVars)
  <1> SUFFICES ASSUME StreamInv, [Next]_vars
               PROVE  StreamInv' /\ [FetchStream!StreamNext]_(FetchStream!streamVars)
    OBVIOUS
  <1>1. IInv'
    BY NextInvariant DEF StreamInv
  <1>2. Next => Ring!PointersAgree'
    BY NextIsClock, RingStep DEF StreamInv, IInv
  <1>3. CASE \E in \in SequentialInputs : SequentialCycle(in)
    <2>1. Next
      BY <1>3 DEF Next
    <2> QED
      BY <1>1, <1>2, <1>3, <2>1, SequentialRefines
      DEF StreamInv, FetchStream!StreamNext
  <1>4. CASE \E in \in BranchInputs : BranchCycle(in)
    <2>1. Next
      BY <1>4 DEF Next
    <2> QED
      BY <1>1, <1>2, <1>4, <2>1, BranchRefines, InputSubsets, InputTypes
      DEF StreamInv, FetchStream!StreamNext, FetchStream!Addr, Addr
  <1>5. CASE \E in \in HwlpJumpInputs : HwlpJumpCycle(in)
    <2>1. Next
      BY <1>5 DEF Next
    <2> QED
      BY <1>1, <1>2, <1>5, <2>1, JumpRefines, InputSubsets, InputTypes
      DEF StreamInv, FetchStream!StreamNext, FetchStream!Addr, Addr
  <1>6. CASE UNCHANGED vars
    <2>1. /\ fifo_i!Contents' = fifo_i!Contents /\ Outstanding' = Outstanding
          /\ NextRequest' = NextRequest
      BY <1>6
      DEF vars, ctrlRegs, fifoRegs, obiRegs, envVars, fifo_i!Contents,
          fifo_i!Slot, Outstanding, NextRequest, prefetch_controller_i!NextAddr
    <2>2. Wanted' = Wanted
      BY <1>6, <2>1 DEF vars, ctrlRegs, Wanted
    <2>3. Stream' = Stream
      BY <2>1, <2>2 DEF Stream
    <2>4. Successive'
      BY <1>6, <2>3 DEF StreamInv, Successive, vars, envVars
    <2>5. Ring!PointersAgree'
      BY <1>6 DEF vars, fifoRegs, StreamInv, Ring!PointersAgree
    <2>6. UNCHANGED FetchStream!streamVars
      BY <1>6, <2>3
      DEF vars, envVars, FetchStream!streamVars, prefetch_controller_i!NextAddr
    <2> QED BY <1>1, <2>4, <2>5, <2>6 DEF StreamInv
  <1> QED BY <1>3, <1>4, <1>5, <1>6 DEF Next

(* The fetch unit hands over exactly the words of the program, in order,   *)
(* whenever branches and hardware-loop jumps arrive, for every depth of    *)
(* the FIFO and every latency of the memory.                               *)
THEOREM FetchesTheProgram == Spec => ImplementsFetchStream
  BY InitRefines, NextRefines, PTL
  DEF Spec, ImplementsFetchStream, FetchStream!StreamSpec
------------------------------------------------------------------------------
(***************************************************************************)
(* With a memory that never makes the core wait.  At most one transaction  *)
(* is under way, it is answered in the cycle after its request, and so no  *)
(* answer is ever left to be thrown away.                                  *)
(***************************************************************************)
ShortQueue ==
  /\ cnt_q <= 1
  /\ flush_cnt_q = 0
  /\ hwlp_flush_after_resp = FALSE
  /\ obi_state_q = "TRANSPARENT"

IdealInv == ShortQueue /\ WordEveryCycle

IdealInputs == Ideal(AnyInputs)

LEMMA IdealSubsets ==
  ASSUME NEW inputs, inputs \subseteq AnyInputs, NEW in \in Ideal(inputs)
  PROVE  in \in inputs /\ in \in IdealInputs
  BY DEF Ideal, IdealInputs

LEMMA IdealBus ==
  ASSUME IInv, ShortQueue, NEW in \in IdealInputs, Clock(in)
  PROVE  /\ in \in AnyInputs /\ TypeOK
         /\ cnt_q = 0 \/ cnt_q = 1
         /\ in.rvalid <=> cnt_q = 1
         /\ granted # << >> <=> cnt_q = 1
         /\ obi_state_q' = "TRANSPARENT"
         /\ cnt_q' = IF up(in) THEN 1 ELSE 0
         /\ up(in) <=> \/ in.branch \/ in.hwlp_jump
                       \/ status_cnt_q + cnt_q < DEPTH
         /\ granted' # << >> <=> cnt_q' = 1
  <1>1. /\ in \in AnyInputs /\ in.req = TRUE /\ in.gnt = TRUE
        /\ in.rvalid <=> granted # << >>
        /\ TypeOK /\ CountsOutstanding
    BY InputTypes DEF IdealInputs, Ideal, IInv
  <1>2. /\ cnt_q \in 0 .. DEPTH /\ cnt_q <= 1 /\ obi_state_q = "TRANSPARENT"
        /\ status_cnt_q \in 0 .. DEPTH /\ cnt_q' \in 0 .. DEPTH
        /\ CountsOutstanding'
    BY <1>1, CountInvariant DEF ShortQueue
  <1>3. Outstanding = granted \o << >> /\ granted \in Seq(Addr)
    BY <1>1, <1>2 DEF Outstanding, TypeOK
  <1>4. cnt_q = Len(granted)
    BY <1>1, <1>3, ConcatEmptySeq DEF CountsOutstanding
  <1>5. (cnt_q = 0 \/ cnt_q = 1) /\ (granted # << >> <=> cnt_q = 1)
    BY <1>2, <1>3, <1>4, EmptySeq
  <1>6. obi_state_q' = "TRANSPARENT"
    BY <1>1, AddressPhaseStep
  <1>7. cnt_q' = IF up(in) THEN 1 ELSE 0
    BY <1>1, <1>2, <1>5, CountStep
  <1>8. up(in) <=> \/ in.branch \/ in.hwlp_jump
                   \/ status_cnt_q + cnt_q < DEPTH
    <2>1. up(in) <=> trans_valid(in)
      BY <1>1, <1>2, AddressPhaseStep
    <2>2. trans_valid(in) <=>
            prefetch_controller_i!fifo_cnt_masked(Wired(in)) + cnt_q < DEPTH
      BY <1>1, <1>5
      DEF trans_valid, Wired, prefetch_controller_i!trans_valid_o
    <2>3. prefetch_controller_i!fifo_cnt_masked(Wired(in)) =
            IF in.branch \/ in.hwlp_jump THEN 0 ELSE status_cnt_q
      BY DEF Wired, prefetch_controller_i!fifo_cnt_masked,
             prefetch_controller_i!Redirect
    <2>4. 0 + cnt_q < DEPTH
      BY <1>2, <1>5, DepthAssumption
    <2> QED BY <2>1, <2>2, <2>3, <2>4
  <1>9. granted' # << >> <=> cnt_q' = 1
    <2>1. granted' \in Seq(Addr)
      BY <1>1, BusStep
    <2>2. Outstanding' = granted' \o << >>
      BY <1>6 DEF Outstanding
    <2>3. cnt_q' = Len(granted')
      BY <1>2, <2>1, <2>2, ConcatEmptySeq DEF CountsOutstanding
    <2> QED BY <1>7, <2>1, <2>3, EmptySeq
  <1> QED BY <1>1, <1>5, <1>6, <1>7, <1>8, <1>9

LEMMA IdealSequential ==
  ASSUME IInv, ShortQueue, NEW in \in Ideal(SequentialInputs), SequentialCycle(in)
  PROVE  IdealInv'
  <1>1. /\ in \in IdealInputs /\ in \in AnyInputs /\ Clock(in)
        /\ ~in.branch /\ ~in.hwlp_jump
        /\ in.fetch_ready \in BOOLEAN /\ in.rvalid \in BOOLEAN
    BY InputSubsets, InputTypes DEF Ideal, IdealInputs, SequentialCycle
  <1>2. /\ TypeOK /\ (cnt_q = 0 \/ cnt_q = 1)
        /\ in.rvalid <=> cnt_q = 1
        /\ obi_state_q' = "TRANSPARENT"
        /\ cnt_q' = IF up(in) THEN 1 ELSE 0
        /\ up(in) <=> status_cnt_q + cnt_q < DEPTH
        /\ granted' # << >> <=> cnt_q' = 1
    BY <1>1, IdealBus
  <1>3. flush_cnt_q' = 0 /\ hwlp_flush_after_resp' = FALSE
    <2>1. flush_cnt_q = 0 /\ hwlp_flush_after_resp = FALSE
      BY DEF ShortQueue
    <2>2. /\ flush_cnt_q' = IF in.rvalid /\ flush_cnt_q > 0
                              THEN flush_cnt_q - 1 ELSE flush_cnt_q
          /\ hwlp_flush_after_resp' = hwlp_flush_after_resp
      BY <1>1, <1>2, <2>1, FlushStep
    <2> QED BY <2>1, <2>2
  <1>4. ~up(in) => status_cnt_q' > 0
    <2> SUFFICES ASSUME ~up(in) PROVE status_cnt_q' > 0
      OBVIOUS
    <2>1. /\ status_cnt_q \in 0 .. DEPTH /\ status_cnt_q + cnt_q >= DEPTH
          /\ status_cnt_q > 0 /\ flush_cnt_q = 0
      BY <1>2, DepthAssumption DEF TypeOK, ShortQueue
    <2>2. in.rvalid => status_cnt_q < DEPTH
      BY <1>1, <2>1, NewWordFits
    <2>3. /\ in.fetch_ready =>
               status_cnt_q' = IF in.rvalid /\ status_cnt_q < DEPTH
                                 THEN status_cnt_q ELSE status_cnt_q - 1
          /\ ~in.fetch_ready =>
               status_cnt_q' = IF in.rvalid /\ status_cnt_q < DEPTH
                                 THEN status_cnt_q + 1 ELSE status_cnt_q
      BY <1>1, <1>2, <2>1, FifoStep
    <2> QED BY <1>1, <1>2, <2>1, <2>2, <2>3, DepthAssumption
  <1>5. cnt_q' <= 1
    BY <1>2
  <1> QED BY <1>2, <1>3, <1>4, <1>5 DEF IdealInv, ShortQueue, WordEveryCycle

LEMMA IdealBranch ==
  ASSUME IInv, ShortQueue, NEW in \in Ideal(BranchInputs), BranchCycle(in)
  PROVE  IdealInv'
  <1>1. in \in IdealInputs /\ in \in AnyInputs /\ Clock(in) /\ in.branch
    BY InputSubsets DEF Ideal, IdealInputs, BranchCycle
  <1>2. /\ TypeOK /\ (cnt_q = 0 \/ cnt_q = 1)
        /\ in.rvalid <=> cnt_q = 1
        /\ obi_state_q' = "TRANSPARENT"
        /\ cnt_q' = 1 /\ granted' # << >>
    BY <1>1, IdealBus
  <1>3. /\ flush_cnt_q' = IF in.rvalid /\ cnt_q > 0 THEN cnt_q - 1 ELSE cnt_q
        /\ hwlp_flush_after_resp' = FALSE
    BY <1>1, <1>2, FlushStep
  <1>4. flush_cnt_q' = 0 /\ cnt_q' <= 1
    BY <1>2, <1>3
  <1> QED BY <1>2, <1>3, <1>4 DEF IdealInv, ShortQueue, WordEveryCycle

LEMMA IdealJump ==
  ASSUME IInv, ShortQueue, NEW in \in Ideal(HwlpJumpInputs), HwlpJumpCycle(in)
  PROVE  IdealInv'
  <1>1. /\ in \in IdealInputs /\ in \in AnyInputs /\ Clock(in)
        /\ ~in.branch /\ in.hwlp_jump /\ PULP_XPULP
    BY InputSubsets DEF Ideal, IdealInputs, HwlpJumpCycle
  <1>2. /\ TypeOK /\ (cnt_q = 0 \/ cnt_q = 1)
        /\ in.rvalid <=> cnt_q = 1
        /\ obi_state_q' = "TRANSPARENT"
        /\ cnt_q' = 1 /\ granted' # << >>
    BY <1>1, IdealBus
  <1>3. /\ cnt_q > 0 \/ status_cnt_q > 0
        /\ hwlp_flush_after_resp = FALSE
    BY <1>2, MinLoopBodyAssumption DEF IInv, AfterTake, HwlpJumpCycle, TypeOK
  <1>4. status_cnt_q > 0 \/ in.rvalid
    BY <1>2, <1>3
  <1>5. \/ /\ flush_cnt_q' = IF in.rvalid /\ cnt_q > 0 THEN cnt_q - 1 ELSE cnt_q
           /\ \/ hwlp_flush_after_resp' = FALSE
              \/ UNCHANGED << hwlp_flush_after_resp, hwlp_flush_cnt_delayed_q >>
        \/ status_cnt_q = 0 /\ ~in.rvalid
    BY <1>1, <1>2, FlushStep
  <1>6. hwlp_flush_after_resp' = FALSE
    BY <1>2, <1>3, <1>4, <1>5 DEF TypeOK
  <1>7. flush_cnt_q' = 0 /\ cnt_q' <= 1
    BY <1>2, <1>4, <1>5 DEF TypeOK
  <1> QED BY <1>2, <1>6, <1>7 DEF IdealInv, ShortQueue, WordEveryCycle

(* As long as the memory has not made the core wait, there is a word to    *)
(* take in every cycle, a branch apart, however the program jumps.         *)
THEOREM WordsEveryCycle == MCSpec => []IdealWordEveryCycle
  <1>1. MCInit => IInv /\ (ideal => IdealInv)
    <2> SUFFICES ASSUME MCInit PROVE IInv /\ IdealInv
      OBVIOUS
    <2>1. IInv
      BY InitInvariant DEF MCInit
    <2>2. ShortQueue
      BY DEF MCInit, Init, prefetch_controller_i!CtrlInit,
             instruction_obi_i!ObiInit, ShortQueue
    <2>3. WordEveryCycle
      BY DEF MCInit, Init, WordEveryCycle
    <2> QED BY <2>1, <2>2, <2>3 DEF IdealInv
  <1>2. IInv /\ (ideal => IdealInv) /\ [MCNext]_<< vars, ideal >>
          => IInv' /\ (ideal => IdealInv)'
    <2> SUFFICES ASSUME IInv, ideal => IdealInv, [MCNext]_<< vars, ideal >>
                 PROVE  IInv' /\ (ideal => IdealInv)'
      OBVIOUS
    <2>1. CASE IdealStep
      <3>1. ideal' => ideal /\ IdealNext
        BY <2>1 DEF IdealStep
      <3>2. IdealNext => Next
        BY DEF IdealNext, Next, Ideal
      <3>3. IInv'
        BY <2>1, <3>2, NextInvariant DEF IdealStep
      <3>4. ideal /\ IdealNext => IdealInv'
        BY IdealSequential, IdealBranch, IdealJump DEF IdealNext, IdealInv
      <3> QED BY <3>1, <3>3, <3>4
    <2>2. CASE OrdinaryStep
      BY <2>2, NextInvariant DEF OrdinaryStep
    <2>3. CASE UNCHANGED << vars, ideal >>
      <3>1. IInv'
        BY <2>3, NextInvariant
      <3>2. IdealInv => IdealInv'
        BY <2>3
        DEF vars, ctrlRegs, fifoRegs, obiRegs, envVars, IdealInv, ShortQueue,
            WordEveryCycle
      <3> QED BY <2>3, <3>1, <3>2
    <2> QED BY <2>1, <2>2, <2>3 DEF MCNext
  <1>3. (ideal => IdealInv) => IdealWordEveryCycle
    BY DEF IdealInv, IdealWordEveryCycle
  <1> QED BY <1>1, <1>2, <1>3, PTL DEF MCSpec
==============================================================================
