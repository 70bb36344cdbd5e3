----------------------------- MODULE Fifo_proofs ------------------------------
(***************************************************************************)
(* The ring buffer is a bounded queue for every number of slots that the   *)
(* pointer register can count exactly, that is, every power of two; the    *)
(* run fifo_depth3 shows that this is needed.  The registers keep their     *)
(* types for every number of slots.                                        *)
(***************************************************************************)
EXTENDS Fifo, SequenceTheorems, TLAPS

(* The write pointer is where the pointer of the head and the number of    *)
(* words say, which a wrap missed by either pointer would break.           *)
PointersAgree ==
  write_pointer_q = IF read_pointer_q + status_cnt_q < DEPTH
                      THEN read_pointer_q + status_cnt_q
                      ELSE read_pointer_q + status_cnt_q - DEPTH

IInv == FifoTypeOK /\ PointersAgree
------------------------------------------------------------------------------
LEMMA InitTypes == FifoInit => FifoTypeOK
  BY DepthAssumption, PtrAssumption, ResetWordAssumption
  DEF FifoInit, FifoTypeOK

LEMMA TypeStep ==
  ASSUME FifoTypeOK, NEW flush \in BOOLEAN, NEW flush_but_first \in BOOLEAN,
         NEW push \in BOOLEAN, NEW pop \in BOOLEAN, NEW word \in Word,
         FifoClock(flush, flush_but_first, push, pop, word)
  PROVE  FifoTypeOK'
  <1>1. mem_q' \in [0 .. DEPTH - 1 -> Word]
    BY DEF FifoTypeOK, FifoClock, Store
  <1>2. /\ read_pointer_q' \in 0 .. DEPTH - 1
        /\ write_pointer_q' \in 0 .. PTR_VALUES - 1
        /\ status_cnt_q' \in 0 .. DEPTH
    BY DepthAssumption, PtrAssumption
    DEF FifoTypeOK, FifoClock, Flush, FlushButFirst, Transfer, NextPointer,
        PointerPlusOne, full_o, empty_o
  <1> QED BY <1>1, <1>2 DEF FifoTypeOK

(* The registers of the FIFO keep their types, whatever its size.          *)
THEOREM TypeCorrect == FifoSpec => []FifoTypeOK
  <1>1. FifoTypeOK /\ [FifoNext]_fifoVars => FifoTypeOK'
    BY TypeStep DEF FifoNext, fifoVars, FifoTypeOK
  <1> QED BY <1>1, InitTypes, PTL DEF FifoSpec
------------------------------------------------------------------------------
(* The words of the queue. *)
ContentsOK ==
  /\ Contents \in Seq(Word)
  /\ Len(Contents) = status_cnt_q
  /\ \A i \in 1 .. status_cnt_q : Contents[i] = mem_q[Slot(i)]

LEMMA ContentsProperties == FifoTypeOK => ContentsOK
  <1> SUFFICES ASSUME FifoTypeOK PROVE ContentsOK
    OBVIOUS
  <1>1. \A i \in 1 .. status_cnt_q : mem_q[Slot(i)] \in Word
    BY DepthAssumption DEF FifoTypeOK, Slot
  <1>2. Contents \in [1 .. status_cnt_q -> Word] /\ status_cnt_q \in Nat
    BY <1>1, DepthAssumption DEF Contents, FifoTypeOK
  <1>3. Contents \in Seq(Word)
    BY <1>2
  <1>4. Len(Contents) = status_cnt_q
    BY <1>2, <1>3, LenProperties
  <1> QED BY <1>3, <1>4 DEF Contents, ContentsOK

LEMMA NextContentsProperties == FifoTypeOK' => ContentsOK'
  BY ContentsProperties, PTL

(* After a cycle, a sequence with the right length and words is the content. *)
LEMMA NextContentsAre ==
  ASSUME FifoTypeOK', NEW s \in Seq(Word), Len(s) = status_cnt_q',
         \A i \in 1 .. status_cnt_q' : s[i] = mem_q'[Slot(i)']
  PROVE  Contents' = s
  <1>1. /\ Contents' \in Seq(Word) /\ Len(Contents') = status_cnt_q'
        /\ \A i \in 1 .. status_cnt_q' : Contents'[i] = mem_q'[Slot(i)']
    BY NextContentsProperties DEF ContentsOK
  <1>2. \A i \in 1 .. Len(s) : Contents'[i] = s[i]
    BY <1>1
  <1> HIDE DEF Contents
  <1> QED BY <1>1, <1>2, SeqEqual

(* A free slot is the one behind the last word, and no other word's.       *)
LEMMA FreeSlot ==
  ASSUME IInv, status_cnt_q < DEPTH
  PROVE  /\ Slot(status_cnt_q + 1) = write_pointer_q
         /\ write_pointer_q \in 0 .. DEPTH - 1
         /\ \A i \in 1 .. status_cnt_q : Slot(i) # write_pointer_q
  BY DepthAssumption DEF IInv, FifoTypeOK, PointersAgree, Slot

LEMMA SlotTypes ==
  ASSUME FifoTypeOK
  PROVE  \A i \in 1 .. DEPTH : Slot(i) \in 0 .. DEPTH - 1
  BY DepthAssumption DEF FifoTypeOK, Slot

(* What a cycle stores does not touch the words of the queue. *)
LEMMA StoreStep ==
  ASSUME IInv, NEW push \in BOOLEAN, NEW word \in Word, Store(push, word)
  PROVE  /\ \A i \in 1 .. status_cnt_q : mem_q'[Slot(i)] = mem_q[Slot(i)]
         /\ push /\ status_cnt_q < DEPTH => mem_q'[write_pointer_q] = word
  <1>1. CASE push /\ status_cnt_q # DEPTH
    <2>1. status_cnt_q < DEPTH
      BY <1>1, DepthAssumption DEF IInv, FifoTypeOK
    <2>2. mem_q' = [mem_q EXCEPT ![write_pointer_q] = word]
      BY <1>1 DEF Store, full_o
    <2>3. \A i \in 1 .. status_cnt_q : Slot(i) \in 0 .. DEPTH - 1
      BY SlotTypes, DepthAssumption DEF IInv, FifoTypeOK
    <2> QED BY <2>1, <2>2, <2>3, FreeSlot DEF IInv, FifoTypeOK
  <1>2. CASE ~(push /\ status_cnt_q # DEPTH)
    <2>1. mem_q' = mem_q
      BY <1>2 DEF Store, full_o
    <2>2. ~(push /\ status_cnt_q < DEPTH)
      BY <1>2, DepthAssumption DEF IInv, FifoTypeOK
    <2> QED BY <2>1, <2>2
  <1> QED BY <1>1, <1>2
------------------------------------------------------------------------------
(* With as many pointer values as slots both ways to wrap are the same.    *)
LEMMA PointerStep ==
  ASSUME DEPTH = PTR_VALUES, IInv,
         NEW flush \in BOOLEAN, NEW flush_but_first \in BOOLEAN,
         NEW push \in BOOLEAN, NEW pop \in BOOLEAN, NEW word \in Word,
         FifoClock(flush, flush_but_first, push, pop, word)
  PROVE  PointersAgree'
  <1> USE DepthAssumption DEF IInv, FifoTypeOK
  <1> DEFINE pushing == push /\ ~full_o
             popping == pop /\ ~empty_o
  <1>1. CASE Flush
    BY <1>1 DEF Flush, PointersAgree
  <1>2. CASE FlushButFirst /\ status_cnt_q > 0
    <2>1. /\ status_cnt_q' = 1 /\ read_pointer_q' = read_pointer_q
          /\ write_pointer_q' = PointerPlusOne(read_pointer_q)
      BY <1>2 DEF FlushButFirst
    <2> QED BY <2>1 DEF PointersAgree, PointerPlusOne
  <1>3. CASE Transfer(push, pop)
    <2>1. CASE pushing /\ popping
      <3>1. /\ status_cnt_q' = status_cnt_q
            /\ read_pointer_q' = NextPointer(read_pointer_q)
            /\ write_pointer_q' = NextPointer(write_pointer_q)
            /\ status_cnt_q # DEPTH /\ status_cnt_q # 0
        BY <1>3, <2>1 DEF Transfer, full_o, empty_o
      <3> QED BY <3>1 DEF PointersAgree, NextPointer
    <2>2. CASE pushing /\ ~popping
      <3>1. /\ status_cnt_q' = status_cnt_q + 1
            /\ read_pointer_q' = read_pointer_q
            /\ write_pointer_q' = NextPointer(write_pointer_q)
            /\ status_cnt_q # DEPTH
        BY <1>3, <2>2 DEF Transfer, full_o
      <3> QED BY <3>1 DEF PointersAgree, NextPointer
    <2>3. CASE ~pushing /\ popping
      <3>1. /\ status_cnt_q' = status_cnt_q - 1
            /\ read_pointer_q' = NextPointer(read_pointer_q)
            /\ write_pointer_q' = write_pointer_q
            /\ status_cnt_q # 0
        BY <1>3, <2>3 DEF Transfer, empty_o
      <3> QED BY <3>1 DEF PointersAgree, NextPointer
    <2>4. CASE ~pushing /\ ~popping
      <3>1. /\ status_cnt_q' = status_cnt_q
            /\ read_pointer_q' = read_pointer_q
            /\ write_pointer_q' = write_pointer_q
        BY <1>3, <2>4 DEF Transfer
      <3> QED BY <3>1 DEF PointersAgree
    <2> QED BY <2>1, <2>2, <2>3, <2>4
  <1>4. FlushButFirst => Flush \/ status_cnt_q > 0
    BY DEF FlushButFirst
  <1> QED BY <1>1, <1>2, <1>3, <1>4 DEF FifoClock

LEMMA FlushStep ==
  ASSUME FifoTypeOK', Flush
  PROVE  Queue!Flush
  <1>1. Len(Contents') = 0 /\ Contents' \in Seq(Word)
    BY NextContentsProperties DEF Flush, ContentsOK
  <1> QED BY <1>1, EmptySeq DEF Queue!Flush

LEMMA FlushButFirstStep ==
  ASSUME IInv, FifoTypeOK', FlushButFirst, NEW push \in BOOLEAN, NEW word \in Word,
         Store(push, word)
  PROVE  Queue!FlushButFirst
  <1>0. ContentsOK
    BY ContentsProperties DEF IInv
  <1>1. CASE status_cnt_q > 0
    <2>1. /\ status_cnt_q' = 1 /\ read_pointer_q' = read_pointer_q
          /\ \A i \in 1 .. 1 : Slot(i)' = Slot(i)
          /\ 1 \in 1 .. status_cnt_q
      BY <1>1 DEF FlushButFirst, Slot, IInv, FifoTypeOK
    <2>2. \A i \in 1 .. 1 : mem_q'[Slot(i)] = mem_q[Slot(i)]
      BY <2>1, StoreStep
    <2>3. /\ Contents # << >> /\ Head(Contents) = mem_q[Slot(1)]
          /\ Head(Contents) \in Word
      <3> HIDE DEF Contents
      <3> QED BY <1>0, <2>1, EmptySeq, HeadTailProperties, ElementOfSeq DEF ContentsOK
    <2>4. Contents' = << Head(Contents) >>
      <3> DEFINE s == << Head(Contents) >>
      <3>1. s \in Seq(Word) /\ Len(s) = 1 /\ s[1] = Head(Contents)
        BY <2>3
      <3> HIDE DEF s
      <3>2. \A i \in 1 .. status_cnt_q' : s[i] = mem_q'[Slot(i)']
        BY <2>1, <2>2, <2>3, <3>1
      <3>3. Contents' = s
        BY <2>1, <3>1, <3>2, NextContentsAre
      <3> QED BY <3>3 DEF s
    <2> QED BY <2>3, <2>4 DEF Queue!FlushButFirst
  <1>2. CASE ~(status_cnt_q > 0)
    <2>1. Contents = << >>
      BY <1>0, <1>2, EmptySeq, DepthAssumption DEF IInv, FifoTypeOK, ContentsOK
    <2>2. Contents' = << >>
      BY <1>2, FlushStep DEF FlushButFirst, Queue!Flush, IInv
    <2> QED BY <2>1, <2>2 DEF Queue!FlushButFirst
  <1> QED BY <1>1, <1>2

(* A pop moves every word one place to the front. *)
LEMMA SlotStep ==
  ASSUME FifoTypeOK
  PROVE  /\ read_pointer_q' = read_pointer_q
           => \A i \in 1 .. DEPTH : Slot(i)' = Slot(i)
         /\ read_pointer_q' = NextPointer(read_pointer_q)
           => \A i \in 1 .. DEPTH - 1 : Slot(i)' = Slot(i + 1)
  <1> USE DepthAssumption, PtrAssumption DEF FifoTypeOK
  <1>1. ASSUME read_pointer_q' = read_pointer_q, NEW i \in 1 .. DEPTH
        PROVE  Slot(i)' = Slot(i)
    BY <1>1 DEF Slot
  <1>2. ASSUME read_pointer_q' = NextPointer(read_pointer_q), NEW i \in 1 .. DEPTH - 1
        PROVE  Slot(i)' = Slot(i + 1)
    <2>1. CASE read_pointer_q = DEPTH - 1
      BY <1>2, <2>1 DEF Slot, NextPointer
    <2>2. CASE read_pointer_q # DEPTH - 1
      <3>1. read_pointer_q' = read_pointer_q + 1
        BY <1>2, <2>2 DEF NextPointer
      <3> QED BY <3>1 DEF Slot
    <2> QED BY <2>1, <2>2
  <1> QED BY <1>1, <1>2

(* Pushes and pops move the words as they move those of the queue.         *)
LEMMA TransferStep ==
  ASSUME IInv, FifoTypeOK', NEW push \in BOOLEAN, NEW pop \in BOOLEAN,
         NEW word \in Word, Transfer(push, pop), Store(push, word)
  PROVE  Queue!Transfer(push, pop, word)
  <1> DEFINE pushing == push /\ status_cnt_q < DEPTH
             popping == pop /\ status_cnt_q > 0
             popped == IF popping THEN Tail(Contents) ELSE Contents
             shift == IF popping THEN 1 ELSE 0
             s == IF pushing THEN Append(popped, word) ELSE popped
             left == status_cnt_q - shift
  <1>1. ContentsOK /\ status_cnt_q \in 0 .. DEPTH /\ DEPTH \in Nat
    BY ContentsProperties, DepthAssumption DEF IInv, FifoTypeOK
  <1>2. /\ Queue!Accepts(push) <=> pushing
        /\ Queue!HandsOver(pop) <=> popping
    <2> HIDE DEF Contents
    <2> QED BY <1>1, EmptySeq DEF Queue!Accepts, Queue!HandsOver, ContentsOK
  <1>3. /\ popped \in Seq(Word) /\ Len(popped) = left
        /\ \A i \in 1 .. left : popped[i] = mem_q[Slot(i + shift)]
    <2> HIDE DEF Contents
    <2>1. CASE popping
      <3>1. Contents # << >>
        BY <1>1, <2>1, EmptySeq DEF ContentsOK
      <3>2. /\ Tail(Contents) \in Seq(Word)
            /\ Len(Tail(Contents)) = status_cnt_q - 1
            /\ \A i \in 1 .. status_cnt_q - 1 : Tail(Contents)[i] = Contents[i + 1]
        BY <1>1, <3>1, HeadTailProperties DEF ContentsOK
      <3>3. \A i \in 1 .. status_cnt_q - 1 : i + 1 \in 1 .. status_cnt_q
        BY <1>1
      <3> QED BY <1>1, <2>1, <3>2, <3>3 DEF ContentsOK
    <2>2. CASE ~popping
      <3>1. \A i \in 1 .. status_cnt_q : i + 0 = i
        BY <1>1
      <3> QED BY <1>1, <2>2, <3>1 DEF ContentsOK
    <2> QED BY <2>1, <2>2
  <1>4. /\ status_cnt_q' = IF pushing THEN left + 1 ELSE left
        /\ left \in 0 .. DEPTH
        /\ read_pointer_q' = IF popping THEN NextPointer(read_pointer_q)
                                        ELSE read_pointer_q
    BY <1>1 DEF Transfer, full_o, empty_o
  <1>5. \A i \in 1 .. status_cnt_q' : Slot(i)' = Slot(i + shift)
    <2>1. CASE popping
      <3>1. \A i \in 1 .. status_cnt_q' : i \in 1 .. DEPTH - 1
        BY <1>1, <1>4, <2>1
      <3> QED BY <1>4, <2>1, <3>1, SlotStep DEF IInv
    <2>2. CASE ~popping
      <3>1. \A i \in 1 .. status_cnt_q' : i \in 1 .. DEPTH /\ i + 0 = i
        BY <1>1, <1>4, <2>2
      <3> QED BY <1>4, <2>2, <3>1, SlotStep DEF IInv
    <2> QED BY <2>1, <2>2
  <1>6. \A i \in 1 .. left : mem_q'[Slot(i + shift)] = mem_q[Slot(i + shift)]
    <2>1. \A i \in 1 .. left : i + shift \in 1 .. status_cnt_q
      BY <1>1
    <2> QED BY <2>1, StoreStep
  <1> HIDE DEF popped
  <1>7. s \in Seq(Word) /\ Len(s) = status_cnt_q'
    BY <1>1, <1>3, <1>4, AppendProperties
  <1>8. \A i \in 1 .. status_cnt_q' : s[i] = mem_q'[Slot(i)']
    <2> SUFFICES ASSUME NEW i \in 1 .. status_cnt_q'
                 PROVE  s[i] = mem_q'[Slot(i)']
      OBVIOUS
    <2>1. Slot(i)' = Slot(i + shift)
      BY <1>5
    <2>2. CASE i \in 1 .. left
      <3>1. s[i] = popped[i]
        BY <1>1, <1>3, <2>2, AppendProperties
      <3>2. popped[i] = mem_q[Slot(i + shift)]
        BY <1>3, <2>2
      <3>3. mem_q'[Slot(i + shift)] = mem_q[Slot(i + shift)]
        BY <1>6, <2>2
      <3> HIDE DEF s
      <3> QED BY <2>1, <3>1, <3>2, <3>3
    <2>3. CASE pushing /\ i = left + 1
      <3>1. s[i] = word
        BY <1>3, <2>3, AppendProperties
      <3>2. i + shift = status_cnt_q + 1
        BY <1>1, <2>3
      <3>3. mem_q'[Slot(status_cnt_q + 1)] = word
        BY <2>3, FreeSlot, StoreStep
      <3> HIDE DEF s
      <3> QED BY <2>1, <3>1, <3>2, <3>3
    <2>4. i \in 1 .. left \/ (pushing /\ i = left + 1)
      BY <1>1, <1>4
    <2> QED BY <2>2, <2>3, <2>4
  <1>9. Contents' = s
    <2> HIDE DEF s
    <2> QED BY <1>7, <1>8, NextContentsAre
  <1> QED BY <1>2, <1>9 DEF Queue!Transfer, Queue!Pushed, Queue!Popped, popped
------------------------------------------------------------------------------
LEMMA ClockIsQueueStep ==
  ASSUME DEPTH = PTR_VALUES, IInv,
         NEW flush \in BOOLEAN, NEW flush_but_first \in BOOLEAN,
         NEW push \in BOOLEAN, NEW pop \in BOOLEAN, NEW word \in Word,
         FifoClock(flush, flush_but_first, push, pop, word)
  PROVE  IInv' /\ Queue!QueueNext
  <1>1. FifoTypeOK'
    BY TypeStep DEF IInv
  <1>2. PointersAgree'
    BY PointerStep
  <1>3. Store(push, word)
    BY DEF FifoClock
  <1>4. Flush => Queue!Flush
    BY <1>1, FlushStep
  <1>5. FlushButFirst => Queue!FlushButFirst
    BY <1>1, <1>3, FlushButFirstStep
  <1>6. Transfer(push, pop) => Queue!Transfer(push, pop, word)
    BY <1>1, <1>3, TransferStep
  <1>7. Queue!QueueNext
    BY <1>4, <1>5, <1>6 DEF FifoClock, Queue!QueueNext
  <1> QED BY <1>1, <1>2, <1>7 DEF IInv

LEMMA InitIsEmpty == FifoInit => Queue!QueueInit /\ IInv
  <1> SUFFICES ASSUME FifoInit PROVE Queue!QueueInit /\ IInv
    OBVIOUS
  <1>1. FifoTypeOK
    BY InitTypes
  <1>2. PointersAgree
    BY DepthAssumption DEF FifoInit, PointersAgree
  <1>3. Contents \in Seq(Word) /\ Len(Contents) = 0
    BY <1>1, ContentsProperties DEF ContentsOK, FifoInit
  <1>4. Contents = << >>
    <2> HIDE DEF Contents
    <2> QED BY <1>3, EmptySeq
  <1> QED BY <1>1, <1>2, <1>4 DEF IInv, Queue!QueueInit

(* The ring buffer of cv32e40p_fifo.sv is a bounded first-in first-out     *)
(* queue for every number of slots the pointer register counts exactly.    *)
THEOREM FifoIsQueue ==
  ASSUME DEPTH = PTR_VALUES
  PROVE  FifoSpec => ImplementsQueue
  <1>1. IInv /\ [FifoNext]_fifoVars => IInv' /\ [Queue!QueueNext]_Contents
    <2>1. ASSUME IInv, UNCHANGED fifoVars PROVE IInv' /\ UNCHANGED Contents
      BY <2>1 DEF fifoVars, IInv, FifoTypeOK, PointersAgree, Contents, Slot
    <2> QED BY <2>1, ClockIsQueueStep DEF FifoNext
  <1> QED BY <1>1, InitIsEmpty, PTL DEF FifoSpec, ImplementsQueue, Queue!QueueSpec
==============================================================================
