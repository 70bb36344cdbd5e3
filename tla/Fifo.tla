-------------------------------- MODULE Fifo ---------------------------------
(***************************************************************************)
(* rtl/cv32e40p_fifo.sv: the ring buffer behind the prefetch buffer.  The  *)
(* registers keep the names of the source.  One step is one rising clock   *)
(* edge.  FALL_THROUGH is 0, as in its only instance (the prefetch buffer  *)
(* has a fall-through path of its own).                                    *)
(***************************************************************************)
EXTENDS Naturals, Sequences

CONSTANTS
  DEPTH,        \* number of words of storage (FIFO_DEPTH)
  PTR_VALUES,   \* number of values a pointer register of ADDR_DEPTH bits has
  Word,         \* the words stored
  ResetWord     \* the word all bits of which are 0

ASSUME DepthAssumption == DEPTH \in Nat \ {0}
ASSUME PtrAssumption == PTR_VALUES \in Nat /\ PTR_VALUES >= 2 /\ PTR_VALUES >= DEPTH
ASSUME ResetWordAssumption == ResetWord \in Word

VARIABLES
  mem_q, read_pointer_q, write_pointer_q, status_cnt_q

fifoVars == << mem_q, read_pointer_q, write_pointer_q, status_cnt_q >>

FifoInit ==
  /\ mem_q = [slot \in 0 .. DEPTH - 1 |-> ResetWord]
  /\ read_pointer_q = 0
  /\ write_pointer_q = 0
  /\ status_cnt_q = 0

empty_o == status_cnt_q = 0
full_o == status_cnt_q = DEPTH
data_o == mem_q[read_pointer_q]

(* Faulty variant, not part of the model: the pointer does not wrap.       *)
PointerWithoutWrap(p) == p + 1

(* The explicit wrap at the last slot, or the one of the register's width. *)
NextPointer(p) ==
  IF p = DEPTH - 1 \/ p = PTR_VALUES - 1 THEN 0 ELSE p + 1

(* Without the explicit wrap: the flush that keeps the head adds 1 to the  *)
(* read pointer and only the width of the register wraps it.               *)
PointerPlusOne(p) == IF p = PTR_VALUES - 1 THEN 0 ELSE p + 1

(* The storage is written by every accepted push, even when a flush forgets *)
(* the word in the same cycle.  A pointer past the last slot selects none.  *)
Store(push, word) ==
  mem_q' = IF push /\ ~full_o
             THEN [mem_q EXCEPT ![write_pointer_q] = word]
             ELSE mem_q

(* Faulty variant: a push and a pop in one cycle count as a pop.           *)
TransferCountsPop(push, pop) ==
  LET pushing == push /\ ~full_o
      popping == pop /\ ~empty_o
  IN /\ write_pointer_q' = IF pushing THEN NextPointer(write_pointer_q)
                                      ELSE write_pointer_q
     /\ read_pointer_q' = IF popping THEN NextPointer(read_pointer_q)
                                     ELSE read_pointer_q
     /\ status_cnt_q' = CASE popping -> status_cnt_q - 1
                          [] pushing /\ ~popping -> status_cnt_q + 1
                          [] OTHER -> status_cnt_q

Transfer(push, pop) ==
  LET pushing == push /\ ~full_o
      popping == pop /\ ~empty_o
  IN /\ write_pointer_q' = IF pushing THEN NextPointer(write_pointer_q)
                                      ELSE write_pointer_q
     /\ read_pointer_q' = IF popping THEN NextPointer(read_pointer_q)
                                     ELSE read_pointer_q
     /\ status_cnt_q' = CASE pushing /\ ~popping -> status_cnt_q + 1
                          [] popping /\ ~pushing -> status_cnt_q - 1
                          [] OTHER -> status_cnt_q

Flush ==
  /\ read_pointer_q' = 0
  /\ write_pointer_q' = 0
  /\ status_cnt_q' = 0

FlushButFirst ==
  IF status_cnt_q > 0
    THEN /\ write_pointer_q' = PointerPlusOne(read_pointer_q)
         /\ status_cnt_q' = 1
         /\ UNCHANGED read_pointer_q
    ELSE Flush

(* One clock edge. *)
FifoClock(flush, flush_but_first, push, pop, word) ==
  /\ Store(push, word)
  /\ \/ flush /\ Flush
     \/ ~flush /\ flush_but_first /\ FlushButFirst
     \/ ~flush /\ ~flush_but_first /\ Transfer(push, pop)

FifoNext ==
  \E flush, flush_but_first, push, pop \in BOOLEAN, word \in Word :
    FifoClock(flush, flush_but_first, push, pop, word)

FifoSpec == FifoInit /\ [][FifoNext]_fifoVars
------------------------------------------------------------------------------
(* Type invariant of the registers (cv32e40p_fifo.sv:49-59).               *)
FifoTypeOK ==
  /\ mem_q \in [0 .. DEPTH - 1 -> Word]
  /\ read_pointer_q \in 0 .. DEPTH - 1
  /\ write_pointer_q \in 0 .. PTR_VALUES - 1
  /\ status_cnt_q \in 0 .. DEPTH

(* The slot that holds the i-th oldest word. *)
Slot(i) ==
  LET s == read_pointer_q + i - 1 IN IF s < DEPTH THEN s ELSE s - DEPTH

(* The words the queue holds, oldest first. *)
Contents == [i \in 1 .. status_cnt_q |-> mem_q[Slot(i)]]

Queue == INSTANCE FifoQueue WITH queue <- Contents

(* The ring buffer is a bounded first-in first-out queue: no word is lost, *)
(* repeated or reordered by pushes and pops, Flush empties it, and          *)
(* FlushButFirst keeps exactly the oldest word.                            *)
ImplementsQueue == Queue!QueueSpec
==============================================================================
