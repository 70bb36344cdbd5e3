------------------------------ MODULE FifoQueue ------------------------------
(***************************************************************************)
(* What cv32e40p_fifo promises to the prefetch buffer, without pointers    *)
(* or storage: a bounded queue that is clocked.  In one clock cycle it can *)
(* accept a word, hand over its head, do both, be emptied, or be cut down  *)
(* to its head.                                                            *)
(***************************************************************************)
EXTENDS Naturals, Sequences

CONSTANTS
  DEPTH,   \* number of words the queue can hold
  Word     \* the words stored

VARIABLE queue

QueueInit == queue = << >>

(* The push of a full queue and the pop of an empty one are ignored. *)
Accepts(push) == push /\ Len(queue) < DEPTH
HandsOver(pop) == pop /\ queue # << >>

Pushed(q, push, word) == IF push THEN Append(q, word) ELSE q
Popped(q, pop) == IF pop THEN Tail(q) ELSE q

Transfer(push, pop, word) ==
  queue' = Pushed(Popped(queue, HandsOver(pop)), Accepts(push), word)

Flush == queue' = << >>

FlushButFirst == queue' = IF queue = << >> THEN << >> ELSE << Head(queue) >>

QueueNext ==
  \/ Flush
  \/ FlushButFirst
  \/ \E push, pop \in BOOLEAN, word \in Word : Transfer(push, pop, word)

QueueSpec == QueueInit /\ [][QueueNext]_queue
==============================================================================
