------------------------- MODULE PrefetchController --------------------------
(***************************************************************************)
(* rtl/cv32e40p_prefetch_controller.sv: decides which word to request next *)
(* and which responses are still wanted.  It holds no instruction words:   *)
(* those are in the FIFO and on the bus.  Registers and signals keep the   *)
(* names of the source; one step is one rising clock edge.                 *)
(*                                                                         *)
(* Addresses are word addresses (the low two bits of every address the     *)
(* controller sends are 0), modulo WORDS, which is 2^30 in the design.     *)
(***************************************************************************)
EXTENDS Naturals

CONSTANTS
  DEPTH,        \* words in the FIFO, and most transactions outstanding
  WORDS,        \* size of the address space in words
  PULP_OBI,     \* legacy bus: one transaction at a time
  PULP_XPULP    \* hardware loops are present

VARIABLES
  state_q,                   \* "IDLE" or "BRANCH_WAIT"
  cnt_q,                     \* transactions accepted and not yet answered
  flush_cnt_q,               \* answers still to be thrown away
  trans_addr_q,              \* address of the last transaction, or the
                             \* target that waits in BRANCH_WAIT
  hwlp_flush_after_resp,     \* throw away after the next answer
  hwlp_flush_cnt_delayed_q   \* how many answers, then

ctrlVars == << state_q, cnt_q, flush_cnt_q, trans_addr_q,
               hwlp_flush_after_resp, hwlp_flush_cnt_delayed_q >>

Addr == 0 .. WORDS - 1

CtrlInit ==
  /\ state_q = "IDLE"
  /\ cnt_q = 0
  /\ flush_cnt_q = 0
  /\ trans_addr_q = 0
  /\ hwlp_flush_after_resp = FALSE
  /\ hwlp_flush_cnt_delayed_q = 0

NextAddr(a) == IF a = WORDS - 1 THEN 0 ELSE a + 1

(***************************************************************************)
(* Combinational outputs.  in is the record of this cycle's inputs:        *)
(*   req          the core wants instructions                              *)
(*   branch       a jump to target, which empties the whole pipeline        *)
(*   hwlp_jump    the word after the next one to be delivered is target    *)
(*   resp_valid   the bus answers the oldest transaction                   *)
(*   trans_ready  the bus adapter takes a transaction                      *)
(*   fetch_ready  the fetch stage takes the offered word                   *)
(*   fifo_cnt     words in the FIFO                                        *)
(***************************************************************************)
Redirect(in) == in.branch \/ in.hwlp_jump

(* Faulty variant: the room a redirect makes is used one cycle late.       *)
FifoCountUnmasked(in) == in.fifo_cnt

(* A redirect makes room in the FIFO, so its words do not count. *)
fifo_cnt_masked(in) == IF Redirect(in) THEN 0 ELSE in.fifo_cnt

(* Faulty variants, not part of the model: a bound off by one, either way, *)
(* and the legacy bus handled like the other.                              *)
RequestOneTooMany(in) ==
  /\ in.req
  /\ fifo_cnt_masked(in) + cnt_q <= DEPTH
  /\ PULP_OBI => (cnt_q = 0 \/ in.resp_valid)

RequestOneTooFew(in) ==
  /\ in.req
  /\ fifo_cnt_masked(in) + cnt_q < DEPTH - 1
  /\ PULP_OBI => (cnt_q = 0 \/ in.resp_valid)

RequestBackToBack(in) == in.req /\ fifo_cnt_masked(in) + cnt_q < DEPTH

trans_valid_o(in) ==
  /\ in.req
  /\ fifo_cnt_masked(in) + cnt_q < DEPTH
  /\ PULP_OBI => (cnt_q = 0 \/ in.resp_valid)

trans_addr_o(in) ==
  CASE in.branch -> in.target
    [] ~in.branch /\ state_q = "BRANCH_WAIT" -> trans_addr_q
    [] ~in.branch /\ state_q = "IDLE" /\ in.hwlp_jump -> in.target
    [] OTHER -> NextAddr(trans_addr_q)

count_up(in) == trans_valid_o(in) /\ in.trans_ready

fetch_valid_o(in) ==
  /\ in.fifo_cnt > 0 \/ in.resp_valid
  /\ ~in.branch /\ flush_cnt_q = 0

fifo_push_o(in) ==
  /\ in.resp_valid
  /\ in.fifo_cnt > 0 \/ ~in.fetch_ready
  /\ ~in.branch /\ flush_cnt_q = 0

fifo_pop_o(in) == in.fifo_cnt > 0 /\ in.fetch_ready

fifo_flush_o(in) ==
  \/ in.branch
  \/ PULP_XPULP /\ in.hwlp_jump /\ fifo_pop_o(in)

fifo_flush_but_first_o(in) ==
  PULP_XPULP /\ in.hwlp_jump /\ in.fifo_cnt > 0 /\ ~fifo_pop_o(in)

(* The word before the target of a hardware loop is the last one that must *)
(* still be delivered.  It is already here, or its answer is to come.      *)
hwlp_flush_resp(in) ==
  PULP_XPULP /\ in.hwlp_jump /\ (in.fifo_cnt > 0 \/ in.resp_valid)

hwlp_wait_resp_flush(in) ==
  PULP_XPULP /\ in.hwlp_jump /\ in.fifo_cnt = 0 /\ ~in.resp_valid

hwlp_flush_resp_delayed(in) == hwlp_flush_after_resp /\ in.resp_valid

(***************************************************************************)
(* Registers at the clock edge.                                            *)
(***************************************************************************)
State(in) ==
  state_q' =
    CASE state_q = "IDLE" /\ Redirect(in) /\ ~count_up(in) -> "BRANCH_WAIT"
      [] state_q = "BRANCH_WAIT" /\ count_up(in) -> "IDLE"
      [] OTHER -> state_q

(* Faulty variant: a request and an answer in one cycle count up.          *)
CountUpFirst(in) ==
  cnt_q' = CASE count_up(in) -> cnt_q + 1
             [] ~count_up(in) /\ in.resp_valid -> cnt_q - 1
             [] OTHER -> cnt_q

(* The counter has one bit more than the FIFO's pointers.  PrefetchBuffer  *)
(* shows that it neither overflows nor underflows.                         *)
Count(in) ==
  cnt_q' = CASE count_up(in) /\ ~in.resp_valid -> cnt_q + 1
             [] ~count_up(in) /\ in.resp_valid -> cnt_q - 1
             [] OTHER -> cnt_q

(* Faulty variants: a redirection does not see the answer that comes in    *)
(* its own cycle; an answer thrown away is not counted.                    *)
FlushCountIgnoresAnswer(in) ==
  flush_cnt_q' =
    CASE in.branch \/ hwlp_flush_resp(in) -> cnt_q
      [] ~in.branch /\ ~hwlp_flush_resp(in) /\ hwlp_flush_resp_delayed(in) ->
           hwlp_flush_cnt_delayed_q
      [] OTHER ->
           IF in.resp_valid /\ flush_cnt_q > 0 THEN flush_cnt_q - 1
                                               ELSE flush_cnt_q

FlushCountStays(in) ==
  flush_cnt_q' =
    CASE in.branch \/ hwlp_flush_resp(in) ->
           IF in.resp_valid /\ cnt_q > 0 THEN cnt_q - 1 ELSE cnt_q
      [] ~in.branch /\ ~hwlp_flush_resp(in) /\ hwlp_flush_resp_delayed(in) ->
           hwlp_flush_cnt_delayed_q
      [] OTHER -> flush_cnt_q

FlushCount(in) ==
  flush_cnt_q' =
    CASE in.branch \/ hwlp_flush_resp(in) ->
           IF in.resp_valid /\ cnt_q > 0 THEN cnt_q - 1 ELSE cnt_q
      [] ~in.branch /\ ~hwlp_flush_resp(in) /\ hwlp_flush_resp_delayed(in) ->
           hwlp_flush_cnt_delayed_q
      [] OTHER ->
           IF in.resp_valid /\ flush_cnt_q > 0 THEN flush_cnt_q - 1
                                               ELSE flush_cnt_q

(* Faulty variant: a branch does not cancel a flush that waits.            *)
DelayedFlushSurvivesBranch(in) ==
  \/ /\ hwlp_wait_resp_flush(in)
     /\ hwlp_flush_after_resp' = TRUE
     /\ hwlp_flush_cnt_delayed_q' = cnt_q - 1
  \/ /\ ~hwlp_wait_resp_flush(in) /\ hwlp_flush_resp_delayed(in)
     /\ hwlp_flush_after_resp' = FALSE
     /\ hwlp_flush_cnt_delayed_q' = 0
  \/ /\ ~hwlp_wait_resp_flush(in) /\ ~hwlp_flush_resp_delayed(in)
     /\ UNCHANGED << hwlp_flush_after_resp, hwlp_flush_cnt_delayed_q >>

DelayedFlush(in) ==
  \/ /\ ~in.branch /\ hwlp_wait_resp_flush(in)
     /\ hwlp_flush_after_resp' = TRUE
     /\ hwlp_flush_cnt_delayed_q' = cnt_q - 1
  \/ /\ in.branch \/ (~hwlp_wait_resp_flush(in) /\ hwlp_flush_resp_delayed(in))
     /\ hwlp_flush_after_resp' = FALSE
     /\ hwlp_flush_cnt_delayed_q' = 0
  \/ /\ ~in.branch /\ ~hwlp_wait_resp_flush(in) /\ ~hwlp_flush_resp_delayed(in)
     /\ UNCHANGED << hwlp_flush_after_resp, hwlp_flush_cnt_delayed_q >>

Address(in) ==
  trans_addr_q' = IF Redirect(in) \/ count_up(in) THEN trans_addr_o(in)
                                                  ELSE trans_addr_q

CtrlClock(in) ==
  /\ State(in)
  /\ Count(in)
  /\ FlushCount(in)
  /\ DelayedFlush(in)
  /\ Address(in)
==============================================================================
