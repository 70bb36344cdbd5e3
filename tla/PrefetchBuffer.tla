--------------------------- MODULE PrefetchBuffer ----------------------------
(***************************************************************************)
(* rtl/cv32e40p_prefetch_buffer.sv: the fetch unit between the instruction *)
(* bus and the fetch stage.  It wires together the prefetch controller,    *)
(* the FIFO and the bus adapter, which keep their modules and the instance *)
(* names of the source.  All three are clocked together: one step is one   *)
(* rising clock edge of the whole unit.                                    *)
(*                                                                         *)
(* Two things are outside the unit.  The instruction memory answers the    *)
(* granted requests in order, each at least one cycle after its grant; a   *)
(* word is represented by its address.  The fetch stage and the controller *)
(* (cv32e40p_if_stage.sv, cv32e40p_controller.sv) choose the inputs.       *)
(***************************************************************************)
EXTENDS Naturals, Sequences

CONSTANTS
  DEPTH,          \* FIFO_DEPTH
  WORDS,          \* size of the address space, in words
  PULP_OBI, PULP_XPULP,
  MIN_LOOP_BODY,  \* shortest body of a hardware loop, in instructions
  None            \* no word

(* cv32e40p_prefetch_buffer.sv asserts that the FIFO holds more than one.  *)
ASSUME DepthAssumption == DEPTH \in Nat /\ DEPTH >= 2
ASSUME WordsAssumption == WORDS \in Nat /\ WORDS >= 2
ASSUME FlagsAssumption == PULP_OBI \in BOOLEAN /\ PULP_XPULP \in BOOLEAN
ASSUME MinLoopBodyAssumption == MIN_LOOP_BODY \in Nat /\ MIN_LOOP_BODY >= 2
ASSUME NoneAssumption == None \notin Nat

VARIABLES
  (* prefetch_controller_i *)
  state_q, cnt_q, flush_cnt_q, trans_addr_q,
  hwlp_flush_after_resp, hwlp_flush_cnt_delayed_q,
  (* fifo_i *)
  mem_q, read_pointer_q, write_pointer_q, status_cnt_q,
  (* instruction_obi_i *)
  obi_state_q, obi_addr_q,
  (* the instruction memory *)
  granted,        \* addresses granted and not yet answered, oldest first
  waiting,        \* address offered and not granted in the last cycle, or None
  (* the fetch stage and the controller *)
  fetched,        \* word taken by the fetch stage in the last cycle, or None
  redirect,       \* redirection requested in the last cycle, or None
  in_decode,      \* no redirection since the fetch stage took a word
  since_jump      \* words taken since the last hardware-loop jump (saturates
                  \* at MIN_LOOP_BODY)

ctrlRegs == << state_q, cnt_q, flush_cnt_q, trans_addr_q,
               hwlp_flush_after_resp, hwlp_flush_cnt_delayed_q >>
fifoRegs == << mem_q, read_pointer_q, write_pointer_q, status_cnt_q >>
obiRegs == << obi_state_q, obi_addr_q >>
envVars ==
  << granted, waiting, fetched, redirect, in_decode, since_jump >>
vars == << ctrlRegs, fifoRegs, obiRegs, envVars >>

Addr == 0 .. WORDS - 1

prefetch_controller_i == INSTANCE PrefetchController

fifo_i == INSTANCE Fifo
  WITH PTR_VALUES <- DEPTH, Word <- Addr, ResetWord <- 0

instruction_obi_i == INSTANCE ObiInterface
  WITH TRANS_STABLE <- FALSE, Payload <- Addr, ResetPayload <- 0,
       state_q <- obi_state_q

Init ==
  /\ prefetch_controller_i!CtrlInit
  /\ fifo_i!FifoInit
  /\ instruction_obi_i!ObiInit
  /\ granted = << >>
  /\ waiting = None
  /\ fetched = None
  /\ redirect = None
  /\ in_decode = FALSE
  /\ since_jump = MIN_LOOP_BODY
------------------------------------------------------------------------------
(***************************************************************************)
(* One clock cycle.  in holds the inputs of the unit and of its memory:    *)
(* req, branch, hwlp_jump, target, fetch_ready from the core, gnt and      *)
(* rvalid from the bus.                                                    *)
(***************************************************************************)
Inputs(req, branch, hwlp_jump, target, fetch_ready) ==
  [req : req, branch : branch, hwlp_jump : hwlp_jump, target : target,
   fetch_ready : fetch_ready, gnt : BOOLEAN, rvalid : BOOLEAN]

(* target is not read without a redirection; the controller redirects only *)
(* while it requests instructions, and a branch cycle takes no word.       *)
SequentialInputs == Inputs(BOOLEAN, {FALSE}, {FALSE}, {0}, BOOLEAN)
BranchInputs == Inputs({TRUE}, {TRUE}, {FALSE}, Addr, {FALSE})
HwlpJumpInputs == Inputs({TRUE}, {FALSE}, {TRUE}, Addr, BOOLEAN)

(* The controller's view of a cycle. *)
Wired(in) ==
  [req |-> in.req, branch |-> in.branch, hwlp_jump |-> in.hwlp_jump,
   target |-> in.target, fetch_ready |-> in.fetch_ready,
   resp_valid |-> in.rvalid,
   trans_ready |-> instruction_obi_i!trans_ready_o(in.gnt),
   fifo_cnt |-> status_cnt_q]

trans_valid(in) == prefetch_controller_i!trans_valid_o(Wired(in))
trans_addr(in) == prefetch_controller_i!trans_addr_o(Wired(in))
fetch_valid_o(in) == prefetch_controller_i!fetch_valid_o(Wired(in))

instr_req_o(in) == instruction_obi_i!obi_req_o(trans_valid(in))
instr_addr_o(in) == instruction_obi_i!obi_addr_o(trans_addr(in))

(* The word offered: the head of the FIFO, or the answer on the bus. *)
fetch_rdata_o(in) ==
  IF fifo_i!empty_o THEN Head(granted) ELSE fifo_i!data_o

busy_o(in) == cnt_q # 0 \/ trans_valid(in)

(* The three parts at the clock edge. *)
UnitClock(in) ==
  /\ prefetch_controller_i!CtrlClock(Wired(in))
  /\ fifo_i!FifoClock(prefetch_controller_i!fifo_flush_o(Wired(in)),
                      prefetch_controller_i!fifo_flush_but_first_o(Wired(in)),
                      prefetch_controller_i!fifo_push_o(Wired(in)),
                      prefetch_controller_i!fifo_pop_o(Wired(in)),
                      IF in.rvalid THEN Head(granted) ELSE 0)
  /\ instruction_obi_i!ObiClock(trans_valid(in), trans_addr(in), in.gnt)

(* The memory answers in order, and only granted requests. *)
Memory(in) ==
  /\ granted' = (IF in.rvalid THEN Tail(granted) ELSE granted)
                \o (IF instr_req_o(in) /\ in.gnt
                      THEN << instr_addr_o(in) >> ELSE << >>)
  /\ waiting' = IF instr_req_o(in) /\ ~in.gnt THEN instr_addr_o(in) ELSE None

(* The fetch stage takes a word only when one is offered, it is requesting, *)
(* and no branch is taken (cv32e40p_if_stage.sv:211-223).                  *)
FetchStage(in) ==
  fetched' = IF in.fetch_ready THEN fetch_rdata_o(in) ELSE None

Allowed(in) ==
  /\ in.rvalid => granted # << >>
  /\ in.fetch_ready => in.req /\ ~in.branch /\ fetch_valid_o(in)

Taken(count, in) ==
  IF in.fetch_ready /\ count < MIN_LOOP_BODY THEN count + 1 ELSE count

Clock(in) ==
  /\ Allowed(in)
  /\ UnitClock(in)
  /\ Memory(in)
  /\ FetchStage(in)

SequentialCycle(in) ==
  /\ Clock(in)
  /\ redirect' = None
  /\ in_decode' = (in_decode \/ in.fetch_ready)
  /\ since_jump' = Taken(since_jump, in)

(* After a branch the program may be anywhere in a loop body.              *)
BranchCycle(in) ==
  /\ Clock(in)
  /\ redirect' = << "branch", in.target >>
  /\ in_decode' = FALSE
  /\ since_jump' = MIN_LOOP_BODY

(* The controller pulses hwlp_jump once while the instruction before the   *)
(* last one of the loop body is in decode (cv32e40p_controller.sv:798-812, *)
(* 1258): no word was taken after that instruction.  Two jumps without a   *)
(* branch in between are a loop body apart.                                *)
HwlpJumpCycle(in) ==
  /\ PULP_XPULP
  /\ in_decode /\ since_jump = MIN_LOOP_BODY
  /\ Clock(in)
  /\ redirect' = << "hwlp_jump", in.target >>
  /\ in_decode' = in.fetch_ready
  /\ since_jump' = Taken(0, in)

Next ==
  \/ \E in \in SequentialInputs : SequentialCycle(in)
  \/ \E in \in BranchInputs : BranchCycle(in)
  \/ \E in \in HwlpJumpInputs : HwlpJumpCycle(in)

Spec == Init /\ [][Next]_vars

(* Fairness.  The core keeps requesting and the memory grants; the memory  *)
(* answers what it granted; the fetch stage takes a word that is offered.   *)
Grant ==
  \E in \in SequentialInputs :
    in.gnt /\ instr_req_o(in) /\ SequentialCycle(in)
Answer == \E in \in SequentialInputs : in.rvalid /\ SequentialCycle(in)
Take == \E in \in SequentialInputs : in.fetch_ready /\ SequentialCycle(in)

Fairness == WF_vars(Grant) /\ WF_vars(Answer) /\ WF_vars(Take)

FairSpec == Spec /\ Fairness

(* A memory that never makes the core wait: it grants at once and answers  *)
(* in the next cycle.                                                      *)
Ideal(inputs) ==
  {in \in inputs : in.req /\ in.gnt /\ (in.rvalid <=> granted # << >>)}

IdealNext ==
  \/ \E in \in Ideal(SequentialInputs) : SequentialCycle(in)
  \/ \E in \in Ideal(BranchInputs) : BranchCycle(in)
  \/ \E in \in Ideal(HwlpJumpInputs) : HwlpJumpCycle(in)
------------------------------------------------------------------------------
TypeOK ==
  /\ state_q \in {"IDLE", "BRANCH_WAIT"}
  /\ cnt_q \in 0 .. DEPTH
  /\ flush_cnt_q \in 0 .. DEPTH
  /\ trans_addr_q \in Addr
  /\ hwlp_flush_after_resp \in BOOLEAN
  /\ hwlp_flush_cnt_delayed_q \in 0 .. DEPTH
  /\ mem_q \in [0 .. DEPTH - 1 -> Addr]
  /\ read_pointer_q \in 0 .. DEPTH - 1
  /\ write_pointer_q \in 0 .. DEPTH - 1
  /\ status_cnt_q \in 0 .. DEPTH
  /\ obi_state_q \in {"TRANSPARENT", "REGISTERED"}
  /\ obi_addr_q \in Addr
  /\ granted \in Seq(Addr)
  /\ waiting \in Addr \cup {None}
  /\ fetched \in Addr \cup {None}
  /\ redirect \in {None} \cup ({"branch", "hwlp_jump"} \X Addr)
  /\ in_decode \in BOOLEAN
  /\ since_jump \in 0 .. MIN_LOOP_BODY

(* Every transaction the controller handed to the bus and that is not      *)
(* answered: the granted ones, then the one the bus adapter still holds.    *)
Outstanding ==
  granted \o IF obi_state_q = "REGISTERED" THEN << obi_addr_q >> ELSE << >>

(* The answers the controller will discard, whether it does so now or      *)
(* after the last word of a loop body.                                     *)
Unwanted ==
  IF hwlp_flush_after_resp THEN hwlp_flush_cnt_delayed_q ELSE flush_cnt_q

(* The controller's counter is the number of outstanding transactions, so  *)
(* the answer of the bus is always an expected one and the unit that       *)
(* reports itself idle has none under way (prefetch_controller.sv:94, 198). *)
CountsOutstanding == cnt_q = Len(Outstanding)

(* There is a free slot for every answer that is still wanted: the FIFO    *)
(* never has to drop a word, whatever redirections come between the        *)
(* request and the answer (prefetch_controller.sv:117-119, 182-183).       *)
WantedWordsFit ==
  /\ Unwanted <= cnt_q
  /\ status_cnt_q + (cnt_q - Unwanted) <= DEPTH

(* In a cycle in which a hardware loop may jump, the last word of the body *)
(* has been requested already, no earlier redirection is still in          *)
(* progress, and so the jump cannot discard the word it must keep          *)
(* (cv32e40p_prefetch_controller_sva.sv:104-109).                          *)
LoopEndRequested ==
  (in_decode /\ since_jump = MIN_LOOP_BODY) =>
    /\ cnt_q > 0 \/ status_cnt_q > 0
    /\ flush_cnt_q = 0 /\ ~hwlp_flush_after_resp
    /\ state_q = "IDLE"

(* An address offered on the bus stays there until it is granted, although *)
(* the controller may have changed its mind (obi_interface.sv:76-77).      *)
AddressPhaseStable ==
  [][waiting # None =>
       \/ waiting' = waiting
       \/ granted' # << >> /\ granted'[Len(granted')] = waiting]_vars

(* On the legacy bus no request is made while another is under way, but in *)
(* the cycle of its answer (prefetch_controller.sv:147-151).               *)
OneTransaction == PULP_OBI => cnt_q <= 1

(* With a memory that never waits, a word can be taken in every cycle but  *)
(* that of a branch, one cycle after the branch for a start: redirections  *)
(* cost no other cycle (docs/source/pipeline.rst:32).                      *)
WordEveryCycle ==
  (redirect # None \/ fetched # None \/ granted # << >>) =>
    flush_cnt_q = 0 /\ (status_cnt_q > 0 \/ granted # << >>)

(***************************************************************************)
(* Refinement.  The words on their way to the fetch stage are those in the *)
(* FIFO, then the outstanding ones that are wanted, then the one to be     *)
(* requested next.                                                         *)
(***************************************************************************)
Wanted ==
  LET n == Len(Outstanding) IN
  IF hwlp_flush_after_resp
    THEN << Outstanding[1] >>
         \o SubSeq(Outstanding, hwlp_flush_cnt_delayed_q + 2, n)
    ELSE SubSeq(Outstanding, flush_cnt_q + 1, n)

NextRequest ==
  IF state_q = "BRANCH_WAIT" THEN trans_addr_q
                             ELSE prefetch_controller_i!NextAddr(trans_addr_q)

Stream == fifo_i!Contents \o Wanted \o << NextRequest >>

FetchStream == INSTANCE FetchStream
  WITH pc <- Stream[1],
       npc <- IF Len(Stream) > 1 THEN Stream[2]
                                 ELSE prefetch_controller_i!NextAddr(Stream[1])

(* The fetch stage gets exactly the words of the program, in order, across *)
(* branches and hardware-loop jumps that arrive at any moment of a bus     *)
(* transaction: none is lost, repeated, or taken from the wrong path.      *)
ImplementsFetchStream == FetchStream!StreamSpec

(* When redirections stop, the fetch stage gets words forever.             *)
KeepsFetching == <>[](redirect = None) => []<>(fetched # None)
==============================================================================
