------------------------------- MODULE IfStage -------------------------------
(***************************************************************************)
(* rtl/cv32e40p_if_stage.sv: the fetch stage.  It takes words from the     *)
(* prefetch buffer, has the aligner cut them into instructions and hands   *)
(* these to the decode stage through the IF/ID pipeline registers.  The    *)
(* prefetch buffer is represented by what it promises, FetchStream, which  *)
(* module PrefetchBuffer implements.  One step is one rising clock edge.   *)
(*                                                                         *)
(* The controller and the decode stage are outside: they choose the        *)
(* inputs.  A program is the set of the halfwords that start a 32-bit      *)
(* instruction.                                                            *)
(***************************************************************************)
EXTENDS Naturals, Sequences

CONSTANTS
  WORDS,     \* size of the address space, in words
  None

ASSUME WordsAssumption == WORDS \in Nat /\ WORDS >= 2
ASSUME NoneAssumption == None \notin Nat

HALVES == 2 * WORDS
Half == 0 .. HALVES - 1

VARIABLES
  long,
  (* prefetch_buffer_i *)
  word_pc, word_npc, fetched, redirect,
  (* aligner_i *)
  state, r_instr_h, pc_q, aligner_ready_q, hwlp_addr_q, hwlp_update_pc_q,
  (* IF/ID pipeline registers *)
  instr_valid_id_o, pc_id_o, instr_rdata_id_o,
  (* the environment *)
  issued,   \* an instruction was handed over in the last cycle
  booted    \* the controller has set the first PC (state BOOT_SET)

prefetchVars == << word_pc, word_npc, fetched, redirect >>
alignerRegs == << state, r_instr_h, pc_q, aligner_ready_q,
                  hwlp_addr_q, hwlp_update_pc_q >>
ifIdRegs == << instr_valid_id_o, pc_id_o, instr_rdata_id_o >>
vars == << long, prefetchVars, alignerRegs, ifIdRegs, issued, booted >>

prefetch_buffer_i == INSTANCE FetchStream WITH pc <- word_pc, npc <- word_npc

aligner_i == INSTANCE Aligner

Init ==
  /\ long \in SUBSET Half
  /\ prefetch_buffer_i!StreamInit
  /\ aligner_i!AlignerInit
  /\ instr_valid_id_o = FALSE
  /\ pc_id_o = 0
  /\ instr_rdata_id_o = << 0 >>
  /\ issued = FALSE
  /\ booted = FALSE
------------------------------------------------------------------------------
(***************************************************************************)
(* One clock cycle.  in holds the inputs: pc_set and target, hwlp_jump and *)
(* hwlp_target, req and halt_if from the controller, id_ready and          *)
(* clear_instr_valid from the decode stage, and from the prefetch buffer   *)
(* whether it offers a word.  What it shows when it offers none is         *)
(* arbitrary (idle).                                                       *)
(***************************************************************************)
(* The inputs that matter in a cycle with a word offered, and in one       *)
(* without, in which halt_if and id_ready are not read.                    *)
Offered(req) ==
  [fetch_valid : {TRUE}, idle : {0}, req : req,
   halt_if : BOOLEAN, id_ready : BOOLEAN, clear_instr_valid : BOOLEAN]
NotOffered ==
  [fetch_valid : {FALSE}, idle : 0 .. WORDS - 1, req : {TRUE},
   halt_if : {FALSE}, id_ready : {FALSE}, clear_instr_valid : BOOLEAN]

Inputs(pc_set, target, hwlp_jump, hwlp_target, stage) ==
  [pc_set : pc_set, target : target,
   hwlp_jump : hwlp_jump, hwlp_target : hwlp_target, stage : stage]

(* The prefetch buffer offers no word in the cycle of a branch.            *)
SequentialInputs ==
  Inputs({FALSE}, {0}, {FALSE}, {0}, Offered(BOOLEAN) \cup NotOffered)
BranchInputs == Inputs({TRUE}, Half, {FALSE}, {0}, NotOffered)
HwlpJumpInputs ==
  Inputs({FALSE}, {0}, {TRUE}, Half, Offered({TRUE}) \cup NotOffered)

Word(w) == << 2 * w, 2 * w + 1 >>

if_valid(in) ==
  ~in.stage.halt_if /\ in.stage.fetch_valid /\ in.stage.id_ready

AlignerInputs(in) ==
  [fetch_valid |-> in.stage.fetch_valid, if_valid |-> if_valid(in),
   rdata |-> Word(IF in.stage.fetch_valid THEN word_pc ELSE in.stage.idle),
   branch |-> in.pc_set, branch_addr |-> in.target,
   hwlp_update_pc |-> in.hwlp_jump, hwlp_addr |-> in.hwlp_target]

aligner_out(in) == aligner_i!Outputs(AlignerInputs(in))

fetch_ready(in) ==
  /\ ~in.pc_set /\ in.stage.fetch_valid
  /\ in.stage.req /\ if_valid(in)
  /\ aligner_out(in).aligner_ready

(* The compressed decoder sees the first halfword of a short instruction.  *)
instr_decompressed(instr) ==
  IF instr[1] \in long THEN instr ELSE << instr[1] >>

Prefetch(in) ==
  \/ /\ in.pc_set
     /\ prefetch_buffer_i!Branch(in.target \div 2)
  \/ /\ in.hwlp_jump
     /\ prefetch_buffer_i!LoopJump(in.hwlp_target \div 2)
     /\ fetched' # None <=> fetch_ready(in)
  \/ /\ ~in.pc_set /\ ~in.hwlp_jump /\ fetch_ready(in)
     /\ prefetch_buffer_i!Deliver
  \/ /\ ~in.pc_set /\ ~in.hwlp_jump /\ ~fetch_ready(in)
     /\ prefetch_buffer_i!Wait

HandOver(in) ==
  /\ if_valid(in) /\ aligner_out(in).instr_valid
  /\ instr_valid_id_o' = TRUE
  /\ pc_id_o' = pc_q
  /\ instr_rdata_id_o' = instr_decompressed(aligner_out(in).instr)
  /\ issued' = TRUE

HoldId(in) ==
  /\ ~(if_valid(in) /\ aligner_out(in).instr_valid)
  /\ instr_valid_id_o' = (instr_valid_id_o /\ ~in.stage.clear_instr_valid)
  /\ UNCHANGED << pc_id_o, instr_rdata_id_o >>
  /\ issued' = FALSE

Clock(in) ==
  /\ aligner_i!AlignerClock(AlignerInputs(in))
  /\ Prefetch(in)
  /\ HandOver(in) \/ HoldId(in)

(* Until the first branch nothing is requested and so nothing is offered.  *)
(* The controller lets no instruction in while it does not request.        *)
SequentialCycle(in) ==
  /\ in.stage.fetch_valid => booted
  /\ if_valid(in) => in.stage.req
  /\ Clock(in)
  /\ UNCHANGED booted

BranchCycle(in) ==
  /\ Clock(in)
  /\ booted' = TRUE

(* A loop body consists of aligned 32-bit instructions (corev_hw_loop.rst) *)
(* and the jump comes, once, while its last but one is in decode.          *)
HwlpJumpCycle(in) ==
  /\ instr_valid_id_o /\ ~hwlp_update_pc_q
  /\ pc_id_o % 2 = 0 /\ pc_id_o \in long
  /\ pc_q = aligner_i!Plus(pc_id_o, 2) /\ pc_q \in long
  /\ in.hwlp_target % 2 = 0 /\ in.hwlp_target \in long
  /\ Clock(in)
  /\ UNCHANGED booted

Next ==
  \/ \E in \in SequentialInputs : SequentialCycle(in)
  \/ \E in \in BranchInputs : BranchCycle(in)
  \/ \E in \in HwlpJumpInputs : HwlpJumpCycle(in)

Spec == Init /\ [][Next]_vars

(* The controller sets the first PC (state BOOT_SET), the prefetch buffer  *)
(* goes on offering words (PrefetchBuffer shows that) and the decode stage *)
(* goes on accepting instructions.                                         *)
Boot == \E in \in BranchInputs : ~booted /\ BranchCycle(in)

Accept ==
  \E in \in SequentialInputs : if_valid(in) /\ SequentialCycle(in)

FairSpec == Spec /\ WF_vars(Boot) /\ WF_vars(Accept)
------------------------------------------------------------------------------
TypeOK ==
  /\ long \in SUBSET Half
  /\ word_pc \in 0 .. WORDS - 1 /\ word_npc \in 0 .. WORDS - 1
  /\ fetched \in 0 .. WORDS - 1 \cup {None}
  /\ redirect \in {None} \cup ({"branch", "hwlp_jump"} \X (0 .. WORDS - 1))
  /\ state \in {"ALIGNED32", "MISALIGNED32", "MISALIGNED16", "BRANCH_MISALIGNED"}
  /\ r_instr_h \in Half /\ pc_q \in Half /\ hwlp_addr_q \in Half
  /\ aligner_ready_q \in BOOLEAN /\ hwlp_update_pc_q \in BOOLEAN
  /\ instr_valid_id_o \in BOOLEAN
  /\ pc_id_o \in Half
  /\ instr_rdata_id_o \in {<< h >> : h \in Half} \cup (Half \X Half)
  /\ issued \in BOOLEAN /\ booted \in BOOLEAN

(* The aligner never loses step with the prefetch buffer, two machines     *)
(* that are told of every jump separately: the next instruction starts in  *)
(* the word to be offered next or, in MISALIGNED32, in the halfword kept   *)
(* of the word before; and when a loop jump waits, both go on at its target *)
(* (cv32e40p_aligner.sv:66-89, 219-224).                                   *)
InStep ==
  booted =>
    /\ state \in {"ALIGNED32", "MISALIGNED16"} => pc_q = 2 * word_pc
    /\ state = "BRANCH_MISALIGNED" => pc_q = 2 * word_pc + 1
    /\ state = "MISALIGNED32" =>
         r_instr_h = pc_q /\ aligner_i!Plus(pc_q, 1) = 2 * word_pc
    /\ IF hwlp_update_pc_q
         THEN state = "ALIGNED32" /\ hwlp_addr_q = 2 * word_npc
         ELSE word_npc = prefetch_buffer_i!Successor(word_pc)

(* Every word taken from the prefetch buffer brings an instruction to the  *)
(* decode stage, but the first one after a jump to the high half of a word *)
(* may not: the fetch stage adds no other bubble (instruction_fetch.rst:21). *)
WordBringsInstruction ==
  [][fetched' # None => issued' \/ state = "BRANCH_MISALIGNED"]_vars

InstrStream == INSTANCE InstrStream
  WITH pc <- pc_q,
       then <- IF hwlp_update_pc_q THEN hwlp_addr_q ELSE None,
       issued <- IF issued THEN << pc_id_o, instr_rdata_id_o >> ELSE None

(* The decode stage gets the instructions of the program in program order, *)
(* each with its own address and cut at the right halfwords, whatever      *)
(* stalls, branches to either half of a word and loop jumps come between.  *)
ImplementsInstrStream == InstrStream!StreamSpec

(* When jumps stop, instructions are handed over forever.                  *)
KeepsIssuing == <>[](redirect = None) => []<>issued
==============================================================================
