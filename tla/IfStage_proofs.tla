---------------------------- MODULE IfStage_proofs -----------------------------
(***************************************************************************)
(* The fetch stage: aligner and prefetch buffer stay in step, and together *)
(* they hand the program to the decode stage, for an address space of any  *)
(* size and every program.                                                 *)
(***************************************************************************)
EXTENDS IfStage, Integers, TLAPS

(* Nothing moves before the controller sets the first PC. *)
BeforeBoot ==
  ~booted => /\ state = "ALIGNED32" /\ ~hwlp_update_pc_q /\ ~instr_valid_id_o
             /\ word_npc = prefetch_buffer_i!Successor(word_pc)

(* A loop jump waits for a 32-bit instruction only: a 16-bit one would let *)
(* the aligner forget the jump.                                            *)
JumpWaitsForLong == hwlp_update_pc_q => pc_q \in long

(* In MISALIGNED16 the word on offer was refused in the cycle before, when *)
(* the high halfword of its predecessor went to the decode stage; so the   *)
(* instruction there is not the last but one of a loop body.               *)
WordRefused == state = "MISALIGNED16" => ~aligner_ready_q /\ pc_id_o % 2 = 1

IInv == TypeOK /\ InStep /\ BeforeBoot /\ JumpWaitsForLong /\ WordRefused
------------------------------------------------------------------------------
Successor(w) == prefetch_buffer_i!Successor(w)
Plus(h, n) == aligner_i!Plus(h, n)

(* Words and halfwords. *)
LEMMA SuccessorIs ==
  ASSUME NEW w \in 0 .. WORDS - 1
  PROVE  /\ Successor(w) \in 0 .. WORDS - 1
         /\ Successor(w) = IF w + 1 = WORDS THEN 0 ELSE w + 1
  BY WordsAssumption DEF Successor, prefetch_buffer_i!Successor

LEMMA PlusIs ==
  ASSUME NEW h \in Half, NEW n \in 1 .. 2
  PROVE  Plus(h, n) \in Half
  BY WordsAssumption DEF Half, HALVES, Plus, aligner_i!Plus

LEMMA PlusOnWords ==
  ASSUME NEW w \in 0 .. WORDS - 1
  PROVE  /\ 2 * w \in Half /\ 2 * w + 1 \in Half
         /\ Plus(2 * w, 1) = 2 * w + 1
         /\ Plus(2 * w, 2) = 2 * Successor(w)
         /\ Plus(2 * w + 1, 1) = 2 * Successor(w)
  BY WordsAssumption, SuccessorIs DEF Half, HALVES, Plus, aligner_i!Plus

(* An instruction in the high half of a word. *)
LEMMA PlusFromHighHalf ==
  ASSUME NEW w \in 0 .. WORDS - 1, NEW h \in Half, Plus(h, 1) = 2 * w
  PROVE  Plus(h, 2) = 2 * w + 1 /\ h % 2 = 1
  BY WordsAssumption DEF Half, HALVES, Plus, aligner_i!Plus

LEMMA HalfOf ==
  ASSUME NEW h \in Half
  PROVE  /\ h \div 2 \in 0 .. WORDS - 1
         /\ h % 2 = 0 => h = 2 * (h \div 2)
         /\ h % 2 # 0 => h % 2 = 1 /\ h = 2 * (h \div 2) + 1
  BY WordsAssumption DEF Half, HALVES

LEMMA AfterIsPlus ==
  ASSUME NEW h \in Half, NEW n \in 1 .. 2
  PROVE  InstrStream!After(h, n) = Plus(h, n)
  BY WordsAssumption DEF Half, HALVES, Plus, aligner_i!Plus, InstrStream!After
------------------------------------------------------------------------------
StraightInputs == SequentialInputs \cup HwlpJumpInputs

LEMMA StraightInputTypes ==
  ASSUME NEW in \in StraightInputs
  PROVE  /\ in.pc_set = FALSE /\ in.hwlp_jump \in BOOLEAN /\ in.hwlp_target \in Half
         /\ in.stage.fetch_valid \in BOOLEAN /\ in.stage.idle \in 0 .. WORDS - 1
         /\ in.stage.req \in BOOLEAN /\ in.stage.halt_if \in BOOLEAN
         /\ in.stage.id_ready \in BOOLEAN /\ in.stage.clear_instr_valid \in BOOLEAN
  <1>1. 0 \in Half /\ 0 \in 0 .. WORDS - 1
    BY WordsAssumption DEF Half, HALVES
  <1>2. CASE in \in SequentialInputs
    BY <1>1, <1>2 DEF SequentialInputs, Inputs, Offered, NotOffered
  <1>3. CASE in \in HwlpJumpInputs
    BY <1>1, <1>3 DEF HwlpJumpInputs, Inputs, Offered, NotOffered
  <1> QED BY <1>2, <1>3 DEF StraightInputs

LEMMA StraightOutputs ==
  ASSUME NEW in \in StraightInputs
  PROVE  aligner_out(in) = aligner_i!Straight(AlignerInputs(in))
  BY StraightInputTypes DEF aligner_out, aligner_i!Outputs, AlignerInputs

LEMMA StraightCases ==
  ASSUME NEW al
  PROVE  /\ state = "ALIGNED32" => aligner_i!Straight(al) = aligner_i!Aligned32(al)
         /\ state = "MISALIGNED32" => aligner_i!Straight(al) = aligner_i!Misaligned32(al)
         /\ state = "MISALIGNED16" => aligner_i!Straight(al) = aligner_i!Misaligned16(al)
         /\ state = "BRANCH_MISALIGNED"
              => aligner_i!Straight(al) = aligner_i!BranchMisaligned(al)
  BY DEF aligner_i!Straight

(* The outputs of the aligner, state by state. *)
LEMMA Aligned32Outputs ==
  ASSUME NEW al, NEW out, out = aligner_i!Aligned32(al)
  PROVE  /\ out.update_state = (al.fetch_valid /\ al.if_valid)
         /\ out.aligner_ready = TRUE
         /\ out.instr_valid = al.fetch_valid
         /\ out.instr = al.rdata
         /\ al.rdata[1] \in long =>
              /\ out.next_state = "ALIGNED32"
              /\ out.pc_n = IF al.hwlp_update_pc THEN al.hwlp_addr
                            ELSE IF hwlp_update_pc_q THEN hwlp_addr_q
                            ELSE Plus(pc_q, 2)
         /\ al.rdata[1] \notin long =>
              /\ out.next_state = "MISALIGNED32"
              /\ out.pc_n = Plus(pc_q, 1)
  BY DEF aligner_i!Aligned32, aligner_i!Default, aligner_i!pc_plus2, aligner_i!pc_plus4, Plus

LEMMA Misaligned32Outputs ==
  ASSUME NEW al, NEW out, out = aligner_i!Misaligned32(al)
  PROVE  /\ r_instr_h \in long =>
              /\ out.update_state = (al.fetch_valid /\ al.if_valid)
              /\ out.aligner_ready = TRUE
              /\ out.instr_valid = al.fetch_valid
              /\ out.instr = << r_instr_h, al.rdata[1] >>
              /\ out.next_state = "MISALIGNED32"
              /\ out.pc_n = Plus(pc_q, 2)
         /\ r_instr_h \notin long =>
              /\ out.update_state = al.if_valid
              /\ out.aligner_ready = ~al.fetch_valid
              /\ out.instr_valid = TRUE
              /\ out.instr = << r_instr_h, al.rdata[2] >>
              /\ out.next_state = "MISALIGNED16"
              /\ out.pc_n = Plus(pc_q, 1)
  BY DEF aligner_i!Misaligned32, aligner_i!Default, aligner_i!pc_plus2,
         aligner_i!pc_plus4, Plus

LEMMA Misaligned16Outputs ==
  ASSUME NEW al, NEW out, out = aligner_i!Misaligned16(al)
  PROVE  /\ out.update_state = ((~aligner_ready_q \/ al.fetch_valid) /\ al.if_valid)
         /\ out.aligner_ready = TRUE
         /\ out.instr_valid = (~aligner_ready_q \/ al.fetch_valid)
         /\ out.instr = al.rdata
         /\ al.rdata[1] \in long =>
              /\ out.next_state = "ALIGNED32"
              /\ out.pc_n = Plus(pc_q, 2)
         /\ al.rdata[1] \notin long =>
              /\ out.next_state = "MISALIGNED32"
              /\ out.pc_n = Plus(pc_q, 1)
  BY DEF aligner_i!Misaligned16, aligner_i!Default, aligner_i!pc_plus2,
         aligner_i!pc_plus4, Plus

LEMMA BranchMisalignedOutputs ==
  ASSUME NEW al, NEW out, out = aligner_i!BranchMisaligned(al)
  PROVE  /\ out.update_state = (al.fetch_valid /\ al.if_valid)
         /\ out.aligner_ready = TRUE
         /\ al.rdata[2] \in long =>
              /\ out.instr_valid = FALSE
              /\ out.next_state = "MISALIGNED32"
              /\ out.pc_n = pc_q
         /\ al.rdata[2] \notin long =>
              /\ out.instr_valid = al.fetch_valid
              /\ out.instr = << al.rdata[2], al.rdata[2] >>
              /\ out.next_state = "ALIGNED32"
              /\ out.pc_n = Plus(pc_q, 1)
  BY DEF aligner_i!BranchMisaligned, aligner_i!Default, aligner_i!pc_plus2, Plus

(* An instruction that is not accepted moves neither the aligner nor the   *)
(* prefetch buffer.                                                        *)
LEMMA Refusing ==
  ASSUME TypeOK, NEW in \in StraightInputs, ~if_valid(in)
  PROVE  ~aligner_out(in).update_state /\ ~fetch_ready(in)
  <1> DEFINE al == AlignerInputs(in)
  <1>1. al.if_valid = FALSE
    BY DEF AlignerInputs
  <1>2. aligner_out(in) = aligner_i!Straight(al)
    BY StraightOutputs
  <1> HIDE DEF al
  <1>3. CASE state = "ALIGNED32"
    BY <1>1, <1>2, <1>3, StraightCases, Aligned32Outputs DEF fetch_ready
  <1>4. CASE state = "MISALIGNED32"
    BY <1>1, <1>2, <1>4, StraightCases, Misaligned32Outputs DEF fetch_ready
  <1>5. CASE state = "MISALIGNED16"
    BY <1>1, <1>2, <1>5, StraightCases, Misaligned16Outputs DEF fetch_ready
  <1>6. CASE state = "BRANCH_MISALIGNED"
    BY <1>1, <1>2, <1>6, StraightCases, BranchMisalignedOutputs DEF fetch_ready
  <1> QED BY <1>3, <1>4, <1>5, <1>6 DEF TypeOK

(* What one cycle does with the inputs of a stage that refuses. *)
LEMMA RefusingStep ==
  ASSUME TypeOK, NEW in \in StraightInputs, ~if_valid(in), Clock(in)
  PROVE  /\ UNCHANGED << long, state, r_instr_h, pc_q, aligner_ready_q, word_pc,
                         pc_id_o, instr_rdata_id_o >>
         /\ IF in.hwlp_jump
              THEN /\ hwlp_addr_q' = in.hwlp_target /\ hwlp_update_pc_q' = TRUE
                   /\ word_npc' = in.hwlp_target \div 2
                   /\ redirect' = << "hwlp_jump", in.hwlp_target \div 2 >>
              ELSE /\ UNCHANGED << hwlp_addr_q, hwlp_update_pc_q, word_npc >>
                   /\ redirect' = None
         /\ fetched' = None /\ issued' = FALSE
         /\ instr_valid_id_o' = (instr_valid_id_o /\ ~in.stage.clear_instr_valid)
  <1>1. ~aligner_out(in).update_state /\ ~fetch_ready(in)
    BY Refusing
  <1>2. AlignerInputs(in).hwlp_update_pc = in.hwlp_jump
        /\ AlignerInputs(in).hwlp_addr = in.hwlp_target
    BY DEF AlignerInputs
  <1>3. in.pc_set = FALSE /\ in.hwlp_jump \in BOOLEAN
    BY StraightInputTypes
  <1>4. /\ UNCHANGED << long, state, r_instr_h, pc_q, aligner_ready_q >>
        /\ IF in.hwlp_jump
             THEN hwlp_addr_q' = in.hwlp_target /\ hwlp_update_pc_q' = TRUE
             ELSE UNCHANGED << hwlp_addr_q, hwlp_update_pc_q >>
    BY <1>1, <1>2, <1>3
    DEF Clock, aligner_i!AlignerClock, aligner_i!Update, aligner_i!SaveLoopJump,
        aligner_i!Stall, aligner_i!alignerVars, aligner_out
  <1>0. word_pc # None
    BY NoneAssumption, WordsAssumption DEF TypeOK
  <1>5. /\ UNCHANGED word_pc /\ fetched' = None
        /\ IF in.hwlp_jump
             THEN /\ word_npc' = in.hwlp_target \div 2
                  /\ redirect' = << "hwlp_jump", in.hwlp_target \div 2 >>
             ELSE UNCHANGED word_npc /\ redirect' = None
    BY <1>0, <1>1, <1>3
    DEF Clock, Prefetch, prefetch_buffer_i!LoopJump, prefetch_buffer_i!Deliver,
        prefetch_buffer_i!Wait
  <1>6. HoldId(in)
    BY DEF Clock, HandOver
  <1> QED BY <1>4, <1>5, <1>6 DEF HoldId

(* What one cycle does with the inputs of a stage that accepts. *)
Advances(in) ==
  LET out == aligner_out(in)
  IN  /\ UNCHANGED << long, hwlp_addr_q >> /\ hwlp_update_pc_q' = FALSE
      /\ pc_q' = out.pc_n /\ state' = out.next_state
      /\ r_instr_h' = 2 * word_pc + 1
      /\ aligner_ready_q' = out.aligner_ready
      /\ IF out.aligner_ready
           THEN /\ fetched' = word_pc
                /\ word_pc' = IF in.hwlp_jump THEN in.hwlp_target \div 2
                                              ELSE word_npc
                /\ word_npc' = Successor(word_pc')
           ELSE /\ fetched' = None
                /\ ~in.hwlp_jump => UNCHANGED << word_pc, word_npc >>
      /\ redirect' = IF in.hwlp_jump
                       THEN << "hwlp_jump", in.hwlp_target \div 2 >> ELSE None
      /\ IF out.instr_valid
           THEN /\ instr_valid_id_o' = TRUE /\ issued' = TRUE
                /\ pc_id_o' = pc_q
                /\ instr_rdata_id_o' = instr_decompressed(out.instr)
           ELSE /\ issued' = FALSE /\ UNCHANGED << pc_id_o, instr_rdata_id_o >>
                /\ instr_valid_id_o' =
                     (instr_valid_id_o /\ ~in.stage.clear_instr_valid)

LEMMA AcceptingStep ==
  ASSUME TypeOK, NEW in \in StraightInputs, if_valid(in), in.stage.req, Clock(in),
         aligner_out(in).update_state, aligner_out(in).aligner_ready \in BOOLEAN
  PROVE  Advances(in)
  <1> DEFINE out == aligner_out(in)
  <1>1. /\ in.pc_set = FALSE /\ in.hwlp_jump \in BOOLEAN
        /\ in.stage.fetch_valid \in BOOLEAN /\ in.stage.fetch_valid
    BY StraightInputTypes DEF if_valid
  <1>2. AlignerInputs(in).rdata = << 2 * word_pc, 2 * word_pc + 1 >>
    BY <1>1 DEF AlignerInputs, Word
  <1>3. /\ UNCHANGED << long, hwlp_addr_q >> /\ hwlp_update_pc_q' = FALSE
        /\ pc_q' = out.pc_n /\ state' = out.next_state
        /\ r_instr_h' = 2 * word_pc + 1
        /\ aligner_ready_q' = out.aligner_ready
    BY <1>2
    DEF Clock, aligner_i!AlignerClock, aligner_i!Update, aligner_i!SaveLoopJump,
        aligner_i!Stall, aligner_out
  <1>4. fetch_ready(in) <=> out.aligner_ready
    BY <1>1 DEF fetch_ready
  <1>5. word_pc # None
    BY NoneAssumption, WordsAssumption DEF TypeOK
  <1>6. /\ IF out.aligner_ready
             THEN /\ fetched' = word_pc
                  /\ word_pc' = IF in.hwlp_jump THEN in.hwlp_target \div 2
                                                ELSE word_npc
                  /\ word_npc' = Successor(word_pc')
             ELSE /\ fetched' = None
                  /\ ~in.hwlp_jump => UNCHANGED << word_pc, word_npc >>
        /\ redirect' = IF in.hwlp_jump
                         THEN << "hwlp_jump", in.hwlp_target \div 2 >> ELSE None
    <2>1. CASE ~in.hwlp_jump /\ out.aligner_ready
      <3>1. prefetch_buffer_i!Deliver
        BY <1>1, <1>4, <2>1 DEF Clock, Prefetch
      <3> QED BY <2>1, <3>1 DEF prefetch_buffer_i!Deliver, Successor, prefetch_buffer_i!Successor
    <2>2. CASE ~in.hwlp_jump /\ ~out.aligner_ready
      <3>1. prefetch_buffer_i!Wait
        BY <1>1, <1>4, <2>2 DEF Clock, Prefetch
      <3> QED BY <2>2, <3>1 DEF prefetch_buffer_i!Wait
    <2>3. CASE in.hwlp_jump
      <3>1. /\ prefetch_buffer_i!LoopJump(in.hwlp_target \div 2)
            /\ fetched' # None <=> out.aligner_ready
        BY <1>1, <1>4, <2>3 DEF Clock, Prefetch
      <3> QED BY <1>5, <2>3, <3>1 DEF prefetch_buffer_i!LoopJump, Successor, prefetch_buffer_i!Successor
    <2> QED BY <2>1, <2>2, <2>3
  <1>7. IF out.instr_valid
          THEN /\ instr_valid_id_o' = TRUE /\ issued' = TRUE
               /\ pc_id_o' = pc_q
               /\ instr_rdata_id_o' = instr_decompressed(out.instr)
          ELSE /\ issued' = FALSE /\ UNCHANGED << pc_id_o, instr_rdata_id_o >>
               /\ instr_valid_id_o' =
                    (instr_valid_id_o /\ ~in.stage.clear_instr_valid)
    BY DEF Clock, HandOver, HoldId
  <1> QED BY <1>3, <1>6, <1>7 DEF Advances
------------------------------------------------------------------------------
(* What a cycle without a branch is to do. *)
GoodStep(in) ==
  /\ TypeOK' /\ InStep' /\ JumpWaitsForLong' /\ WordRefused'
  /\ UNCHANGED long
  /\ IF in.hwlp_jump THEN InstrStream!LoopJump(in.hwlp_target)
                     ELSE InstrStream!Issue \/ InstrStream!Wait
  /\ fetched' # None => issued' \/ state = "BRANCH_MISALIGNED"

(* The guard of a loop jump, and where the next instruction starts.        *)
GuardedJump(in) ==
  in.hwlp_jump =>
    /\ pc_q \in long /\ pc_q % 2 = 0 /\ pc_id_o % 2 = 0 /\ ~hwlp_update_pc_q
    /\ in.hwlp_target % 2 = 0

Accepts(in) ==
  /\ TypeOK /\ InStep /\ JumpWaitsForLong /\ WordRefused
  /\ booted /\ booted' = TRUE
  /\ in \in StraightInputs /\ Clock(in) /\ GuardedJump(in)
  /\ if_valid(in) /\ in.stage.req

LEMMA AcceptedInputs ==
  ASSUME NEW in, Accepts(in)
  PROVE  LET al == AlignerInputs(in)
         IN  /\ aligner_out(in) = aligner_i!Straight(al)
             /\ al.fetch_valid = TRUE /\ al.if_valid = TRUE
             /\ al.rdata = << 2 * word_pc, 2 * word_pc + 1 >>
             /\ al.hwlp_update_pc = in.hwlp_jump /\ in.hwlp_jump \in BOOLEAN
             /\ al.hwlp_addr = in.hwlp_target /\ in.hwlp_target \in Half
             /\ in.hwlp_target \div 2 \in 0 .. WORDS - 1
  <1>1. /\ in.stage.fetch_valid \in BOOLEAN /\ if_valid(in) = TRUE
        /\ in.hwlp_jump \in BOOLEAN /\ in.hwlp_target \in Half
    BY StraightInputTypes DEF Accepts, if_valid
  <1>2. in.stage.fetch_valid = TRUE
    BY <1>1 DEF if_valid
  <1>3. aligner_out(in) = aligner_i!Straight(AlignerInputs(in))
    BY StraightOutputs DEF Accepts
  <1> QED BY <1>1, <1>2, <1>3, HalfOf DEF AlignerInputs, Word

LEMMA InstrTypes ==
  ASSUME NEW h \in Half
  PROVE  InstrStream!Instr(h) \in {<< i >> : i \in Half} \cup (Half \X Half)
  <1>1. InstrStream!After(h, 1) \in Half
    BY PlusIs, AfterIsPlus
  <1> QED BY <1>1 DEF InstrStream!Instr

(* The registers of the next cycle, when the word offered was accepted.    *)
LEMMA AcceptedTypes ==
  ASSUME NEW in, Accepts(in),
         UNCHANGED << long, hwlp_addr_q >>, hwlp_update_pc_q' = FALSE,
         pc_q' \in Half,
         state' \in {"ALIGNED32", "MISALIGNED32", "MISALIGNED16", "BRANCH_MISALIGNED"},
         r_instr_h' = 2 * word_pc + 1, aligner_ready_q' \in BOOLEAN,
         word_pc' \in 0 .. WORDS - 1, word_npc' \in 0 .. WORDS - 1,
         fetched' \in {word_pc, None},
         redirect' = IF in.hwlp_jump
                       THEN << "hwlp_jump", in.hwlp_target \div 2 >> ELSE None,
         issued' \in BOOLEAN, instr_valid_id_o' \in BOOLEAN,
         \/ UNCHANGED << pc_id_o, instr_rdata_id_o >>
         \/ pc_id_o' = pc_q /\ instr_rdata_id_o' = InstrStream!Instr(pc_q)
  PROVE  TypeOK'
  <1>1. /\ in.hwlp_jump \in BOOLEAN
        /\ in.hwlp_target \div 2 \in 0 .. WORDS - 1 /\ r_instr_h' \in Half
    BY AcceptedInputs, PlusOnWords DEF Accepts, TypeOK
  <1>2. redirect' \in {None} \cup ({"branch", "hwlp_jump"} \X (0 .. WORDS - 1))
    BY <1>1
  <1>3. /\ pc_id_o' \in Half
        /\ instr_rdata_id_o' \in {<< h >> : h \in Half} \cup (Half \X Half)
    BY InstrTypes DEF Accepts, TypeOK
  <1> QED BY <1>1, <1>2, <1>3 DEF Accepts, TypeOK

LEMMA AcceptAligned32 ==
  ASSUME NEW in, Accepts(in), state = "ALIGNED32"
  PROVE  GoodStep(in)
  <1> DEFINE out == aligner_out(in)
  <1>1. /\ out.update_state = TRUE /\ out.aligner_ready = TRUE
        /\ out.instr_valid = TRUE
        /\ out.instr = << 2 * word_pc, 2 * word_pc + 1 >>
        /\ 2 * word_pc \in long =>
             /\ out.next_state = "ALIGNED32"
             /\ out.pc_n = IF in.hwlp_jump THEN in.hwlp_target
                           ELSE IF hwlp_update_pc_q THEN hwlp_addr_q
                           ELSE Plus(pc_q, 2)
        /\ 2 * word_pc \notin long =>
             /\ out.next_state = "MISALIGNED32"
             /\ out.pc_n = Plus(pc_q, 1)
    <2> DEFINE al == AlignerInputs(in)
    <2>1. /\ out = aligner_i!Straight(al)
          /\ al.fetch_valid = TRUE /\ al.if_valid = TRUE
          /\ al.rdata = << 2 * word_pc, 2 * word_pc + 1 >>
          /\ al.hwlp_update_pc = in.hwlp_jump /\ al.hwlp_addr = in.hwlp_target
      BY AcceptedInputs
    <2> HIDE DEF al, out
    <2>2. out = aligner_i!Aligned32(al)
      BY <2>1, StraightCases
    <2>3. al.rdata[1] = 2 * word_pc
      BY <2>1
    <2> QED BY <2>1, <2>2, <2>3, Aligned32Outputs
  <1>2. /\ UNCHANGED << long, hwlp_addr_q >> /\ hwlp_update_pc_q' = FALSE
        /\ pc_q' = out.pc_n /\ state' = out.next_state
        /\ r_instr_h' = 2 * word_pc + 1
        /\ aligner_ready_q' = TRUE
        /\ fetched' = word_pc
        /\ word_pc' = IF in.hwlp_jump THEN in.hwlp_target \div 2 ELSE word_npc
        /\ word_npc' = Successor(word_pc')
        /\ redirect' = IF in.hwlp_jump
                         THEN << "hwlp_jump", in.hwlp_target \div 2 >> ELSE None
        /\ instr_valid_id_o' = TRUE /\ issued' = TRUE
        /\ pc_id_o' = pc_q
        /\ instr_rdata_id_o' = instr_decompressed(out.instr)
    <2>1. Advances(in)
      BY <1>1, AcceptingStep DEF Accepts
    <2> QED BY <1>1, <2>1 DEF Advances
  <1> HIDE DEF out
  <1>3. /\ word_pc \in 0 .. WORDS - 1 /\ word_npc \in 0 .. WORDS - 1
        /\ in.hwlp_target \in Half /\ in.hwlp_target \div 2 \in 0 .. WORDS - 1
        /\ hwlp_addr_q \in Half /\ pc_q \in Half /\ pc_q = 2 * word_pc
        /\ long \subseteq Half
    BY AcceptedInputs DEF Accepts, TypeOK, InStep
  <1>4. instr_rdata_id_o' = InstrStream!Instr(pc_q)
    BY <1>1, <1>2, <1>3, PlusOnWords, AfterIsPlus
    DEF instr_decompressed, InstrStream!Instr
  <1>41. /\ word_pc' \in 0 .. WORDS - 1 /\ word_npc' \in 0 .. WORDS - 1
         /\ \/ UNCHANGED << pc_id_o, instr_rdata_id_o >>
            \/ pc_id_o' = pc_q /\ instr_rdata_id_o' = InstrStream!Instr(pc_q)
    BY <1>2, <1>3, <1>4, SuccessorIs
  <1>5. CASE in.hwlp_jump
    <2>1. /\ pc_q' = in.hwlp_target /\ state' = "ALIGNED32"
          /\ in.hwlp_target = 2 * (in.hwlp_target \div 2)
      BY <1>1, <1>2, <1>3, <1>5, HalfOf DEF Accepts, GuardedJump
    <2>2. TypeOK'
      BY <1>2, <1>3, <1>41, <2>1, AcceptedTypes
    <2>3. InStep' /\ JumpWaitsForLong' /\ WordRefused'
      BY <1>2, <1>5, <2>1
      DEF InStep, JumpWaitsForLong, WordRefused, Successor
    <2>4. InstrStream!LoopJump(in.hwlp_target)
      BY <1>2, <1>4, <2>1 DEF InstrStream!LoopJump
    <2> QED BY <1>2, <1>5, <2>2, <2>3, <2>4 DEF GoodStep
  <1>6. CASE ~in.hwlp_jump /\ 2 * word_pc \in long
    <2>1. /\ pc_q' = IF hwlp_update_pc_q THEN hwlp_addr_q ELSE Plus(pc_q, 2)
          /\ state' = "ALIGNED32"
      BY <1>1, <1>2, <1>6
    <2>2. pc_q' = 2 * word_pc' /\ pc_q' \in Half
      BY <1>2, <1>3, <1>6, <2>1, PlusOnWords DEF Accepts, InStep, Successor
    <2>3. TypeOK'
      BY <1>2, <1>3, <1>41, <2>1, <2>2, AcceptedTypes
    <2>4. InStep' /\ JumpWaitsForLong' /\ WordRefused'
      BY <1>2, <2>1, <2>2
      DEF InStep, JumpWaitsForLong, WordRefused, Successor
    <2>5. InstrStream!Issue
      <3>1. InstrStream!Size(pc_q) = 2 /\ hwlp_addr_q # None
        BY <1>3, <1>6, NoneAssumption DEF InstrStream!Size, Half
      <3> QED BY <1>2, <1>3, <1>4, <2>1, <3>1, AfterIsPlus DEF InstrStream!Issue
    <2> QED BY <1>2, <1>6, <2>3, <2>4, <2>5 DEF GoodStep
  <1>7. CASE ~in.hwlp_jump /\ 2 * word_pc \notin long
    <2>1. /\ pc_q' = Plus(pc_q, 1) /\ state' = "MISALIGNED32"
          /\ ~hwlp_update_pc_q
      BY <1>1, <1>2, <1>3, <1>7 DEF Accepts, JumpWaitsForLong
    <2>2. /\ pc_q' = 2 * word_pc + 1 /\ pc_q' \in Half
          /\ Plus(pc_q', 1) = 2 * word_pc'
      BY <1>2, <1>3, <1>7, <2>1, PlusOnWords DEF Accepts, InStep, Successor
    <2>3. TypeOK'
      BY <1>2, <1>3, <1>41, <2>1, <2>2, AcceptedTypes
    <2>4. InStep' /\ JumpWaitsForLong' /\ WordRefused'
      BY <1>2, <2>1, <2>2
      DEF InStep, JumpWaitsForLong, WordRefused, Successor, Plus
    <2>5. InstrStream!Issue
      <3>1. InstrStream!Size(pc_q) = 1
        BY <1>3, <1>7 DEF InstrStream!Size
      <3> QED BY <1>2, <1>3, <1>4, <2>1, <3>1, AfterIsPlus DEF InstrStream!Issue
    <2> QED BY <1>2, <1>7, <2>3, <2>4, <2>5 DEF GoodStep
  <1> QED BY <1>5, <1>6, <1>7, AcceptedInputs

(* A loop jump comes, and waits, only where a word starts an instruction.  *)
LEMMA JumpsWhenAligned ==
  ASSUME TypeOK, InStep, WordRefused, booted, NEW in, GuardedJump(in),
         in.hwlp_jump \/ hwlp_update_pc_q
  PROVE  state = "ALIGNED32"
  <1>1. CASE hwlp_update_pc_q
    BY <1>1 DEF InStep
  <1>2. CASE in.hwlp_jump
    <2>1. pc_q % 2 = 0 /\ pc_id_o % 2 = 0
      BY <1>2 DEF GuardedJump
    <2>2. state # "MISALIGNED16"
      BY <2>1 DEF WordRefused
    <2>3. word_pc \in 0 .. WORDS - 1 /\ pc_q \in Half /\ word_pc \in Int
      BY DEF TypeOK
    <2>4. state # "BRANCH_MISALIGNED"
      BY <2>1, <2>3 DEF InStep
    <2>5. state # "MISALIGNED32"
      BY <2>1, <2>3, PlusFromHighHalf DEF InStep, Plus
    <2> QED BY <2>2, <2>4, <2>5 DEF TypeOK
  <1> QED BY <1>1, <1>2

LEMMA AcceptMisaligned16 ==
  ASSUME NEW in, Accepts(in), state = "MISALIGNED16"
  PROVE  GoodStep(in)
  <1> DEFINE out == aligner_out(in)
  <1>0. in.hwlp_jump = FALSE /\ ~hwlp_update_pc_q
    BY AcceptedInputs, JumpsWhenAligned DEF Accepts
  <1>1. /\ out.update_state = TRUE /\ out.aligner_ready = TRUE
        /\ out.instr_valid = TRUE
        /\ out.instr = << 2 * word_pc, 2 * word_pc + 1 >>
        /\ 2 * word_pc \in long =>
             /\ out.next_state = "ALIGNED32"
             /\ out.pc_n = Plus(pc_q, 2)
        /\ 2 * word_pc \notin long =>
             /\ out.next_state = "MISALIGNED32"
             /\ out.pc_n = Plus(pc_q, 1)
    <2> DEFINE al == AlignerInputs(in)
    <2>1. /\ out = aligner_i!Straight(al)
          /\ al.fetch_valid = TRUE /\ al.if_valid = TRUE
          /\ al.rdata = << 2 * word_pc, 2 * word_pc + 1 >>
      BY AcceptedInputs
    <2> HIDE DEF al, out
    <2>2. out = aligner_i!Misaligned16(al)
      BY <2>1, StraightCases
    <2>3. al.rdata[1] = 2 * word_pc /\ al.rdata[2] = 2 * word_pc + 1
      BY <2>1
    <2> QED BY <2>1, <2>2, <2>3, Misaligned16Outputs
  <1>2. /\ UNCHANGED << long, hwlp_addr_q >> /\ hwlp_update_pc_q' = FALSE
        /\ pc_q' = out.pc_n /\ state' = out.next_state
        /\ r_instr_h' = 2 * word_pc + 1
        /\ aligner_ready_q' = TRUE
        /\ fetched' = word_pc /\ word_pc' = word_npc
        /\ word_npc' = Successor(word_pc') /\ redirect' = None
        /\ instr_valid_id_o' = TRUE /\ issued' = TRUE
        /\ pc_id_o' = pc_q
        /\ instr_rdata_id_o' = instr_decompressed(out.instr)
    <2>1. Advances(in)
      BY <1>1, AcceptingStep DEF Accepts
    <2> QED BY <1>0, <1>1, <2>1 DEF Advances
  <1> HIDE DEF out
  <1>3. /\ word_pc \in 0 .. WORDS - 1 /\ word_npc = Successor(word_pc)
        /\ pc_q \in Half /\ pc_q = 2 * word_pc /\ long \subseteq Half
    BY <1>0 DEF Accepts, TypeOK, InStep, Successor
  <1>4. instr_rdata_id_o' = InstrStream!Instr(pc_q)
    BY <1>1, <1>2, <1>3, PlusOnWords, AfterIsPlus
    DEF instr_decompressed, InstrStream!Instr
  <1>5. word_pc' \in 0 .. WORDS - 1 /\ word_npc' \in 0 .. WORDS - 1
    BY <1>2, <1>3, SuccessorIs
  <1>6. CASE 2 * word_pc \in long
    <2>1. /\ pc_q' = Plus(pc_q, 2) /\ state' = "ALIGNED32"
          /\ pc_q' = 2 * word_pc' /\ pc_q' \in Half
      BY <1>1, <1>2, <1>3, <1>6, PlusOnWords, PlusIs
    <2>2. TypeOK'
      BY <1>0, <1>2, <1>4, <1>5, <2>1, AcceptedTypes
    <2>3. InStep' /\ JumpWaitsForLong' /\ WordRefused'
      BY <1>2, <2>1 DEF InStep, JumpWaitsForLong, WordRefused, Successor
    <2>4. InstrStream!Issue
      <3>1. InstrStream!Size(pc_q) = 2
        BY <1>3, <1>6 DEF InstrStream!Size
      <3> QED BY <1>0, <1>2, <1>3, <1>4, <2>1, <3>1, AfterIsPlus DEF InstrStream!Issue
    <2> QED BY <1>0, <1>2, <2>2, <2>3, <2>4 DEF GoodStep
  <1>7. CASE 2 * word_pc \notin long
    <2>1. /\ pc_q' = Plus(pc_q, 1) /\ state' = "MISALIGNED32"
          /\ pc_q' = 2 * word_pc + 1 /\ pc_q' \in Half
          /\ Plus(pc_q', 1) = 2 * word_pc'
      BY <1>1, <1>2, <1>3, <1>7, PlusOnWords, PlusIs
    <2>2. TypeOK'
      BY <1>0, <1>2, <1>4, <1>5, <2>1, AcceptedTypes
    <2>3. InStep' /\ JumpWaitsForLong' /\ WordRefused'
      BY <1>2, <2>1 DEF InStep, JumpWaitsForLong, WordRefused, Successor, Plus
    <2>4. InstrStream!Issue
      <3>1. InstrStream!Size(pc_q) = 1
        BY <1>3, <1>7 DEF InstrStream!Size
      <3> QED BY <1>0, <1>2, <1>3, <1>4, <2>1, <3>1, AfterIsPlus DEF InstrStream!Issue
    <2> QED BY <1>0, <1>2, <2>2, <2>3, <2>4 DEF GoodStep
  <1> QED BY <1>6, <1>7

LEMMA AcceptMisaligned32 ==
  ASSUME NEW in, Accepts(in), state = "MISALIGNED32"
  PROVE  GoodStep(in)
  <1> DEFINE out == aligner_out(in)
  <1>0. in.hwlp_jump = FALSE /\ ~hwlp_update_pc_q
    BY AcceptedInputs, JumpsWhenAligned DEF Accepts
  <1>1. /\ word_pc \in 0 .. WORDS - 1 /\ word_npc = Successor(word_pc)
        /\ pc_q \in Half /\ r_instr_h = pc_q /\ long \subseteq Half
        /\ Plus(pc_q, 1) = 2 * word_pc /\ Plus(pc_q, 2) = 2 * word_pc + 1
        /\ pc_q % 2 = 1 /\ 2 * word_pc + 1 \in Half /\ 2 * word_pc \in Half
        /\ Plus(2 * word_pc + 1, 1) = 2 * Successor(word_pc)
        /\ Successor(word_pc) \in 0 .. WORDS - 1
        /\ Successor(word_npc) \in 0 .. WORDS - 1
    <2>1. /\ word_pc \in 0 .. WORDS - 1 /\ word_npc = Successor(word_pc)
          /\ pc_q \in Half /\ r_instr_h = pc_q /\ long \subseteq Half
          /\ Plus(pc_q, 1) = 2 * word_pc
      BY <1>0 DEF Accepts, TypeOK, InStep, Successor, Plus
    <2> QED BY <2>1, PlusFromHighHalf, PlusOnWords, SuccessorIs
  <1>2. CASE r_instr_h \in long
    <2>1. /\ out.update_state = TRUE /\ out.aligner_ready = TRUE
          /\ out.instr_valid = TRUE
          /\ out.instr = << pc_q, 2 * word_pc >>
          /\ out.next_state = "MISALIGNED32" /\ out.pc_n = Plus(pc_q, 2)
      <3> DEFINE al == AlignerInputs(in)
      <3>1. /\ out = aligner_i!Straight(al)
            /\ al.fetch_valid = TRUE /\ al.if_valid = TRUE
            /\ al.rdata = << 2 * word_pc, 2 * word_pc + 1 >>
        BY AcceptedInputs
      <3> HIDE DEF al, out
      <3>2. out = aligner_i!Misaligned32(al)
        BY <3>1, StraightCases
      <3>3. al.rdata[1] = 2 * word_pc /\ al.rdata[2] = 2 * word_pc + 1
        BY <3>1
      <3> QED BY <1>1, <1>2, <3>1, <3>2, <3>3, Misaligned32Outputs
    <2>2. /\ UNCHANGED << long, hwlp_addr_q >> /\ hwlp_update_pc_q' = FALSE
          /\ pc_q' = 2 * word_pc + 1 /\ state' = "MISALIGNED32"
          /\ r_instr_h' = 2 * word_pc + 1
          /\ aligner_ready_q' = TRUE
          /\ fetched' = word_pc /\ word_pc' = word_npc
          /\ word_npc' = Successor(word_pc') /\ redirect' = None
          /\ instr_valid_id_o' = TRUE /\ issued' = TRUE
          /\ pc_id_o' = pc_q
          /\ instr_rdata_id_o' = instr_decompressed(out.instr)
      <3>1. Advances(in)
        BY <2>1, AcceptingStep DEF Accepts
      <3> QED BY <1>0, <1>1, <2>1, <3>1 DEF Advances
    <2> HIDE DEF out
    <2>3. instr_rdata_id_o' = InstrStream!Instr(pc_q)
      BY <1>1, <1>2, <2>1, <2>2, AfterIsPlus
      DEF instr_decompressed, InstrStream!Instr
    <2>4. TypeOK'
      <3>1. word_pc' \in 0 .. WORDS - 1 /\ word_npc' \in 0 .. WORDS - 1 /\ pc_q' \in Half
        BY <1>1, <2>2
      <3> QED BY <1>0, <2>2, <2>3, <3>1, AcceptedTypes
    <2>5. InStep' /\ JumpWaitsForLong' /\ WordRefused'
      BY <1>1, <2>2 DEF InStep, JumpWaitsForLong, WordRefused, Successor, Plus
    <2>6. InstrStream!Issue
      <3>1. InstrStream!Size(pc_q) = 2
        BY <1>1, <1>2 DEF InstrStream!Size
      <3> QED BY <1>0, <1>1, <2>2, <2>3, <3>1, AfterIsPlus DEF InstrStream!Issue
    <2> QED BY <1>0, <2>2, <2>4, <2>5, <2>6 DEF GoodStep
  <1>3. CASE r_instr_h \notin long
    <2>1. /\ out.update_state = TRUE /\ out.aligner_ready = FALSE
          /\ out.instr_valid = TRUE
          /\ out.instr = << pc_q, 2 * word_pc + 1 >>
          /\ out.next_state = "MISALIGNED16" /\ out.pc_n = Plus(pc_q, 1)
      <3> DEFINE al == AlignerInputs(in)
      <3>1. /\ out = aligner_i!Straight(al)
            /\ al.fetch_valid = TRUE /\ al.if_valid = TRUE
            /\ al.rdata = << 2 * word_pc, 2 * word_pc + 1 >>
        BY AcceptedInputs
      <3> HIDE DEF al, out
      <3>2. out = aligner_i!Misaligned32(al)
        BY <3>1, StraightCases
      <3>3. al.rdata[1] = 2 * word_pc /\ al.rdata[2] = 2 * word_pc + 1
        BY <3>1
      <3> QED BY <1>1, <1>3, <3>1, <3>2, <3>3, Misaligned32Outputs
    <2>2. /\ UNCHANGED << long, hwlp_addr_q, word_pc, word_npc >>
          /\ hwlp_update_pc_q' = FALSE
          /\ pc_q' = 2 * word_pc /\ state' = "MISALIGNED16"
          /\ r_instr_h' = 2 * word_pc + 1
          /\ aligner_ready_q' = FALSE
          /\ fetched' = None /\ redirect' = None
          /\ instr_valid_id_o' = TRUE /\ issued' = TRUE
          /\ pc_id_o' = pc_q
          /\ instr_rdata_id_o' = instr_decompressed(out.instr)
      <3>1. Advances(in)
        BY <2>1, AcceptingStep DEF Accepts
      <3> QED BY <1>0, <1>1, <2>1, <3>1 DEF Advances
    <2> HIDE DEF out
    <2>3. instr_rdata_id_o' = InstrStream!Instr(pc_q)
      BY <1>1, <1>3, <2>1, <2>2
      DEF instr_decompressed, InstrStream!Instr
    <2>4. TypeOK'
      <3>1. word_pc' \in 0 .. WORDS - 1 /\ word_npc' \in 0 .. WORDS - 1 /\ pc_q' \in Half
        BY <1>1, <2>2
      <3> QED BY <1>0, <2>2, <2>3, <3>1, AcceptedTypes
    <2>5. InStep' /\ JumpWaitsForLong' /\ WordRefused'
      BY <1>1, <2>2 DEF InStep, JumpWaitsForLong, WordRefused, Successor
    <2>6. InstrStream!Issue
      <3>1. InstrStream!Size(pc_q) = 1
        BY <1>1, <1>3 DEF InstrStream!Size
      <3> QED BY <1>0, <1>1, <2>2, <2>3, <3>1, AfterIsPlus DEF InstrStream!Issue
    <2> QED BY <1>0, <2>2, <2>4, <2>5, <2>6 DEF GoodStep
  <1> QED BY <1>2, <1>3

LEMMA AcceptBranchMisaligned ==
  ASSUME NEW in, Accepts(in), state = "BRANCH_MISALIGNED"
  PROVE  GoodStep(in)
  <1> DEFINE out == aligner_out(in)
  <1>0. in.hwlp_jump = FALSE /\ ~hwlp_update_pc_q
    BY AcceptedInputs, JumpsWhenAligned DEF Accepts
  <1>1. /\ word_pc \in 0 .. WORDS - 1 /\ word_npc = Successor(word_pc)
        /\ pc_q \in Half /\ long \subseteq Half
        /\ pc_q = 2 * word_pc + 1 /\ Plus(pc_q, 1) = 2 * Successor(word_pc)
        /\ Successor(word_pc) \in 0 .. WORDS - 1
        /\ Successor(word_npc) \in 0 .. WORDS - 1
        /\ 2 * Successor(word_pc) \in Half
    <2>1. /\ word_pc \in 0 .. WORDS - 1 /\ word_npc = Successor(word_pc)
          /\ pc_q \in Half /\ long \subseteq Half
          /\ pc_q = 2 * word_pc + 1
      BY <1>0 DEF Accepts, TypeOK, InStep, Successor
    <2> QED BY <2>1, PlusOnWords, SuccessorIs
  <1>2. CASE 2 * word_pc + 1 \in long
    <2>1. /\ out.update_state = TRUE /\ out.aligner_ready = TRUE
          /\ out.instr_valid = FALSE
          /\ out.next_state = "MISALIGNED32" /\ out.pc_n = pc_q
      <3> DEFINE al == AlignerInputs(in)
      <3>1. /\ out = aligner_i!Straight(al)
            /\ al.fetch_valid = TRUE /\ al.if_valid = TRUE
            /\ al.rdata = << 2 * word_pc, 2 * word_pc + 1 >>
        BY AcceptedInputs
      <3> HIDE DEF al, out
      <3>2. out = aligner_i!BranchMisaligned(al)
        BY <3>1, StraightCases
      <3>3. al.rdata[1] = 2 * word_pc /\ al.rdata[2] = 2 * word_pc + 1
        BY <3>1
      <3> QED BY <1>1, <1>2, <3>1, <3>2, <3>3, BranchMisalignedOutputs
    <2>2. /\ UNCHANGED << long, hwlp_addr_q, pc_q >> /\ hwlp_update_pc_q' = FALSE
          /\ state' = "MISALIGNED32"
          /\ r_instr_h' = 2 * word_pc + 1
          /\ aligner_ready_q' = TRUE
          /\ fetched' = word_pc /\ word_pc' = word_npc
          /\ word_npc' = Successor(word_pc') /\ redirect' = None
          /\ instr_valid_id_o' \in BOOLEAN /\ issued' = FALSE
          /\ UNCHANGED << pc_id_o, instr_rdata_id_o >>
      <3>1. Advances(in)
        BY <2>1, AcceptingStep DEF Accepts
      <3> QED BY <1>0, <1>1, <2>1, <3>1 DEF Advances
    <2> HIDE DEF out
    <2>4. TypeOK'
      <3>1. word_pc' \in 0 .. WORDS - 1 /\ word_npc' \in 0 .. WORDS - 1 /\ pc_q' \in Half
        BY <1>1, <2>2
      <3> QED BY <1>0, <2>2, <3>1, AcceptedTypes
    <2>5. InStep' /\ JumpWaitsForLong' /\ WordRefused'
      BY <1>1, <2>2 DEF InStep, JumpWaitsForLong, WordRefused, Successor, Plus
    <2>6. InstrStream!Wait
      BY <1>0, <2>2 DEF InstrStream!Wait
    <2> QED BY <1>0, <2>2, <2>4, <2>5, <2>6 DEF GoodStep
  <1>3. CASE 2 * word_pc + 1 \notin long
    <2>1. /\ out.update_state = TRUE /\ out.aligner_ready = TRUE
          /\ out.instr_valid = TRUE
          /\ out.instr = << pc_q, pc_q >>
          /\ out.next_state = "ALIGNED32" /\ out.pc_n = Plus(pc_q, 1)
      <3> DEFINE al == AlignerInputs(in)
      <3>1. /\ out = aligner_i!Straight(al)
            /\ al.fetch_valid = TRUE /\ al.if_valid = TRUE
            /\ al.rdata = << 2 * word_pc, 2 * word_pc + 1 >>
        BY AcceptedInputs
      <3> HIDE DEF al, out
      <3>2. out = aligner_i!BranchMisaligned(al)
        BY <3>1, StraightCases
      <3>3. al.rdata[1] = 2 * word_pc /\ al.rdata[2] = 2 * word_pc + 1
        BY <3>1
      <3> QED BY <1>1, <1>3, <3>1, <3>2, <3>3, BranchMisalignedOutputs
    <2>2. /\ UNCHANGED << long, hwlp_addr_q >> /\ hwlp_update_pc_q' = FALSE
          /\ pc_q' = 2 * Successor(word_pc) /\ state' = "ALIGNED32"
          /\ r_instr_h' = 2 * word_pc + 1
          /\ aligner_ready_q' = TRUE
          /\ fetched' = word_pc /\ word_pc' = word_npc
          /\ word_npc' = Successor(word_pc') /\ redirect' = None
          /\ instr_valid_id_o' = TRUE /\ issued' = TRUE
          /\ pc_id_o' = pc_q
          /\ instr_rdata_id_o' = instr_decompressed(out.instr)
      <3>1. Advances(in)
        BY <2>1, AcceptingStep DEF Accepts
      <3> QED BY <1>0, <1>1, <2>1, <3>1 DEF Advances
    <2> HIDE DEF out
    <2>3. instr_rdata_id_o' = InstrStream!Instr(pc_q)
      BY <1>1, <1>3, <2>1, <2>2
      DEF instr_decompressed, InstrStream!Instr
    <2>4. TypeOK'
      <3>1. word_pc' \in 0 .. WORDS - 1 /\ word_npc' \in 0 .. WORDS - 1 /\ pc_q' \in Half
        BY <1>1, <2>2
      <3> QED BY <1>0, <2>2, <2>3, <3>1, AcceptedTypes
    <2>5. InStep' /\ JumpWaitsForLong' /\ WordRefused'
      BY <1>1, <2>2 DEF InStep, JumpWaitsForLong, WordRefused, Successor
    <2>6. InstrStream!Issue
      <3>1. InstrStream!Size(pc_q) = 1
        BY <1>1, <1>3 DEF InstrStream!Size
      <3> QED BY <1>0, <1>1, <2>2, <2>3, <3>1, AfterIsPlus DEF InstrStream!Issue
    <2> QED BY <1>0, <2>2, <2>4, <2>5, <2>6 DEF GoodStep
  <1> QED BY <1>2, <1>3

LEMMA AcceptedStep ==
  ASSUME NEW in, Accepts(in)
  PROVE  GoodStep(in)
  BY AcceptAligned32, AcceptMisaligned32, AcceptMisaligned16, AcceptBranchMisaligned
  DEF Accepts, TypeOK
------------------------------------------------------------------------------
(* A cycle in which the decode stage takes nothing. *)
LEMMA RefusedStep ==
  ASSUME TypeOK, InStep, JumpWaitsForLong, WordRefused, UNCHANGED booted,
         NEW in \in StraightInputs, ~if_valid(in), Clock(in),
         GuardedJump(in), in.hwlp_jump => booted
  PROVE  GoodStep(in)
  <1>1. /\ UNCHANGED << long, state, r_instr_h, pc_q, aligner_ready_q, word_pc,
                        pc_id_o, instr_rdata_id_o >>
        /\ IF in.hwlp_jump
             THEN /\ hwlp_addr_q' = in.hwlp_target /\ hwlp_update_pc_q' = TRUE
                  /\ word_npc' = in.hwlp_target \div 2
                  /\ redirect' = << "hwlp_jump", in.hwlp_target \div 2 >>
             ELSE /\ UNCHANGED << hwlp_addr_q, hwlp_update_pc_q, word_npc >>
                  /\ redirect' = None
        /\ fetched' = None /\ issued' = FALSE
        /\ instr_valid_id_o' = (instr_valid_id_o /\ ~in.stage.clear_instr_valid)
    BY RefusingStep
  <1>2. /\ in.hwlp_jump \in BOOLEAN /\ in.hwlp_target \in Half
        /\ in.hwlp_target \div 2 \in 0 .. WORDS - 1
        /\ in.hwlp_target % 2 = 0 => in.hwlp_target = 2 * (in.hwlp_target \div 2)
    BY StraightInputTypes, HalfOf
  <1>3. in.hwlp_jump => state = "ALIGNED32"
    BY JumpsWhenAligned
  <1>4. TypeOK'
    <2>1. /\ word_npc' \in 0 .. WORDS - 1 /\ hwlp_addr_q' \in Half
          /\ hwlp_update_pc_q' \in BOOLEAN
          /\ redirect' \in {None} \cup ({"branch", "hwlp_jump"} \X (0 .. WORDS - 1))
      <3>1. CASE in.hwlp_jump
        BY <1>1, <1>2, <3>1 DEF TypeOK
      <3>2. CASE ~in.hwlp_jump
        BY <1>1, <3>2 DEF TypeOK
      <3> QED BY <3>1, <3>2
    <2> QED BY <1>1, <2>1 DEF TypeOK
  <1>5. InStep'
    <2>1. CASE in.hwlp_jump
      <3>1. /\ state' = "ALIGNED32" /\ hwlp_update_pc_q' = TRUE
            /\ hwlp_addr_q' = 2 * word_npc' /\ booted
        BY <1>1, <1>2, <1>3, <2>1 DEF GuardedJump
      <3>2. pc_q' = 2 * word_pc'
        BY <1>1, <1>3, <2>1, <3>1 DEF InStep
      <3> QED BY <3>1, <3>2 DEF InStep
    <2>2. CASE ~in.hwlp_jump
      BY <1>1, <2>2 DEF InStep, aligner_i!Plus
    <2> QED BY <2>1, <2>2
  <1>6. JumpWaitsForLong' /\ WordRefused'
    BY <1>1 DEF JumpWaitsForLong, WordRefused, GuardedJump
  <1>7. in.hwlp_jump => InstrStream!LoopJump(in.hwlp_target)
    BY <1>1 DEF InstrStream!LoopJump
  <1>8. ~in.hwlp_jump => InstrStream!Wait
    BY <1>1 DEF InstrStream!Wait
  <1> QED BY <1>1, <1>4, <1>5, <1>6, <1>7, <1>8 DEF GoodStep

LEMMA BranchInputTypes ==
  ASSUME NEW in \in BranchInputs
  PROVE  /\ in.pc_set = TRUE /\ in.target \in Half /\ in.hwlp_jump = FALSE
         /\ in.stage.fetch_valid = FALSE /\ in.stage.idle \in 0 .. WORDS - 1
         /\ in.stage.clear_instr_valid \in BOOLEAN
         /\ ~if_valid(in)
  BY DEF BranchInputs, Inputs, NotOffered, if_valid

LEMMA BranchOutputs ==
  ASSUME TypeOK, NEW al, al.branch = TRUE, al.fetch_valid = FALSE,
         NEW out, out = aligner_i!Outputs(al)
  PROVE  /\ out.update_state = TRUE
         /\ out.pc_n = al.branch_addr
         /\ out.next_state = IF al.branch_addr % 2 = 1 THEN "BRANCH_MISALIGNED"
                                                       ELSE "ALIGNED32"
         /\ out.aligner_ready = TRUE
  <1> DEFINE s == aligner_i!Straight(al)
  <1>1. /\ out.update_state = TRUE /\ out.pc_n = al.branch_addr
        /\ out.next_state = IF al.branch_addr % 2 = 1 THEN "BRANCH_MISALIGNED"
                                                      ELSE "ALIGNED32"
        /\ out.aligner_ready = s.aligner_ready
    <2>1. CASE state = "ALIGNED32"
      BY <2>1, StraightCases DEF aligner_i!Outputs, aligner_i!Aligned32, aligner_i!Default
    <2>2. CASE state = "MISALIGNED32"
      BY <2>2, StraightCases DEF aligner_i!Outputs, aligner_i!Misaligned32, aligner_i!Default
    <2>3. CASE state = "MISALIGNED16"
      BY <2>3, StraightCases DEF aligner_i!Outputs, aligner_i!Misaligned16, aligner_i!Default
    <2>4. CASE state = "BRANCH_MISALIGNED"
      BY <2>4, StraightCases DEF aligner_i!Outputs, aligner_i!BranchMisaligned, aligner_i!Default
    <2> QED BY <2>1, <2>2, <2>3, <2>4 DEF TypeOK
  <1>2. s.aligner_ready = TRUE
    <2> HIDE DEF s
    <2>1. CASE state = "ALIGNED32"
      BY <2>1, StraightCases, Aligned32Outputs DEF s
    <2>2. CASE state = "MISALIGNED32"
      BY <2>2, StraightCases, Misaligned32Outputs DEF s
    <2>3. CASE state = "MISALIGNED16"
      BY <2>3, StraightCases, Misaligned16Outputs DEF s
    <2>4. CASE state = "BRANCH_MISALIGNED"
      BY <2>4, StraightCases, BranchMisalignedOutputs DEF s
    <2> QED BY <2>1, <2>2, <2>3, <2>4 DEF TypeOK
  <1> QED BY <1>1, <1>2

(* A branch puts aligner and prefetch buffer in step wherever they are.    *)
LEMMA BranchStep ==
  ASSUME TypeOK, NEW in \in BranchInputs, BranchCycle(in)
  PROVE  /\ TypeOK' /\ InStep' /\ JumpWaitsForLong' /\ WordRefused'
         /\ booted' = TRUE /\ UNCHANGED long /\ fetched' = None
         /\ InstrStream!Branch(in.target) /\ in.target \in Half
  <1> DEFINE al == AlignerInputs(in)
             out == aligner_i!Outputs(al)
  <1>1. /\ in.pc_set = TRUE /\ in.target \in Half /\ in.hwlp_jump = FALSE
        /\ in.stage.fetch_valid = FALSE /\ in.stage.idle \in 0 .. WORDS - 1
        /\ in.stage.clear_instr_valid \in BOOLEAN /\ ~if_valid(in)
    BY BranchInputTypes
  <1>2. /\ al.branch = TRUE /\ al.fetch_valid = FALSE /\ al.branch_addr = in.target
        /\ al.rdata[2] = 2 * in.stage.idle + 1
    BY <1>1 DEF AlignerInputs, Word
  <1>3. Clock(in) /\ booted' = TRUE
    BY DEF BranchCycle
  <1>4. /\ out.update_state = TRUE /\ out.pc_n = in.target
        /\ out.next_state = IF in.target % 2 = 1 THEN "BRANCH_MISALIGNED"
                                                 ELSE "ALIGNED32"
        /\ out.aligner_ready = TRUE
    <2> HIDE DEF al
    <2> QED BY <1>2, BranchOutputs
  <1>5. /\ UNCHANGED << long, hwlp_addr_q >> /\ hwlp_update_pc_q' = FALSE
        /\ pc_q' = in.target /\ aligner_ready_q' = TRUE
        /\ state' = IF in.target % 2 = 1 THEN "BRANCH_MISALIGNED" ELSE "ALIGNED32"
        /\ r_instr_h' = 2 * in.stage.idle + 1
    <2> HIDE DEF al
    <2> QED BY <1>2, <1>3, <1>4
            DEF Clock, aligner_i!AlignerClock, aligner_i!Update, aligner_i!SaveLoopJump,
                aligner_i!Stall, al
  <1>6. /\ word_pc' = in.target \div 2 /\ word_npc' = Successor(word_pc')
        /\ fetched' = None /\ redirect' = << "branch", in.target \div 2 >>
    BY <1>1, <1>3 DEF Clock, Prefetch, prefetch_buffer_i!Branch, Successor,
                      prefetch_buffer_i!Successor
  <1>7. /\ issued' = FALSE /\ UNCHANGED << pc_id_o, instr_rdata_id_o >>
        /\ instr_valid_id_o' = (instr_valid_id_o /\ ~in.stage.clear_instr_valid)
    BY <1>1, <1>3 DEF Clock, HandOver, HoldId
  <1> HIDE DEF al, out
  <1>8. /\ word_pc' \in 0 .. WORDS - 1 /\ word_npc' \in 0 .. WORDS - 1
        /\ r_instr_h' \in Half
        /\ redirect' \in {None} \cup ({"branch", "hwlp_jump"} \X (0 .. WORDS - 1))
    BY <1>1, <1>5, <1>6, HalfOf, SuccessorIs, PlusOnWords
  <1>9. TypeOK'
    BY <1>1, <1>3, <1>5, <1>6, <1>7, <1>8 DEF TypeOK
  <1>10. InStep' /\ JumpWaitsForLong' /\ WordRefused'
    BY <1>1, <1>5, <1>6, HalfOf DEF InStep, JumpWaitsForLong, WordRefused, Successor
  <1>11. InstrStream!Branch(in.target)
    BY <1>5, <1>7 DEF InstrStream!Branch
  <1> QED BY <1>1, <1>3, <1>5, <1>6, <1>9, <1>10, <1>11
------------------------------------------------------------------------------
LEMMA InitIInv == Init => IInv /\ InstrStream!StreamInit
  <1> SUFFICES ASSUME Init PROVE IInv /\ InstrStream!StreamInit
    OBVIOUS
  <1>1. 0 \in Half /\ word_pc \in 0 .. WORDS - 1
    BY WordsAssumption
    DEF Init, Half, HALVES, prefetch_buffer_i!StreamInit, prefetch_buffer_i!Addr
  <1>2. word_npc = Successor(word_pc) /\ word_npc \in 0 .. WORDS - 1
    BY <1>1, SuccessorIs DEF Init, prefetch_buffer_i!StreamInit, Successor
  <1>3. TypeOK
    BY <1>1, <1>2
    DEF Init, TypeOK, prefetch_buffer_i!StreamInit, aligner_i!AlignerInit
  <1>4. InStep /\ BeforeBoot /\ JumpWaitsForLong /\ WordRefused
    BY <1>2 DEF Init, InStep, BeforeBoot, JumpWaitsForLong, WordRefused, Successor,
                prefetch_buffer_i!StreamInit, aligner_i!AlignerInit
  <1>5. InstrStream!StreamInit
    BY <1>1 DEF Init, aligner_i!AlignerInit, InstrStream!StreamInit, InstrStream!Half, Half
  <1> QED BY <1>3, <1>4, <1>5 DEF IInv

(* What a step keeps and does. *)
StepOK ==
  /\ IInv' /\ UNCHANGED long
  /\ \/ InstrStream!Issue
     \/ InstrStream!Wait
     \/ \E target \in Half : InstrStream!Branch(target) \/ InstrStream!LoopJump(target)
  /\ fetched' # None => issued' \/ state = "BRANCH_MISALIGNED"

LEMMA SequentialStep ==
  ASSUME IInv, NEW in \in SequentialInputs, SequentialCycle(in)
  PROVE  StepOK
  <1>1. in \in StraightInputs /\ in.hwlp_jump = FALSE
    BY DEF StraightInputs, SequentialInputs, Inputs
  <1>2. GuardedJump(in) /\ Clock(in) /\ UNCHANGED booted
    BY <1>1 DEF GuardedJump, SequentialCycle
  <1>3. TypeOK /\ InStep /\ JumpWaitsForLong /\ WordRefused /\ booted \in BOOLEAN
    BY DEF IInv, TypeOK
  <1>4. CASE if_valid(in)
    <2>1. booted /\ in.stage.req
      BY <1>4 DEF if_valid, SequentialCycle
    <2>2. GoodStep(in)
      BY <1>1, <1>2, <1>3, <1>4, <2>1, AcceptedStep DEF Accepts
    <2>3. BeforeBoot'
      BY <1>2, <2>1 DEF BeforeBoot
    <2> QED BY <1>1, <2>2, <2>3 DEF GoodStep, StepOK, IInv
  <1>5. CASE ~if_valid(in)
    <2>1. GoodStep(in)
      BY <1>1, <1>2, <1>3, <1>5, RefusedStep
    <2>2. BeforeBoot'
      BY <1>1, <1>2, <1>3, <1>5, RefusingStep DEF BeforeBoot, IInv, prefetch_buffer_i!Successor
    <2> QED BY <1>1, <2>1, <2>2 DEF GoodStep, StepOK, IInv
  <1> QED BY <1>4, <1>5

LEMMA HwlpJumpStep ==
  ASSUME IInv, NEW in \in HwlpJumpInputs, HwlpJumpCycle(in)
  PROVE  StepOK
  <1>1. in \in StraightInputs /\ in.hwlp_jump = TRUE /\ in.hwlp_target \in Half
    BY DEF StraightInputs, HwlpJumpInputs, Inputs
  <1>2. TypeOK /\ InStep /\ JumpWaitsForLong /\ WordRefused /\ booted \in BOOLEAN
    BY DEF IInv, TypeOK
  <1>3. Clock(in) /\ UNCHANGED booted /\ booted
    BY <1>2 DEF HwlpJumpCycle, IInv, BeforeBoot
  <1>4. GuardedJump(in)
    <2>1. /\ pc_id_o % 2 = 0 /\ pc_q = Plus(pc_id_o, 2) /\ pc_q \in long
          /\ ~hwlp_update_pc_q /\ in.hwlp_target % 2 = 0 /\ pc_id_o \in Half
      BY <1>2 DEF HwlpJumpCycle, Plus, TypeOK
    <2>2. pc_q % 2 = 0
      BY <2>1, WordsAssumption DEF Plus, aligner_i!Plus, Half, HALVES
    <2> QED BY <2>1, <2>2 DEF GuardedJump
  <1>5. GoodStep(in)
    <2>1. CASE if_valid(in)
      <3>1. in.stage.req
        BY <2>1 DEF HwlpJumpInputs, Inputs, Offered, NotOffered, if_valid
      <3> QED BY <1>1, <1>2, <1>3, <1>4, <2>1, <3>1, AcceptedStep DEF Accepts
    <2>2. CASE ~if_valid(in)
      BY <1>1, <1>2, <1>3, <1>4, <2>2, RefusedStep
    <2> QED BY <2>1, <2>2
  <1>6. BeforeBoot'
    BY <1>3 DEF BeforeBoot
  <1> QED BY <1>1, <1>5, <1>6 DEF GoodStep, StepOK, IInv

LEMMA NextStep == IInv /\ Next => StepOK
  <1>1. ASSUME IInv, NEW in \in BranchInputs, BranchCycle(in) PROVE StepOK
    <2>1. BeforeBoot'
      BY <1>1, BranchStep DEF IInv, BeforeBoot
    <2> QED BY <1>1, <2>1, BranchStep DEF IInv, StepOK
  <1> QED BY <1>1, SequentialStep, HwlpJumpStep DEF Next

LEMMA StutterStep == IInv /\ UNCHANGED vars => IInv' /\ UNCHANGED InstrStream!streamVars
  <1> SUFFICES ASSUME IInv, UNCHANGED vars
               PROVE  IInv' /\ UNCHANGED InstrStream!streamVars
    OBVIOUS
  <1> USE DEF vars, prefetchVars, alignerRegs, ifIdRegs
  <1>1. TypeOK'
    BY DEF IInv, TypeOK
  <1>2. InStep' /\ BeforeBoot' /\ JumpWaitsForLong' /\ WordRefused'
    BY DEF IInv, InStep, BeforeBoot, JumpWaitsForLong, WordRefused,
           prefetch_buffer_i!Successor, aligner_i!Plus
  <1>3. UNCHANGED InstrStream!streamVars
    BY DEF InstrStream!streamVars
  <1> QED BY <1>1, <1>2, <1>3 DEF IInv

LEMMA Inductive == Spec => []IInv
  <1>1. IInv /\ [Next]_vars => IInv'
    BY NextStep, StutterStep DEF StepOK
  <1> QED BY <1>1, InitIInv, PTL DEF Spec

(* The registers of the fetch stage keep their types.                      *)
THEOREM TypeCorrect == Spec => []TypeOK
  <1>1. IInv => TypeOK
    BY DEF IInv
  <1> QED BY <1>1, Inductive, PTL

(* Aligner and prefetch buffer are told of every jump separately and never *)
(* lose step (cv32e40p_aligner.sv:66-89, 219-224).                         *)
THEOREM NeverOutOfStep == Spec => []InStep
  <1>1. IInv => InStep
    BY DEF IInv
  <1> QED BY <1>1, Inductive, PTL

(* The fetch stage adds no bubble but the one after a jump to the high     *)
(* half of a word (instruction_fetch.rst:21).                              *)
THEOREM NoBubbles == Spec => WordBringsInstruction
  <1>1. IInv /\ [Next]_vars => [fetched' # None => issued' \/ state = "BRANCH_MISALIGNED"]_vars
    BY NextStep DEF StepOK
  <1> QED BY <1>1, Inductive, PTL DEF Spec, WordBringsInstruction

(* The decode stage gets the instructions of the program in program order, *)
(* each with its address and cut at the right halfwords, whatever stalls,  *)
(* branches and loop jumps come between: the fetch stage implements        *)
(* InstrStream.                                                            *)
THEOREM DeliversProgram == Spec => ImplementsInstrStream
  <1>1. IInv /\ [Next]_vars => [InstrStream!StreamNext]_(InstrStream!streamVars)
    <2>1. StepOK => InstrStream!StreamNext
      BY DEF StepOK, InstrStream!StreamNext, InstrStream!Half, Half
    <2> QED BY <2>1, NextStep, StutterStep
  <1> QED BY <1>1, Inductive, InitIInv, PTL DEF Spec, ImplementsInstrStream, InstrStream!StreamSpec
==============================================================================
