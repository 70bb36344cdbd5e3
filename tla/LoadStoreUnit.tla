---------------------------- MODULE LoadStoreUnit -----------------------------
(***************************************************************************)
(* rtl/cv32e40p_load_store_unit.sv: turns the memory instruction in the    *)
(* execute stage into one or two transactions on the data bus and gives    *)
(* the loaded item to the write-back stage.                                *)
(*                                                                         *)
(* A word is a function from byte lanes to bytes; lane 0 is the least      *)
(* significant byte.  Every operator that reads the inputs of the unit     *)
(* takes the record in of one clock cycle:                                 *)
(*   req, we, type, sign_ext, load_event, wdata, addr, misaligned          *)
(*                                        from the execute stage,          *)
(*   trans_ready, resp_valid, resp_rdata  from the bus.                    *)
(* data_reg_offset_ex_i is 0, its only value in cv32e40p_decoder.sv (259). *)
(***************************************************************************)
EXTENDS Integers

CONSTANT PULP_OBI   \* legacy bus: no request while an answer is awaited

VARIABLES
  cnt_q,            \* accepted transactions not yet answered
  data_type_q, rdata_offset_q, data_sign_ext_q, data_we_q, data_load_event_q,
                    \* the transaction in the write-back stage
  rdata_q           \* the answer of the first half of a misaligned load, or
                    \* the item loaded last

lsuRegs == << cnt_q, data_type_q, rdata_offset_q, data_sign_ext_q, data_we_q,
              data_load_event_q, rdata_q >>

DEPTH == 2
Lane == 0 .. 3
Byte == 0 .. 255
Word == [Lane -> Byte]
Zeros == [l \in Lane |-> 0]

Offset(addr) == addr % 4
Size(type) == CASE type = "word" -> 4 [] type = "half" -> 2 [] type = "byte" -> 1

LsuInit ==
  /\ cnt_q = 0
  /\ data_type_q = "word" /\ rdata_offset_q = 0 /\ data_sign_ext_q = 0
  /\ data_we_q = FALSE /\ data_load_event_q = FALSE
  /\ rdata_q = Zeros
------------------------------------------------------------------------------
(* Faulty variant: a halfword at an odd offset is thought to fit.          *)
MisalignedWordOnly(in) ==
  in.req /\ ~in.misaligned /\ in.type = "word" /\ Offset(in.addr) # 0

(* The item crosses a word boundary: this is the first of two transactions. *)
data_misaligned_o(in) ==
  /\ in.req /\ ~in.misaligned
  /\ \/ in.type = "word" /\ Offset(in.addr) # 0
     \/ in.type = "half" /\ Offset(in.addr) = 3

(* Faulty variant: the second half of a word enables one byte too many.    *)
EnableOneTooMany(in) ==
  LET first == Offset(in.addr)  last == first + Size(in.type) - 1 IN
  IF in.misaligned THEN 0 .. last - 3 ELSE Lane \cap (first .. last)

(* The lanes of the item that lie in this word.                            *)
data_be(in) ==
  LET first == Offset(in.addr)  last == first + Size(in.type) - 1 IN
  IF in.misaligned THEN 0 .. last - 4 ELSE Lane \cap (first .. last)

(* The store data, rotated to its lanes.                                   *)
data_wdata(in) == [l \in Lane |-> in.wdata[(l - Offset(in.addr)) % 4]]

trans_addr(in) == IF in.misaligned THEN in.addr - Offset(in.addr) ELSE in.addr

(* Faulty variants: the limit on outstanding transactions is forgotten; the *)
(* legacy bus is treated as the new one; only one transaction at a time.    *)
RequestUnlimited(in) == in.req /\ (PULP_OBI /\ cnt_q # 0 => in.resp_valid)
RequestOverlaps(in) == in.req /\ cnt_q < DEPTH
RequestAlone(in) == in.req /\ cnt_q = 0

trans_valid(in) ==
  /\ in.req /\ cnt_q < DEPTH
  /\ PULP_OBI /\ cnt_q # 0 => in.resp_valid

count_up(in) == trans_valid(in) /\ in.trans_ready

busy_o(in) == cnt_q # 0 \/ trans_valid(in)

(* The transaction in write-back is being answered, or there is none.      *)
lsu_ready_wb_o(in) == cnt_q = 0 \/ in.resp_valid

(* Faulty variants: an accepted request leaves the execute stage although  *)
(* the write-back stage is still taken; a request leaves before it is      *)
(* accepted; a request accepted earlier does not leave.                    *)
ReadyWhenAccepted(in) ==
  in.req => count_up(in) \/ (cnt_q = DEPTH /\ in.resp_valid)
ReadyWhenOffered(in) ==
  in.req =>
    \/ cnt_q = 0 /\ trans_valid(in)
    \/ cnt_q = 1 /\ in.resp_valid /\ count_up(in)
    \/ cnt_q > 1 /\ in.resp_valid
ReadyWithRequest(in) ==
  in.req => count_up(in) /\ (cnt_q # 0 => in.resp_valid)

(* The request is accepted and the write-back stage is free for it.        *)
lsu_ready_ex_o(in) ==
  in.req =>
    \/ cnt_q = 0 /\ count_up(in)
    \/ cnt_q = 1 /\ in.resp_valid /\ count_up(in)
    \/ cnt_q > 1 /\ in.resp_valid
------------------------------------------------------------------------------
(* Byte i of the item in write-back: of a misaligned item the low bytes    *)
(* came with the first answer.                                             *)
ItemByte(i, rdata) ==
  LET lane == rdata_offset_q + i IN
  IF rdata_offset_q + Size(data_type_q) > 4 /\ lane < 4
    THEN rdata_q[lane] ELSE rdata[lane % 4]

(* Extension with zeros (0), the sign (1) or ones (2).                     *)
ExtensionByte(rdata) ==
  CASE data_sign_ext_q = 0 -> 0
    [] data_sign_ext_q = 1 ->
         IF ItemByte(Size(data_type_q) - 1, rdata) >= 128 THEN 255 ELSE 0
    [] data_sign_ext_q = 2 -> 255

data_rdata_ext(rdata) ==
  [i \in Lane |-> IF i < Size(data_type_q) THEN ItemByte(i, rdata)
                                           ELSE ExtensionByte(rdata)]

data_rdata_ex_o(in) ==
  IF in.resp_valid THEN data_rdata_ext(in.resp_rdata) ELSE rdata_q

(* An event load starts with its request and finishes with its last answer. *)
p_elw_start_o(in) == in.load_event /\ trans_valid(in)

(* Faulty variant: the first half of a misaligned load finishes it.        *)
FinishAtFirstAnswer(in) == data_load_event_q /\ in.resp_valid

p_elw_finish_o(in) ==
  data_load_event_q /\ in.resp_valid /\ ~in.misaligned
------------------------------------------------------------------------------
(* Faulty variant: an answer in the cycle of an acceptance is not counted. *)
CountUpFirst(in) ==
  cnt_q' = CASE count_up(in) -> cnt_q + 1
             [] ~count_up(in) /\ in.resp_valid -> cnt_q - 1
             [] OTHER -> cnt_q

Count(in) ==
  cnt_q' = CASE count_up(in) /\ ~in.resp_valid -> cnt_q + 1
             [] ~count_up(in) /\ in.resp_valid -> cnt_q - 1
             [] OTHER -> cnt_q

(* The transaction moves from the execute to the write-back stage.         *)
ControlInfo(in) ==
  IF in.req /\ lsu_ready_ex_o(in)
    THEN /\ data_type_q' = in.type
         /\ rdata_offset_q' = Offset(in.addr)
         /\ data_sign_ext_q' = in.sign_ext
         /\ data_we_q' = in.we
         /\ data_load_event_q' = in.load_event
    ELSE UNCHANGED << data_type_q, rdata_offset_q, data_sign_ext_q, data_we_q,
                      data_load_event_q >>

(* Faulty variant: the second half is not yet in the execute stage when    *)
(* the answer of the first is looked at.                                   *)
KeepItem(in) ==
  rdata_q' = IF in.resp_valid /\ ~data_we_q
               THEN IF data_misaligned_o(in)
                      THEN in.resp_rdata ELSE data_rdata_ext(in.resp_rdata)
               ELSE rdata_q

KeepAnswer(in) ==
  rdata_q' = IF in.resp_valid /\ ~data_we_q
               THEN IF in.misaligned \/ data_misaligned_o(in)
                      THEN in.resp_rdata ELSE data_rdata_ext(in.resp_rdata)
               ELSE rdata_q

(* One clock edge. *)
LsuClock(in) == Count(in) /\ ControlInfo(in) /\ KeepAnswer(in)

LsuTypeOK ==
  /\ cnt_q \in 0 .. DEPTH
  /\ data_type_q \in {"word", "half", "byte"}
  /\ rdata_offset_q \in Lane
  /\ data_sign_ext_q \in 0 .. 2
  /\ data_we_q \in BOOLEAN /\ data_load_event_q \in BOOLEAN
  /\ rdata_q \in Word
==============================================================================
