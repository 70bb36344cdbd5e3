------------------------------ MODULE LoadStore -------------------------------
(***************************************************************************)
(* Memory instructions in the execute and write-back stages: the           *)
(* load-store unit, the ID/EX registers it reads (cv32e40p_id_stage.sv),   *)
(* the EX/WB registers it feeds (cv32e40p_ex_stage.sv) and the data bus.   *)
(* One step is one rising clock edge.                                      *)
(*                                                                         *)
(* The decode stage offers any load or store, or none: whatever else it    *)
(* holds (an ALU instruction, a branch, nothing) looks the same from here. *)
(* The memory answers granted transactions in order, each at least one     *)
(* cycle after its grant; a lane that is not enabled reads as Junk.        *)
(* With an FPU, a result of several cycles (apu_lat 3) may come back on    *)
(* the register port of the ALU in any cycle (cv32e40p_ex_stage.sv:183).   *)
(***************************************************************************)
EXTENDS LoadStoreUnit, Sequences

CONSTANTS
  SIZE,          \* bytes of memory, a multiple of 4; addresses wrap around
  InitialMem,
  Reg,           \* destination registers of loads
  Insns,         \* instructions the decode stage may offer
  FPU,           \* a floating-point unit is attached
  FpuResults,    \* the values it may return, read as addresses
  MAX_INSNS,     \* bound: memory instructions issued
  None

Addr == 0 .. SIZE - 1
Junk == [l \in Lane |-> 170]

(* At least two words, so that 4 is an address. *)
ASSUME SizeAssumption == SIZE \in Nat /\ SIZE >= 8 /\ SIZE % 4 = 0
ASSUME InitialMemAssumption == InitialMem \in [Addr -> Byte]
ASSUME FlagsAssumption == PULP_OBI \in BOOLEAN /\ FPU \in BOOLEAN
ASSUME FpuResultsAssumption == FpuResults \subseteq Addr
ASSUME BoundAssumption == MAX_INSNS \in Nat
ASSUME InsnsAssumption ==
  Insns \subseteq
    [we : BOOLEAN, type : {"word", "half", "byte"}, sign_ext : 0 .. 2,
     load_event : BOOLEAN, wdata : Word, rd : Reg,
     base : Addr, offset : Addr, useincr : BOOLEAN]

(* Event loads do not increment their base (cv32e40p_decoder.sv:1601-1619). *)
ASSUME EventLoadsAssumption == \A i \in Insns : i.load_event => i.useincr

VARIABLES
  ex,              \* ID/EX registers of a memory instruction, or None
  regfile_we_lsu, regfile_waddr_lsu,   \* EX/WB registers
  regs, pointer,   \* registers written by loads, and by post-increments
  mem,             \* the memory behind the bus
  answers,         \* transactions granted and not yet answered
  phase,           \* what was on the bus in the last cycle
  parts,           \* bytes accessed so far for the instruction in ex
  left,            \* the instruction that left ex last, with its accesses
  event,           \* the event load finished and signalled in the last cycle
  promise,         \* registers as the issued instructions will leave them
  issued           \* number of memory instructions issued

pipeRegs == << ex, regfile_we_lsu, regfile_waddr_lsu, regs, pointer >>
envVars == << mem, answers, phase, parts, left, event, promise, issued >>
vars == << lsuRegs, pipeRegs, envVars >>

data_obi_i == INSTANCE ObiInterface
  WITH TRANS_STABLE <- TRUE, Payload <- {}, ResetPayload <- None,
       state_q <- "TRANSPARENT", obi_addr_q <- None

Items == INSTANCE MemoryItems

Init ==
  /\ LsuInit
  /\ ex = None
  /\ regfile_we_lsu = FALSE
  /\ regfile_waddr_lsu \in Reg   \* reset to 0; not read before it is written
  /\ regs = [r \in Reg |-> Zeros] /\ pointer = 0
  /\ mem = InitialMem
  /\ answers = << >>
  /\ phase = [offer |-> None, gnt |-> FALSE, rvalid |-> FALSE]
  /\ parts = << >> /\ left = None
  /\ event = [finished |-> FALSE, signalled |-> FALSE]
  /\ promise = [regs |-> regs, pointer |-> pointer]
  /\ issued = 0
------------------------------------------------------------------------------
(***************************************************************************)
(* One clock cycle.  in holds the grant and the answer of the bus, the     *)
(* next instruction of the decode stage and the result of the FPU.         *)
(***************************************************************************)
Inputs ==
  [gnt : BOOLEAN, rvalid : BOOLEAN, next : Insns \cup {None},
   apu : IF FPU THEN FpuResults \cup {None} ELSE {None}]

alu_result == (ex.a + ex.b) % SIZE

(* The register port of the ALU belongs to a returning FPU result.         *)
regfile_alu_wdata_fw(in) == IF in.apu # None THEN in.apu ELSE alu_result

wb_contention(in) == ex # None /\ ex.alu_we /\ in.apu # None

data_addr_int == IF ex.useincr THEN alu_result ELSE ex.a

(* What the load-store unit sees of a cycle. *)
Wired(in) ==
  [req |-> ex # None,
   we |-> ex # None /\ ex.insn.we,
   type |-> IF ex = None THEN "word" ELSE ex.insn.type,
   sign_ext |-> IF ex = None THEN 0 ELSE ex.insn.sign_ext,
   load_event |-> ex # None /\ ex.insn.load_event,
   wdata |-> IF ex = None THEN Zeros ELSE ex.insn.wdata,
   addr |-> IF ex = None THEN 0 ELSE data_addr_int,
   misaligned |-> ex # None /\ ex.misaligned,
   trans_ready |-> data_obi_i!trans_ready_o(in.gnt),
   resp_valid |-> in.rvalid,
   resp_rdata |-> IF in.rvalid THEN Head(answers).data ELSE Zeros]

misaligned(in) == data_misaligned_o(Wired(in))

ex_ready_o(in) ==
  lsu_ready_ex_o(Wired(in)) /\ lsu_ready_wb_o(Wired(in)) /\ ~wb_contention(in)

(* An instruction from the decode stage enters the execute stage. *)
Decoded(i) ==
  [insn |-> i, a |-> i.base, b |-> i.offset, useincr |-> i.useincr,
   alu_we |-> ~i.useincr, misaligned |-> FALSE]

(* Faulty variant of the second pass: its address is computed from the     *)
(* base alone.                                                             *)
SecondPassFromBase(in) ==
  [ex EXCEPT !.b = 4, !.useincr = TRUE, !.alu_we = FALSE, !.misaligned = TRUE]

(* The second pass of a misaligned access: address + 4, no increment.      *)
SecondPass(in) ==
  [ex EXCEPT !.a = IF ex.useincr THEN regfile_alu_wdata_fw(in) ELSE ex.a,
             !.b = 4, !.useincr = TRUE, !.alu_we = FALSE, !.misaligned = TRUE]

(* What is on the bus in this cycle, and the bytes it touches. *)
word_address(in) == trans_addr(Wired(in)) - Offset(trans_addr(Wired(in)))
Touched(in) == {word_address(in) + l : l \in data_be(Wired(in))}

Offer(in) ==
  IF trans_valid(Wired(in))
    THEN [addr |-> word_address(in), be |-> data_be(Wired(in)),
          wdata |-> data_wdata(Wired(in)), we |-> ex.insn.we]
    ELSE None

Accepted(in) == count_up(Wired(in))

(* The last transaction of the instruction in the execute stage. *)
LastPart(in) == ex # None /\ ~misaligned(in)
------------------------------------------------------------------------------
(* The clock edge of everything but the ID/EX registers.                   *)
RegisterWrites(in) ==
  /\ regs' = IF regfile_we_lsu
               THEN [regs EXCEPT ![regfile_waddr_lsu] = data_rdata_ex_o(Wired(in))]
               ELSE regs
  /\ pointer' = IF ex # None /\ ex.alu_we /\ in.apu = None
                  THEN regfile_alu_wdata_fw(in) ELSE pointer

(* ex_valid_o: a memory instruction moves on to the write-back stage. *)
WriteBackRegisters(in) ==
  IF ex # None /\ lsu_ready_ex_o(Wired(in)) /\ lsu_ready_wb_o(Wired(in))
    THEN /\ regfile_we_lsu' = ~ex.insn.we
         /\ regfile_waddr_lsu' = IF ex.insn.we THEN regfile_waddr_lsu ELSE ex.insn.rd
    ELSE /\ regfile_we_lsu' = (regfile_we_lsu /\ ~lsu_ready_wb_o(Wired(in)))
         /\ UNCHANGED regfile_waddr_lsu

Memory(in) ==
  /\ mem' = IF Accepted(in) /\ ex.insn.we
              THEN [a \in Addr |-> IF a \in Touched(in)
                                     THEN data_wdata(Wired(in))[a % 4] ELSE mem[a]]
              ELSE mem
  /\ answers' =
       (IF in.rvalid THEN Tail(answers) ELSE answers)
       \o (IF Accepted(in)
             THEN << [data |-> [l \in Lane |->
                                  IF ~ex.insn.we /\ l \in data_be(Wired(in))
                                    THEN mem[word_address(in) + l] ELSE Junk[l]],
                      event |-> ex.insn.load_event /\ LastPart(in)] >>
             ELSE << >>)

Observe(in) ==
  /\ phase' = [offer |-> Offer(in), gnt |-> in.gnt, rvalid |-> in.rvalid]
  /\ event' = [finished |-> in.rvalid /\ Head(answers).event,
               signalled |-> p_elw_finish_o(Wired(in))]

(* No item takes more than two accesses: a third is one too many, and no   *)
(* further one is recorded.                                                *)
MAX_PARTS == 3
AccessesNow(in) ==
  IF Accepted(in) /\ Len(parts) < MAX_PARTS THEN Append(parts, Touched(in)) ELSE parts

Clock(in) ==
  /\ LsuClock(Wired(in))
  /\ RegisterWrites(in) /\ WriteBackRegisters(in)
  /\ Memory(in)
  /\ Observe(in)

(* The instruction stays in the execute stage. *)
Stall(in) ==
  /\ ex # None /\ ~ex_ready_o(in) /\ in.next = None
  /\ Clock(in)
  /\ parts' = AccessesNow(in)
  /\ UNCHANGED << ex, left, promise, issued >>

(* It stays there for the second half of a misaligned access. *)
Continue(in) ==
  /\ ex # None /\ ex_ready_o(in) /\ misaligned(in) /\ in.next = None
  /\ Clock(in)
  /\ ex' = SecondPass(in)
  /\ parts' = AccessesNow(in)
  /\ UNCHANGED << left, promise, issued >>

(* It leaves, or there was none.  A branch lets the next instruction into  *)
(* the execute stage whether or not write-back is ready.                   *)
CanLeave(in) == ex # None => ex_ready_o(in) /\ ~misaligned(in)

Leave(in) ==
  /\ left' = IF ex = None THEN left ELSE [insn |-> ex.insn, parts |-> AccessesNow(in)]
  /\ parts' = << >>

Drain(in) ==
  /\ CanLeave(in) /\ in.next = None
  /\ Clock(in) /\ Leave(in)
  /\ ex' = None
  /\ UNCHANGED << promise, issued >>

(* The memory as the instruction in the execute stage will leave it. *)
Completed == IF ex = None THEN mem ELSE Items!MemoryAfter(mem, ex.insn)

Issue(in) ==
  /\ CanLeave(in) /\ in.next # None /\ issued < MAX_INSNS
  /\ Clock(in) /\ Leave(in)
  /\ ex' = Decoded(in.next)
  /\ promise' = [regs |-> Items!RegsAfter(Completed, promise.regs, in.next),
                 pointer |-> Items!PointerAfter(promise.pointer, in.next)]
  /\ issued' = issued + 1

(* The memory answers granted transactions only. *)
Cycle(in) ==
  /\ in.rvalid => answers # << >>
  /\ Stall(in) \/ Continue(in) \/ Drain(in) \/ Issue(in)

Next == \E in \in Inputs : Cycle(in)

Spec == Init /\ [][Next]_vars

(* The memory grants a request that stays, and answers what it granted.    *)
Grant == \E in \in Inputs : in.gnt /\ Cycle(in) /\ trans_valid(Wired(in))
Answer == \E in \in Inputs : in.rvalid /\ Cycle(in)

FairSpec == Spec /\ WF_vars(Grant) /\ WF_vars(Answer)
------------------------------------------------------------------------------
ExecuteRegisters ==
  [insn : Insns, a : Addr, b : Addr,
   useincr : BOOLEAN, alu_we : BOOLEAN, misaligned : BOOLEAN]

ASSUME NoneAssumption == None \notin ExecuteRegisters

TypeOK ==
  /\ LsuTypeOK
  /\ ex \in ExecuteRegisters \cup {None}
  /\ regfile_we_lsu \in BOOLEAN /\ regfile_waddr_lsu \in Reg
  /\ regs \in [Reg -> Word] /\ pointer \in Addr
  /\ mem \in [Addr -> Byte]
  /\ answers \in Seq([data : Word, event : BOOLEAN])
  /\ issued \in 0 .. MAX_INSNS

(* The counter is the number of transactions on the bus, never more than   *)
(* DEPTH, and two only while the second is still in the execute stage and  *)
(* the first fills write-back (load_store_unit.sv:349, 384-400, 501-520).  *)
CountsOutstanding ==
  /\ cnt_q = Len(answers)
  /\ cnt_q = DEPTH => ex # None
  /\ regfile_we_lsu => cnt_q > 0

(* Once no load to a register is in the execute or write-back stage, the   *)
(* register holds the item its last load read, although write-back wrote   *)
(* whatever rdata_q held in every cycle it waited for the answer, and the  *)
(* base register has been incremented exactly once.                        *)
Pending(r) ==
  \/ ex # None /\ ~ex.insn.we /\ ex.insn.rd = r
  \/ regfile_we_lsu /\ regfile_waddr_lsu = r

RegistersAgree ==
  /\ \A r \in Reg : Pending(r) \/ regs[r] = promise.regs[r]
  /\ ex = None \/ ex.misaligned => pointer = promise.pointer

(* Every instruction that has left made exactly the accesses of its item:  *)
(* one, or two with the lower address first; none is repeated while the    *)
(* instruction waits for write-back (docs/source/load_store_unit.rst:56-64). *)
AccessesExact == left # None => left.parts = Items!Accesses(left.insn)

(* An event load is signalled as finished with its last answer, once       *)
(* (load_store_unit.sv:202-204).                                           *)
EventFinishes == event.signalled = event.finished

(* An offered transaction does not change before it is granted: the bus    *)
(* adapter has no register here and relies on the stalled execute stage    *)
(* (TRANS_STABLE, obi_interface.sv:27-31).                                 *)
OfferHeld ==
  [][phase.offer # None /\ ~phase.gnt => phase'.offer = phase.offer]_vars

(* On the legacy bus no transaction starts while another is under way, but *)
(* in the cycle of its answer (load_store_unit.sv:374-379).                *)
OneTransaction == PULP_OBI => cnt_q <= 1

(* An instruction waits for the memory only: in a cycle in which the bus   *)
(* grants a request and answers the oldest transaction, if there is one,   *)
(* the instruction in the execute stage moves on, whatever happened        *)
(* before.  A memory that never waits thus makes a load or store take one  *)
(* cycle, a misaligned one two (docs/source/pipeline.rst:67-76).           *)
MovesOn ==
  ex' = None \/ issued' # issued \/ (~ex.misaligned /\ ex'.misaligned)
NoStall ==
  [][ex # None /\ phase'.gnt /\ (answers # << >> => phase'.rvalid) => MovesOn]_vars

(* Loads and stores are atomic and happen in program order.                *)
AtomicMemory == INSTANCE AtomicMemory
  WITH mem <- Completed, regs <- promise.regs, pointer <- promise.pointer
ImplementsAtomicMemory == AtomicMemory!MemorySpec

(* Every memory instruction that was issued is completed.                  *)
Completes == []<>(ex = None /\ cnt_q = 0)
==============================================================================
