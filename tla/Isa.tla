-------------------------------- MODULE Isa ---------------------------------
(***************************************************************************)
(* Instructions as the control flow of the core sees them, the programs it *)
(* runs, and the control and status registers that direct it.  Data is     *)
(* left out: arithmetic is one kind of instruction, what takes several     *)
(* cycles another.  An address counts 32-bit instructions; as 32 bits do,  *)
(* addresses wrap around, at SPACE.                                        *)
(***************************************************************************)
EXTENDS Naturals, Sequences

CONSTANT None

SPACE == 240
Address == 0 .. SPACE - 1
Plus(a, n) == (a + n) % SPACE

Loops == {0, 1}

Plain(op) == [op |-> op]

Alu == Plain("alu")                    \* done in one cycle
Load == Plain("load")                  \* and what else takes its time
Ecall == Plain("ecall")
Ebreak == Plain("ebreak")
Mret == Plain("mret")
Dret == Plain("dret")
Wfi == Plain("wfi")
Fencei == Plain("fencei")
EnableIrqs == Plain("csrs mstatus.mie")
Skip == Plain("csrw mepc")             \* the instruction that trapped is done
MaskLine == Plain("csrc mie")
EnableLines(lines) == [op |-> "csrs mie", lines |-> lines]
Debugger == Plain("csrw dcsr")         \* the writes of a debugger
Jump(offset) == [op |-> "jump", offset |-> offset]
BranchOver(offset) == [op |-> "branch", offset |-> offset]

(* The hardware-loop instructions write some of the registers of loop k:   *)
(* start and end relative to their own address, and the count.             *)
LoopInsn(k, start, end, count) ==
  [op |-> "hwloop", k |-> k, start |-> start, end |-> end, count |-> count]
Setup(k, count, end) == LoopInsn(k, 1, end, count)
Starti(k, start) == LoopInsn(k, start, None, None)
Endi(k, end) == LoopInsn(k, None, end, None)
Count(k, count) == LoopInsn(k, None, None, count)

(* All instructions, with the given values of a count.                     *)
Instructions(counts) ==
  {Plain(op) : op \in
     {"alu", "load", "ecall", "ebreak", "mret", "dret", "wfi", "fencei",
      "csrs mstatus.mie", "csrw mepc", "csrc mie", "csrw dcsr"}}
  \cup [op : {"jump", "branch"}, offset : Nat]
  \cup [op : {"csrs mie"}, lines : SUBSET (0 .. 31)]
  \cup [op : {"hwloop"}, k : Loops, start : Nat \cup {None}, end : Nat \cup {None},
        count : counts \cup {None}]

Straight(n) == [i \in 1 .. n |-> Alu]

(* An access to mstatus, mepc, mtvec, mcause, or a debug register.         *)
csr_status(i) == i \in {EnableIrqs, Skip, Debugger}

Target(pc, i) == Plus(pc, i.offset)
------------------------------------------------------------------------------
(* The memory: the program at address 1, followed by a jump to itself, the *)
(* handlers of vectors.S, and the debug ROM.                               *)
Boot == 1
EXCEPTION == 201
IRQ == 211
DEBUG_ROM == 221
DEBUG_EXCEPTION == 231
Stop(code) == Len(code) + 1

sw_irq_handler == << Jump(1), Skip, Mret >>
verification_irq_handler == << Jump(1), Mret >>
debug_rom == << Debugger, Dret >>
debug_exception == << Ebreak >>

At(base, code, a) == code[1 + a - base]
Within(base, code, a) == a >= base /\ a < base + Len(code)

Code(program, a) ==
  CASE Within(Boot, program, a) -> At(Boot, program, a)
    [] Within(EXCEPTION, sw_irq_handler, a) -> At(EXCEPTION, sw_irq_handler, a)
    [] Within(IRQ, verification_irq_handler, a) ->
         At(IRQ, verification_irq_handler, a)
    [] Within(DEBUG_ROM, debug_rom, a) -> At(DEBUG_ROM, debug_rom, a)
    [] Within(DEBUG_EXCEPTION, debug_exception, a) ->
         At(DEBUG_EXCEPTION, debug_exception, a)
    [] OTHER -> Jump(0)

(* Where the bodies of the loops in a program end.                         *)
LoopEnds(program) ==
  {Plus(a, Code(program, a).end) :
     a \in {b \in Address : /\ Code(program, b).op = "hwloop"
                            /\ Code(program, b).end # None}}
------------------------------------------------------------------------------
(* mstatus.MIE and MPIE, mepc, the lines enabled in mie, the debug mode    *)
(* chosen in dcsr with the cause of the last entry, dpc and the address    *)
(* trigger.                                                                *)
DebugModes == {"none", "step", "ebreakm"}
Causes == {"none", "step", "trigger", "ebreak", "haltreq"}

Csrs ==
  [mie : BOOLEAN, mpie : BOOLEAN, mepc : Address, lines : SUBSET (0 .. 31),
   dcsr : DebugModes, cause : Causes, dpc : Address,
   trigger : Address \cup {None}]

CsrReset ==
  [mie |-> FALSE, mpie |-> FALSE, mepc |-> 0, lines |-> {},
   dcsr |-> "none", cause |-> "none", dpc |-> 0, trigger |-> None]

Trapped(csr, pc) ==
  [csr EXCEPT !.mepc = pc, !.mpie = csr.mie, !.mie = FALSE]

Restored(csr) == [csr EXCEPT !.mie = csr.mpie, !.mpie = TRUE]

Halted(csr, pc, cause) == [csr EXCEPT !.dpc = pc, !.cause = cause]

(* What a debugger writes: it chooses a mode and a trigger elsewhere than  *)
(* where it resumes, and resumes behind an ebreak that halted the core.    *)
Resumed(csr, mode, trigger) ==
  [csr EXCEPT !.dcsr = mode, !.trigger = trigger,
              !.dpc = IF csr.cause = "ebreak" THEN Plus(@, 1) ELSE @]

Resumptions(csr, modes, triggers) ==
  {c \in {Resumed(csr, mode, trigger) :
            mode \in modes, trigger \in triggers \cup {None}} :
     c.trigger # c.dpc}

(* The registers after the CSR instruction i, for each choice the debugger *)
(* has; none for another instruction.                                      *)
CsrWrites(csr, i, modes, triggers) ==
  CASE i = EnableIrqs -> {[csr EXCEPT !.mie = TRUE]}
    [] i = Skip -> {[csr EXCEPT !.mepc = Plus(@, 1)]}
    [] i = MaskLine -> {[csr EXCEPT !.lines = {}]}
    [] i.op = "csrs mie" -> {[csr EXCEPT !.lines = @ \cup i.lines]}
    [] i = Debugger -> Resumptions(csr, modes, triggers)
    [] OTHER -> {}
==============================================================================
