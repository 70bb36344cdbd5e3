----------------------------- MODULE AtomicMemory -----------------------------
(***************************************************************************)
(* What the program sees of loads and stores: each is one atomic step on a *)
(* byte-addressed memory and the registers, wherever the item lies and     *)
(* however long the bus takes (docs/source/load_store_unit.rst).           *)
(***************************************************************************)
EXTENDS MemoryItems

CONSTANTS
  Reg,         \* destination registers of loads
  Insns        \* the load and store instructions

VARIABLES
  mem,         \* the bytes of the memory
  regs,        \* the destination registers
  pointer      \* the base register of the post-incrementing instructions

Execute(i) ==
  /\ mem' = MemoryAfter(mem, i)
  /\ regs' = RegsAfter(mem, regs, i)
  /\ pointer' = PointerAfter(pointer, i)

Next == \E i \in Insns : Execute(i)

MemorySpec == [][Next]_<< mem, regs, pointer >>
==============================================================================
