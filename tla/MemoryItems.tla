----------------------------- MODULE MemoryItems ------------------------------
(***************************************************************************)
(* What one load or store does, by the instruction set: an item of one,    *)
(* two or four consecutive bytes at any address is read, extended to a     *)
(* word, or written (docs/source/load_store_unit.rst).  i is a record      *)
(*   we, type, sign_ext, load_event, wdata, rd, base, offset, useincr;     *)
(* without useincr the address is the base alone, and the base register is *)
(* incremented by the offset afterwards.                                   *)
(***************************************************************************)
EXTENDS Integers, Sequences

CONSTANT SIZE    \* bytes of memory; addresses wrap around

Lane == 0 .. 3
Bytes(type) == CASE type = "word" -> 4 [] type = "half" -> 2 [] type = "byte" -> 1

EffectiveAddress(i) ==
  (IF i.useincr THEN i.base + i.offset ELSE i.base) % SIZE

(* The address of byte n of the item. *)
ItemAddress(i, n) == (EffectiveAddress(i) + n) % SIZE

Load(m, i) ==
  LET top == m[ItemAddress(i, Bytes(i.type) - 1)]
      fill == IF i.sign_ext = 2 \/ (i.sign_ext = 1 /\ top >= 128) THEN 255 ELSE 0
  IN  [n \in Lane |-> IF n < Bytes(i.type) THEN m[ItemAddress(i, n)] ELSE fill]

Store(m, i) ==
  [a \in 0 .. SIZE - 1 |->
     LET n == (a - EffectiveAddress(i)) % SIZE IN
     IF n < Bytes(i.type) THEN i.wdata[n] ELSE m[a]]

MemoryAfter(m, i) == IF i.we THEN Store(m, i) ELSE m
RegsAfter(m, r, i) == IF i.we THEN r ELSE [r EXCEPT ![i.rd] = Load(m, i)]
PointerAfter(p, i) == IF i.useincr THEN p ELSE (i.base + i.offset) % SIZE

(* The bus accesses the item is made of: the bytes in its first word, then *)
(* those that cross into the next one (load_store_unit.rst:56-64).         *)
Accesses(i) ==
  LET ea == EffectiveAddress(i)
      fits == 4 - (ea % 4)
      low == {ItemAddress(i, n) : n \in {k \in Lane : k < Bytes(i.type) /\ k < fits}}
      high == {ItemAddress(i, n) : n \in {k \in Lane : k < Bytes(i.type) /\ k >= fits}}
  IN  IF high = {} THEN << low >> ELSE << low, high >>
==============================================================================
