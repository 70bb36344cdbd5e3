----------------------------- MODULE MCLoadStore ------------------------------
EXTENDS LoadStore

(* Every byte of memory and of the store data is different; both signs     *)
(* occur.                                                                  *)
Contents == [a \in Addr |-> (a * 53 + 100) % 256]
Data == [l \in Lane |-> 201 + l]

Instruction(we, type, sign_ext, base, useincr, rd) ==
  [we |-> we, type |-> type, sign_ext |-> sign_ext, load_event |-> FALSE,
   wdata |-> Data, rd |-> rd, base |-> base, offset |-> 3, useincr |-> useincr]

Stores(bases, modes) ==
  {Instruction(TRUE, t, 0, b, u, 1) :
     t \in {"word", "half", "byte"}, b \in bases, u \in modes}

Loads(bases, modes, signs, rds) ==
  {Instruction(FALSE, t, s, b, u, r) :
     t \in {"word", "half", "byte"}, s \in signs, b \in bases, u \in modes, r \in rds}

EventLoads(bases) ==
  {[Instruction(FALSE, "word", 0, b, TRUE, 1) EXCEPT !.load_event = TRUE] :
     b \in bases}

(* All types at all offsets, with and without post-increment. *)
AllInsns == Stores(0 .. 3, {TRUE}) \cup Stores({1}, {FALSE})
            \cup Loads(0 .. 3, {FALSE}, {1}, {1}) \cup Loads({0}, {TRUE}, {0, 2}, {2})
            \cup EventLoads({0})

(* Fewer kinds, for sequences of three: of each type one item that crosses *)
(* a word boundary, if it can, and one that does not, loads and stores.    *)
SomeInsns ==
  {Instruction(TRUE, "word", 0, 0, TRUE, 1), Instruction(TRUE, "byte", 0, 0, FALSE, 1),
   Instruction(TRUE, "half", 0, 2, TRUE, 1),
   Instruction(FALSE, "word", 0, 2, FALSE, 1), Instruction(FALSE, "word", 0, 1, TRUE, 2),
   Instruction(FALSE, "half", 1, 0, TRUE, 2), Instruction(FALSE, "byte", 0, 3, FALSE, 1)}
  \cup EventLoads({0})

PostIncrementLoads == Loads({0}, {FALSE}, {1}, {1})
MisalignedLoads == Loads({0, 2}, {TRUE}, {1}, {1})
==============================================================================
