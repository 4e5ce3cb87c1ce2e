----------------------------- MODULE CodeTable -----------------------------
(***************************************************************************)
(* vcdiff/src/code_table.rs: the 256 opcodes.  default_table computes the  *)
(* index of every entry; RFC 3284, 5.6 lists the entries one after another *)
(* and leaves the indices to be counted.                                   *)
(***************************************************************************)
EXTENDS Integers, Sequences

s_near == 4
s_same == 3

Instruction(kind, size, mode) == [kind |-> kind, size |-> size, mode |-> mode]
NoOp == Instruction("noop", 0, 0)
Run == Instruction("run", 0, 0)
Add(size) == Instruction("add", size, 0)
Copy(size, mode) == Instruction("copy", size, mode)

At(index, first, second) == [index |-> index, entry |-> <<first, second>>]
-----------------------------------------------------------------------------
(* The assignments of default_table, with the indices it computes.         *)
Adds ==
  {At(1, Add(0), NoOp)} \cup {At(1 + size, Add(size), NoOp) : size \in 1..17}

CopyBase(mode) == 19 + 16 * mode
Copies ==
  UNION {{At(CopyBase(mode), Copy(0, mode), NoOp)} \cup
         {At(CopyBase(mode) + k, Copy(k + 3, mode), NoOp) : k \in 1..15} :
         mode \in 0..8}

WidePairBaseWrong(mode) == 163 + 16 * mode  \* a fault: the stride of Copies
WidePairBase(mode) == 163 + 12 * mode
WidePairs ==
  {At(WidePairBase(mode) + 3 * (add - 1) + (copy - 4),
      Add(add), Copy(copy, mode)) : mode \in 0..5, add \in 1..4, copy \in 4..6}

NarrowPairs ==
  {At(235 + 4 * (mode - 6) + (add - 1), Add(add), Copy(4, mode)) :
   mode \in 6..8, add \in 1..4}

Tails == {At(247 + mode, Copy(4, mode), Add(1)) : mode \in 0..8}

default_table ==
  {At(0, Run, NoOp)} \cup Adds \cup Copies \cup WidePairs \cup NarrowPairs
  \cup Tails
-----------------------------------------------------------------------------
(* The rows of RFC 3284's table in the order it lists them, outermost loop *)
(* first: mode, then the size of the ADD, then that of the COPY.           *)
Modes == 2 + s_near + s_same

Rows ==
  <<<<Run, NoOp>>>>
  \o [i \in 1..18 |-> <<Add(i - 1), NoOp>>]
  \o [i \in 1..(16 * Modes) |->
        LET size == (i - 1) % 16
        IN <<Copy(IF size = 0 THEN 0 ELSE size + 3, (i - 1) \div 16), NoOp>>]
  \o [i \in 1..(12 * (2 + s_near)) |->
        <<Add((((i - 1) \div 3) % 4) + 1),
          Copy(((i - 1) % 3) + 4, (i - 1) \div 12)>>]
  \o [i \in 1..(4 * s_same) |->
        <<Add(((i - 1) % 4) + 1), Copy(4, 2 + s_near + ((i - 1) \div 4))>>]
  \o [i \in 1..Modes |-> <<Copy(4, i - 1), Add(1)>>]

(* Every opcode is assigned one entry, and it is the one counted there.    *)
MatchesRfc ==
  /\ Len(Rows) = 256
  /\ \A opcode \in 0..255 :
       {a.entry : a \in {b \in default_table : b.index = opcode}}
         = {Rows[opcode + 1]}
=============================================================================
