----------------------------- MODULE ByteImage -----------------------------
(***************************************************************************)
(* A file that is written field by field and read back by offset.  A field *)
(* is kept whole, at the offset of its first byte: whoever reads from      *)
(* another offset, or another number of bytes, finds Noise.                *)
(***************************************************************************)
EXTENDS Integers, Sequences, SequencesExt

CONSTANT Noise

Field(size, is) == [size |-> size, is |-> is]

(* No bytes at all, as the contents of a file.                             *)
Nothing == [of |-> Noise, from |-> 0, size |-> 0]

NewImage == [len |-> 0, at |-> << >>]

(* How far the first i of these blocks reach, for every i.                 *)
Offsets(sizes) ==
  LET reach[i \in 0..Len(sizes)] ==
        IF i = 0 THEN 0 ELSE reach[i - 1] + sizes[i]
  IN reach

(* Every field behind those before it; one of no bytes leaves no trace.    *)
Image(fields) ==
  LET offsets == Offsets([i \in DOMAIN fields |-> fields[i].size])
      held == {i \in DOMAIN fields : fields[i].size > 0}
  IN [len |-> offsets[Len(fields)],
      at |-> [at \in {offsets[i - 1] : i \in held} |->
                fields[CHOOSE i \in held : offsets[i - 1] = at]]]

(* What is left of an image when only its first bytes were written.        *)
Cut(image, len) == [image EXCEPT !.len = len]

Get(image, offset, size) ==
  IF size = 0 THEN Nothing
  ELSE IF /\ offset \in DOMAIN image.at
          /\ image.at[offset].size = size
          /\ offset + size <= image.len
       THEN image.at[offset].is
       ELSE Noise

Total(numbers) == Offsets(numbers)[Len(numbers)]

(* Where the i-th of these blocks begins if the first one begins at start. *)
BlockStart(start, sizes, i) == start + Offsets(sizes)[i - 1]
=============================================================================
