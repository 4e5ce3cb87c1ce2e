------------------------------ MODULE Adler32 ------------------------------
(***************************************************************************)
(* vcdiff/src/target.rs, Adler32: the checksum of a window, updated with   *)
(* whatever slices the writer emits.  The sums grow over a chunk before    *)
(* they are reduced.                                                       *)
(***************************************************************************)
EXTENDS Integers, Sequences, SequencesExt

CONSTANTS MODULUS, REDUCTION_CHUNK

new == [s1 |-> 1, s2 |-> 0]

Absorb(sums, byte) == [s1 |-> sums.s1 + byte, s2 |-> sums.s2 + sums.s1 + byte]

Reduce(sums) == [s1 |-> sums.s1 % MODULUS, s2 |-> sums.s2 % MODULUS]

chunks_exact(bytes) ==  \* a fault: what does not fill a chunk is left out
  [k \in 1..(Len(bytes) \div REDUCTION_CHUNK) |->
     SubSeq(bytes, (k - 1) * REDUCTION_CHUNK + 1, k * REDUCTION_CHUNK)]
chunks(bytes) ==
  [k \in 1..((Len(bytes) + REDUCTION_CHUNK - 1) \div REDUCTION_CHUNK) |->
     SubSeq(bytes, (k - 1) * REDUCTION_CHUNK + 1,
            IF k * REDUCTION_CHUNK < Len(bytes) THEN k * REDUCTION_CHUNK
            ELSE Len(bytes))]

update(sums, bytes) ==
  FoldLeft(LAMBDA s, chunk : Reduce(FoldLeft(Absorb, s, chunk)), sums,
           chunks(bytes))

(* What RFC 1950 defines: one more than the sum of the bytes, and the sum  *)
(* of that over every prefix.                                              *)
Defined(bytes) ==
  LET n == Len(bytes)
      Sum(terms) == FoldLeft(LAMBDA x, y : x + y, 0, terms)
  IN [s1 |-> (1 + Sum(bytes)) % MODULUS,
      s2 |-> (n + Sum([i \in 1..n |-> (n - i + 1) * bytes[i]])) % MODULUS]

(* However the bytes are cut into two slices, the sums are those defined.  *)
SplitsAgree(bytes) ==
  \A i \in 0..Len(bytes) :
    update(update(new, SubSeq(bytes, 1, i)), SubSeq(bytes, i + 1, Len(bytes)))
      = Defined(bytes)
=============================================================================
