------------------------------ MODULE Utf8Text ------------------------------
(***************************************************************************)
(* String::from_utf8_lossy of Rust's standard library, through which       *)
(* btdx/src/read.rs takes every name it lists.  A text is a sequence of    *)
(* bytes.  No byte that continues a character begins one, so characters    *)
(* never overlap and what is one can be told from anywhere in the text.    *)
(***************************************************************************)
EXTENDS Integers, Sequences, SequencesExt

CONSTANTS Utf8,        \* the characters, each the bytes that encode it
          Replacement  \* the bytes of U+FFFD

ASSUME Utf8Assumption ==
  /\ Utf8 \subseteq Seq(STRING) \ {<< >>}
  /\ Replacement \in Utf8

InCharacter(text, i) ==
  \E first \in 1..i, last \in i..Len(text) : SubSeq(text, first, last) \in Utf8

IsUtf8(text) == \A i \in DOMAIN text : InCharacter(text, i)

(* The bytes from first to i begin a character that the text breaks off.   *)
BrokenOff(text, first, i) ==
  \E char \in Utf8 : IsStrictPrefix(SubSeq(text, first, i), char)

(* Bytes of a character stay; of the others, those that begin one together *)
(* are replaced together and any other byte by itself.                     *)
ShownAs(text, i) ==
  IF InCharacter(text, i) THEN <<text[i]>>
  ELSE IF \E first \in 1..(i - 1) : BrokenOff(text, first, i) THEN << >>
  ELSE Replacement

from_utf8_lossy(text) == FlattenSeq([i \in DOMAIN text |-> ShownAs(text, i)])
=============================================================================
