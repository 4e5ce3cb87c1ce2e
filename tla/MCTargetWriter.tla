--------------------------- MODULE MCTargetWriter ---------------------------
(* A target of a few bytes and buffers of three: runs, literals and copies *)
(* that need several chunks, overlap themselves or fill pending half-way.  *)
EXTENDS TargetWriterInv

CONSTANTS a, b

MCByte == {a, b}
MCSource == <<a, b, b>>
MCLiteral == {<<a>>, <<b, a, b>>}

MCValue == [byte \in MCByte |-> IF byte = a THEN 4 ELSE 5]
=============================================================================
