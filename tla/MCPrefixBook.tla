---------------------------- MODULE MCPrefixBook ----------------------------
(* Constants for TLC.                                                      *)
EXTENDS CanonicalCode

PowersOf2 == [w \in 0..WidthLimit |-> 2 ^ w]
=============================================================================
