---------------------------- MODULE MCDjwTokens ----------------------------
(* Constants for TLC.                                                      *)
EXTENDS DjwTokenCode

List3 == <<0, 1, 2>>
PowersOf2 == [n \in 0..(OutputLen + 1) |-> 2 ^ n]
=============================================================================
