---------------------------- MODULE MCDeltaInput ----------------------------
(* Every delta of four bytes, each a binary digit that ends a number or    *)
(* lets it go on, measured at, before and behind its end.                  *)
EXTENDS DeltaInput

MCDeltas == [1..4 -> 0..3]
MCLengths == 3..5

(* A few of them for the run with fairness.                                *)
MCFewDeltas == {<<0, 1, 2, 3>>, <<3, 3, 3, 1>>, <<3, 0, 3, 2>>}
=============================================================================
