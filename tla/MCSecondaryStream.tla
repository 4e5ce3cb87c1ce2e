------------------------- MODULE MCSecondaryStream -------------------------
(* Constants for TLC.                                                      *)
EXTENDS SecondaryStream

Kinds2 == <<"data", "addresses">>
Chunk(head, body, out, kind_) ==
  [head |-> head, body |-> body, out |-> out, kind |-> kind_]
Chunks2 == {Chunk(1, 1, 1, "sound"), Chunk(2, 1, 2, "sound"),
            Chunk(1, 0, 0, "end"), Chunk(1, 1, 1, "broken")}
=============================================================================
