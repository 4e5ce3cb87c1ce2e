-------------------------- MODULE MCVcdiffDecoder --------------------------
EXTENDS VcdiffDecoder

Half(kind, size, mode) == [kind |-> kind, size |-> size, mode |-> mode]
NoHalf == Half("noop", 0, 0)

(* Singles with the size in the stream and in the table, one pair, and     *)
(* every address mode: SELF, HERE, NEAR, SAME and one past the table.      *)
MCTable ==
  {<<Half("run", 0, 0), NoHalf>>, <<Half("add", 1, 0), NoHalf>>,
   <<Half("add", 1, 0), Half("copy", 2, 0)>>}
  \cup {<<Half("copy", 1, mode), NoHalf>> : mode \in 1..4}

(* For the run with fairness: an ADD that may be empty.                    *)
MCLiveTable ==
  {<<Half("add", 0, 0), NoHalf>>, <<Half("copy", 1, 1), Half("add", 1, 0)>>}
=============================================================================
