--------------------------- MODULE DecodedOutput ---------------------------
(***************************************************************************)
(* What the target side of the vcdiff decoder promises, with the buffering *)
(* and the I/O taken away: a growing sequence of bytes, to which one       *)
(* instruction after another appends what RFC 3284 says it appends.  A     *)
(* COPY that overlaps the end of the output reads bytes it has itself      *)
(* produced, which is why Produced takes the sequence after the step.      *)
(* TargetWriter implements this specification.                             *)
(***************************************************************************)
EXTENDS Integers, Sequences

CONSTANTS Byte,         \* the values a byte may have
          Source,       \* the contents of the source stream, a sequence
          MaxTarget     \* the cumulative target length no window may pass

VARIABLES out,          \* the decoded bytes so far
          op,           \* the instruction being executed, or NoOp
          window_start, \* Len(out) when the current window began
          status        \* "running", "delivered" or "failed"

vars == <<out, op, window_start, status>>

Kind == {"none", "add", "run", "source", "target", "current"}

(* An instruction: its literal bytes, where it copies from, how many bytes *)
(* it produces, and the output length at which it starts.                  *)
Operation == [kind: Kind, data: Seq(Byte), start: Nat, size: Nat, base: Nat]

NoOp == [kind |-> "none", data |-> << >>, start |-> 0, size |-> 0, base |-> 0]

(* Byte i of the output (counted from 1) when o produces it.  Addresses    *)
(* are offsets, so the byte at address a has index a + 1.                  *)
Produced(o, i, whole) ==
  CASE o.kind = "add"    -> o.data[i - o.base]
    [] o.kind = "run"    -> o.data[1]
    [] o.kind = "source" -> Source[o.start + (i - o.base)]
    [] OTHER             -> whole[o.start + (i - o.base)]

(* What the decoder has validated about an instruction before it runs.     *)
Valid(o, len) ==
  /\ o.kind # "none"
  /\ o.base = len
  /\ len + o.size <= MaxTarget
  /\ o.kind = "add"     => o.size = Len(o.data)
  /\ o.kind = "run"     => Len(o.data) = 1
  /\ o.kind = "source"  => o.start + o.size <= Len(Source)
  /\ o.kind = "target"  => o.start + o.size <= window_start
  /\ o.kind = "current" => window_start <= o.start /\ o.start < len
-----------------------------------------------------------------------------
Init == /\ out = << >>
        /\ op = NoOp
        /\ window_start = 0
        /\ status = "running"

BeginWindow == /\ status = "running"
               /\ op = NoOp
               /\ window_start' = Len(out)
               /\ UNCHANGED <<out, op, status>>

Start(o) == /\ status = "running"
            /\ op = NoOp
            /\ Valid(o, Len(out))
            /\ op' = o
            /\ UNCHANGED <<out, window_start, status>>

(* Some more of the bytes the instruction owes, in order, and no others.   *)
Emit == /\ status = "running"
        /\ op # NoOp
        /\ Len(out') > Len(out)
        /\ Len(out') <= op.base + op.size
        /\ \A i \in 1..Len(out') :
             out'[i] = IF i <= Len(out) THEN out[i] ELSE Produced(op, i, out')
        /\ UNCHANGED <<op, window_start, status>>

Return == /\ status = "running"
          /\ op # NoOp
          /\ Len(out) = op.base + op.size
          /\ op' = NoOp
          /\ UNCHANGED <<out, window_start, status>>

Stop == /\ status = "running"
        /\ status' = "failed" \/ (op = NoOp /\ status' = "delivered")
        /\ UNCHANGED <<out, op, window_start>>

Next == BeginWindow \/ Start(op') \/ Emit \/ Return \/ Stop

Spec == Init /\ [][Next]_vars
=============================================================================
