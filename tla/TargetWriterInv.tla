-------------------------- MODULE TargetWriterInv --------------------------
(***************************************************************************)
(* The inductive invariant of TargetWriter: what is true at each place of  *)
(* the code, from which TargetWriterProofs derives the properties.         *)
(***************************************************************************)
EXTENDS TargetWriter

(* drain_pending is a subroutine: what holds during a drain is what holds  *)
(* at the place it returns to.                                             *)
Stage == IF pc \in {"drain", "write"} THEN ret ELSE pc

Fetching == Stage \in {"flush", "locate", "read"}
Busy == Stage \in {"chunk", "sourceSeek", "sourceRead", "emit", "repeat",
                   "flush", "locate", "read"}

(* Between operations the locals are clear.                                *)
Quiet == Stage \in {"idle", "finalFlush", "finalSeek", "done", "rejected"} =>
           op = NoOp /\ copied = 0 /\ sent = 0

(* The arguments the running operation was called with stay validated, and *)
(* the output has grown by what it has emitted.                            *)
Arguments ==
  Busy => /\ in_window
          /\ op.kind # "none"
          /\ op.base + op.size <= MaxTarget
          /\ window_start <= op.base
          /\ op.kind = "add"     => op.size = Len(op.data)
          /\ op.kind = "run"     => Len(op.data) = 1
          /\ op.kind = "source"  => op.start + op.size <= Len(Source)
          /\ op.kind = "target"  => op.start + op.size <= window_start
          /\ op.kind = "current" => window_start <= op.start /\ op.start < op.base
          /\ logical_len = op.base + copied + sent
          /\ Stage # "emit" => sent = 0
          /\ (Repeats /\ Stage # "repeat") => copied = 0

(* Where each loop stands.                                                 *)
Loops ==
  /\ Stage = "chunk" => copied <= op.size
  /\ Stage = "sourceSeek" => op.kind = "source" /\ copied = 0
  /\ Stage = "sourceRead" => /\ op.kind = "source" /\ copied < op.size
                             /\ Len(scratch) <= ReadLen
                             /\ source_pos = ReadStart + Len(scratch)
  /\ Fetching => /\ op.kind \in {"target", "current"} /\ copied < op.size
                 /\ Len(scratch) <= ReadLen
  /\ Stage \in {"flush", "locate"} => scratch = << >>
  /\ Stage = "emit" => /\ ~Repeats
                       /\ sent <= Len(slice)
                       /\ op.kind = "add" => copied = 0
                       /\ op.kind # "add" => /\ copied < op.size
                                             /\ Len(scratch) = ReadLen
                       /\ op.kind = "source" =>
                            source_pos = ReadStart + Len(scratch)
  /\ Stage = "chunk" /\ op.kind = "source" => source_pos = ReadStart
  /\ Stage = "repeat" => /\ Repeats
                         /\ Len(scratch) = distance
                         /\ copied <= op.size

(* Where the streams stand.                                                *)
Positions ==
  /\ Len(pending) <= logical_len
  /\ window_start <= logical_len
  /\ pc # "failed" => physical_pos = file_pos /\ file_pos <= logical_len
  /\ pc = "write" => written <= Len(pending) /\ file_pos = drained + written
  /\ pc \notin {"write", "failed"} => written = 0
  /\ pc \in {"flush", "locate", "read", "finalFlush", "finalSeek", "done"} =>
       pending = << >>
  /\ pc \in {"locate", "read", "finalSeek", "done"} => synced = file
  /\ pc = "read" => file_pos = ReadStart + Len(scratch)
  /\ pc = "done" => file_pos = logical_len
  /\ (pc = "idle" /\ ~in_window) => pending = << >>
  /\ (pc \in {"drain", "write"} /\ ret \in {"idle", "finalFlush"}) => ~in_window
  /\ pc \in {"finalFlush", "finalSeek", "done"} => ~in_window

(* The target holds the bytes drained, those of the drain under way, and   *)
(* nothing else.                                                           *)
Contents ==
  /\ \A o \in Offset : file[o] # NoByte <=> o < drained + written
  /\ \A i \in 1..written : i <= Len(pending) => file[drained + i - 1] = pending[i]

(* Byte i of what the running RUN or COPY was asked to produce, as long as *)
(* its source does not run into its own output.                            *)
Wanted(i) == CASE op.kind = "run"    -> op.data[1]
               [] op.kind = "source" -> Source[op.start + i]
               [] OTHER              -> Output[op.start + i]

(* What scratch holds: the chunk the loop has reached, or the seed of a    *)
(* repeated COPY, with whose period everything from the seed on to the end *)
(* of the output repeats itself.                                           *)
Staged ==
  /\ Stage \in {"sourceRead", "read", "emit"} /\ op.kind # "add" =>
       \A i \in 1..Len(scratch) : scratch[i] = Wanted(copied + i)
  /\ Stage = "repeat" =>
       \A j \in 1..(copied + distance) :
         Output[op.start + j] = scratch[((j - 1) % distance) + 1]

IInv == TypeOK /\ Quiet /\ Arguments /\ Loops /\ Positions /\ Contents
             /\ NoSpuriousFailure
=============================================================================
