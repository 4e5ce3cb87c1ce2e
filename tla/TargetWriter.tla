---------------------------- MODULE TargetWriter ----------------------------
(***************************************************************************)
(* vcdiff/src/target.rs: the buffered writer through which the decoder     *)
(* emits bytes and reads back bytes it has already emitted.                *)
(*                                                                         *)
(* The writer owns two buffers of IO_BUFFER_SIZE bytes.  pending holds     *)
(* decoded bytes the target has not been given yet; scratch holds the      *)
(* bytes of a COPY or RUN on their way to pending.  The target and the     *)
(* source are streams the caller supplies: every call on them is one step, *)
(* and every outcome a Read, Write or Seek implementation may return is    *)
(* one disjunct of that step.  The target shows written bytes to a reader  *)
(* only once they were flushed, the least the README asks of it.           *)
(*                                                                         *)
(* The decoder calls one operation at a time.  pc is the place in the code *)
(* where the operation stands, and ret the place drain_pending returns to. *)
(***************************************************************************)
EXTENDS Integers, Sequences

CONSTANTS Byte,            \* the values a byte may have
          NoByte,          \* what an offset never written holds
          IO_BUFFER_SIZE,  \* the capacity of pending and of scratch
          MaxTarget,       \* options.max_target_size
          Source,          \* the contents of the source stream
          Literal,         \* the literal data ADD instructions carry
          MaxInterrupts,   \* how often the streams may answer Interrupted
          Value,           \* the number a byte is
          MODULUS,         \* of the sums of the checksum
          REDUCTION_CHUNK  \* the bytes they absorb before they are reduced

ASSUME ByteAssumption == NoByte \notin Byte
ASSUME BufferAssumption == IO_BUFFER_SIZE \in Nat \ {0}
ASSUME TargetAssumption == MaxTarget \in Nat
ASSUME SourceAssumption == Source \in Seq(Byte)
ASSUME LiteralAssumption == Literal \subseteq Seq(Byte)
ASSUME InterruptAssumption == MaxInterrupts \in Nat
ASSUME ValueAssumption == Value \in [Byte -> Nat]
ASSUME ModulusAssumption == MODULUS \in Nat \ {0, 1}
ASSUME ReductionAssumption == REDUCTION_CHUNK \in Nat \ {0}

VARIABLES
  \* the fields of TargetWriter
  pending,       \* decoded bytes not yet written
  scratch,       \* the part of scratch the running operation has filled
  logical_len,   \* the number of bytes decoded
  physical_pos,  \* where the writer believes the target stands
  adler,         \* the bytes the window's checksum has absorbed
  \* the decoder's window
  in_window,     \* whether a window is being decoded
  window_start,  \* logical_len when it began
  \* the locals of the running operation
  op,            \* its arguments
  copied,        \* bytes of it already emitted
  sent,          \* bytes of the slice given to emit already buffered
  written,       \* bytes of pending already written by drain_pending
  pc, ret,
  \* the target stream
  file,          \* what was written, by offset
  synced,        \* what a read sees
  file_pos,      \* where the stream stands
  \* the source stream
  source_pos,
  \* what the streams did
  fault,         \* some call answered with an error, zero or a wrong offset
  interrupts     \* how many calls answered Interrupted

writer == <<pending, scratch, logical_len, physical_pos, adler>>
window == <<in_window, window_start>>
locals == <<op, copied, sent, written, pc, ret>>
target == <<file, synced, file_pos>>
device == <<source_pos, fault, interrupts>>
vars == <<writer, window, locals, target, device>>
-----------------------------------------------------------------------------
Minimum(a, b) == IF a <= b THEN a ELSE b

Offset == 0..(MaxTarget - 1)
Position == 0..MaxTarget

Kind == {"none", "add", "run", "source", "target", "current"}
Operation == [kind: Kind, data: Seq(Byte), start: Nat, size: Nat, base: Nat]
NoOp == [kind |-> "none", data |-> << >>, start |-> 0, size |-> 0, base |-> 0]

(* Where pending belongs in the target.                                    *)
drained == logical_len - Len(pending)

(* A COPY from the current window whose source runs into its own output.   *)
(* Its distance fits in scratch, so the repeating part is read only once.  *)
distance == op.base - op.start
Repeats == /\ op.kind = "current"
           /\ op.size > distance
           /\ distance <= IO_BUFFER_SIZE

(* The bytes the operation wants in scratch next, and where they start.    *)
ReadLen == IF Repeats THEN distance
           ELSE Minimum(op.size - copied, IO_BUFFER_SIZE)
ReadStartWithoutOffset == op.start  \* a fault: every chunk reads the first one's bytes
ReadStart == op.start + copied

(* The slice emit was called with.                                         *)
slice == IF op.kind = "add" THEN op.data ELSE scratch

(* The byte of the target stream at offset p, or NoByte past its end.      *)
Visible(p) == IF p \in Offset THEN synced[p] ELSE NoByte

(* The contents of the target after bytes are written at its position.     *)
Stored(bytes) ==
  [o \in Offset |-> IF file_pos <= o /\ o < file_pos + Len(bytes)
                    THEN bytes[o - file_pos + 1] ELSE file[o]]
-----------------------------------------------------------------------------
(***************************************************************************)
(* Outcomes common to the calls on the streams.                            *)
(***************************************************************************)
Fail == /\ pc' = "failed"
        /\ fault' = TRUE
        /\ UNCHANGED <<op, copied, sent, written, ret>>

(* Interrupted is answered by calling again.                               *)
Interrupted == /\ pc \in {"write", "read", "sourceRead"}
               /\ interrupts < MaxInterrupts
               /\ interrupts' = interrupts + 1
               /\ UNCHANGED <<writer, window, locals, target, source_pos, fault>>

(* A fault: the position the stream reports is not looked at.              *)
SeekTargetUnchecked(position, next) ==
  /\ file_pos' \in Position
  /\ physical_pos' = position
  /\ pc' = next
  /\ UNCHANGED <<op, copied, sent, written, ret, fault>>

(* seek_target: the position the stream reports is compared with the one   *)
(* asked for, and physical_pos follows only when they agree.               *)
SeekTarget(position, next) ==
  \/ /\ file_pos' = position
     /\ physical_pos' = position
     /\ pc' = next
     /\ UNCHANGED <<op, copied, sent, written, ret, fault>>
  \/ /\ file_pos' \in Position \ {position}
     /\ Fail
     /\ UNCHANGED physical_pos

(* The seek is skipped when the writer believes the target is there.       *)
SeekUnlessAt(position, next) ==
  \/ /\ physical_pos = position
     /\ pc' = next
     /\ UNCHANGED <<physical_pos, file_pos, op, copied, sent, written, ret, fault>>
  \/ /\ physical_pos # position
     /\ SeekTarget(position, next)

FlushTarget(next) ==
  \/ /\ synced' = file
     /\ pc' = next
     /\ UNCHANGED <<op, copied, sent, written, ret, fault>>
  \/ /\ Fail
     /\ UNCHANGED synced
-----------------------------------------------------------------------------
Init ==
  /\ pending = << >> /\ scratch = << >>
  /\ logical_len = 0 /\ physical_pos = 0
  /\ adler = << >>
  /\ in_window = FALSE /\ window_start = 0
  /\ op = NoOp /\ copied = 0 /\ sent = 0 /\ written = 0
  /\ pc = "idle" /\ ret = "idle"
  /\ file = [o \in Offset |-> NoByte] /\ synced = file /\ file_pos = 0
  /\ source_pos = 0
  /\ fault = FALSE
  /\ interrupts = 0

(* A fault: the checksum goes on from the window before.                   *)
BeginWindowKeepingAdler ==
  /\ pc = "idle" /\ ~in_window
  /\ in_window' = TRUE
  /\ window_start' = logical_len
  /\ UNCHANGED <<writer, locals, target, device>>

(***************************************************************************)
(* The calls the decoder makes, with the arguments it has validated.       *)
(***************************************************************************)
BeginWindow ==
  /\ pc = "idle" /\ ~in_window
  /\ in_window' = TRUE
  /\ window_start' = logical_len
  /\ adler' = << >>
  /\ UNCHANGED <<pending, scratch, logical_len, physical_pos, locals, target, device>>

(* One ADD, RUN or COPY.  check_room bounds its size, decode_window and    *)
(* copy bound the range it reads.                                          *)
Call(o, first) ==
  /\ pc = "idle" /\ in_window
  /\ logical_len + o.size <= MaxTarget
  /\ op' = o
  /\ copied' = 0 /\ sent' = 0
  /\ pc' = first
  /\ scratch' = << >>
  /\ UNCHANGED <<pending, logical_len, physical_pos, adler, window, written,
                 ret, target, device>>

Args(kind, data, start, size) ==
  [kind |-> kind, data |-> data, start |-> start, size |-> size,
   base |-> logical_len]

Add == \E bytes \in Literal : Call(Args("add", bytes, 0, Len(bytes)), "emit")

Run == \E byte \in Byte, size \in Position :
         Call(Args("run", <<byte>>, 0, size), "chunk")

CopyFromSource ==
  \E start \in 0..Len(Source), size \in 0..Len(Source) :
    /\ start + size <= Len(Source)
    /\ Call(Args("source", << >>, start, size), "sourceSeek")

CopyFromTarget ==
  \E start \in Position, size \in Position :
    /\ start + size <= window_start
    /\ Call(Args("target", << >>, start, size), "chunk")

CopyFromCurrent ==
  \E start \in Position, size \in Position :
    /\ window_start <= start /\ start < logical_len
    /\ Call(Args("current", << >>, start, size), "chunk")

(* A fault: the window's last bytes stay in pending.                       *)
FinishWindowWithoutDrain ==
  /\ pc = "idle" /\ in_window
  /\ in_window' = FALSE
  /\ UNCHANGED <<writer, window_start, locals, target, device>>

FinishWindow ==
  /\ pc = "idle" /\ in_window
  /\ in_window' = FALSE
  /\ pc' = "drain" /\ ret' = "idle"
  /\ UNCHANGED <<writer, window_start, op, copied, sent, written, target, device>>

(* After the last window: drain, flush and move to the decoded length.     *)
Finish ==
  /\ pc = "idle" /\ ~in_window
  /\ pc' = "drain" /\ ret' = "finalFlush"
  /\ UNCHANGED <<writer, window, op, copied, sent, written, target, device>>

(* The decoder drops the writer when it finds the delta malformed, at any  *)
(* point between two operations: a checksum mismatch, a bad address.       *)
Reject ==
  /\ pc = "idle"
  /\ pc' = "rejected"
  /\ UNCHANGED <<writer, window, op, copied, sent, written, ret, target, device>>
-----------------------------------------------------------------------------
(***************************************************************************)
(* The copy loops: each turn obtains a chunk of at most IO_BUFFER_SIZE     *)
(* bytes in scratch and emits it.                                          *)
(***************************************************************************)
ChunkOf(kinds) == /\ pc = "chunk"
                  /\ copied < op.size
                  /\ op.kind \in kinds
                  /\ sent' = 0

RunChunk ==
  /\ ChunkOf({"run"})
  /\ scratch' = [i \in 1..ReadLen |-> op.data[1]]
  /\ pc' = "emit"
  /\ UNCHANGED <<pending, logical_len, physical_pos, adler, window, op, copied,
                 written, ret, target, device>>

SourceChunk ==
  /\ ChunkOf({"source"})
  /\ scratch' = << >>
  /\ pc' = "sourceRead"
  /\ UNCHANGED <<pending, logical_len, physical_pos, adler, window, op, copied,
                 written, ret, target, device>>

(* read_target first makes everything emitted so far visible to reads.     *)
TargetChunk ==
  /\ ChunkOf({"target", "current"})
  /\ scratch' = << >>
  /\ pc' = "drain" /\ ret' = "flush"
  /\ UNCHANGED <<pending, logical_len, physical_pos, adler, window, op, copied,
                 written, target, device>>

Return ==
  /\ pc \in {"chunk", "repeat"}
  /\ copied = op.size
  /\ op' = NoOp /\ copied' = 0 /\ sent' = 0 /\ scratch' = << >>
  /\ pc' = "idle"
  /\ UNCHANGED <<pending, logical_len, physical_pos, adler, window, written,
                 ret, target, device>>

(* copy_from_source seeks once, then reads its chunks in sequence.         *)
SourceSeek ==
  /\ pc = "sourceSeek"
  /\ \/ /\ source_pos' = op.start
        /\ pc' = "chunk"
        /\ UNCHANGED <<op, copied, sent, written, ret, fault>>
     \/ /\ source_pos' \in 0..Len(Source) \ {op.start}
        /\ Fail
  /\ UNCHANGED <<writer, window, target, interrupts>>

SourceRead ==
  /\ pc = "sourceRead"
  /\ Len(scratch) < ReadLen
  /\ \/ \E count \in 1..(ReadLen - Len(scratch)) :
          /\ source_pos + count <= Len(Source)
          /\ scratch' = scratch \o SubSeq(Source, source_pos + 1, source_pos + count)
          /\ source_pos' = source_pos + count
          /\ UNCHANGED <<locals, fault>>
     \/ /\ Fail
        /\ UNCHANGED <<scratch, source_pos>>
     \/ /\ source_pos = Len(Source)
        /\ pc' = "failed"
        /\ UNCHANGED <<op, copied, sent, written, ret, fault, scratch, source_pos>>
  /\ UNCHANGED <<pending, logical_len, physical_pos, adler, window, target, interrupts>>

SourceChunkRead ==
  /\ pc = "sourceRead"
  /\ Len(scratch) = ReadLen
  /\ pc' = "emit"
  /\ UNCHANGED <<writer, window, op, copied, sent, written, ret, target, device>>
-----------------------------------------------------------------------------
(***************************************************************************)
(* emit and emit_repeated_scratch: append to pending, absorb into the      *)
(* checksum, drain whenever pending is full.                               *)
(***************************************************************************)
Buffer(bytes) ==
  /\ pending' = pending \o bytes
  /\ adler' = adler \o bytes
  /\ logical_len' = logical_len + Len(bytes)

Room == IO_BUFFER_SIZE - Len(pending)

Emit ==
  /\ pc = "emit"
  /\ sent < Len(slice) /\ Room > 0
  /\ LET count == Minimum(Room, Len(slice) - sent)
     IN /\ Buffer(SubSeq(slice, sent + 1, sent + count))
        /\ sent' = sent + count
  /\ UNCHANGED <<scratch, physical_pos, window, op, copied, written, pc, ret,
                 target, device>>

Emitted ==
  /\ pc = "emit"
  /\ sent = Len(slice)
  /\ copied' = copied + Len(slice)
  /\ sent' = 0
  /\ pc' = "chunk"
  /\ UNCHANGED <<writer, window, op, written, ret, target, device>>

(* A fault: each turn starts again at the seed's first byte.               *)
EmitRepeatedFromStart ==
  /\ pc = "repeat"
  /\ copied < op.size /\ Room > 0
  /\ LET count == Minimum(Room, op.size - copied)
     IN /\ Buffer([i \in 1..count |-> scratch[((i - 1) % Len(scratch)) + 1]])
        /\ copied' = copied + count
  /\ UNCHANGED <<scratch, physical_pos, window, op, sent, written, pc, ret,
                 target, device>>

(* The seed in scratch is repeated from the phase the loop has reached.    *)
EmitRepeated ==
  /\ pc = "repeat"
  /\ copied < op.size /\ Room > 0
  /\ LET count == Minimum(Room, op.size - copied)
         phase == copied % Len(scratch)
     IN /\ Buffer([i \in 1..count |->
                     scratch[((phase + (i - 1)) % Len(scratch)) + 1]])
        /\ copied' = copied + count
  /\ UNCHANGED <<scratch, physical_pos, window, op, sent, written, pc, ret,
                 target, device>>

MakeRoom ==
  /\ \/ pc = "emit" /\ sent < Len(slice)
     \/ pc = "repeat" /\ copied < op.size
  /\ Room = 0
  /\ pc' = "drain" /\ ret' = pc
  /\ UNCHANGED <<writer, window, op, copied, sent, written, target, device>>
-----------------------------------------------------------------------------
(***************************************************************************)
(* drain_pending.                                                          *)
(***************************************************************************)
NothingToDrain ==
  /\ pc = "drain"
  /\ pending = << >>
  /\ pc' = ret
  /\ UNCHANGED <<writer, window, op, copied, sent, written, ret, target, device>>

StartDrain ==
  /\ pc = "drain"
  /\ pending # << >>
  /\ SeekUnlessAt(drained, "write")
  /\ UNCHANGED <<pending, scratch, logical_len, adler, window, file, synced,
                 source_pos, interrupts>>

Write ==
  /\ pc = "write"
  /\ written < Len(pending)
  /\ \/ \E count \in 1..(Len(pending) - written) :
          /\ file' = Stored(SubSeq(pending, written + 1, written + count))
          /\ file_pos' = file_pos + count
          /\ physical_pos' = physical_pos + count
          /\ written' = written + count
          /\ UNCHANGED <<op, copied, sent, pc, ret, fault>>
     \/ /\ Fail
        /\ UNCHANGED <<file, file_pos, physical_pos>>
  /\ UNCHANGED <<pending, scratch, logical_len, adler, window, synced,
                 source_pos, interrupts>>

(* A fault: what was written stays in pending.                             *)
DrainedKeepingPending ==
  /\ pc = "write"
  /\ written = Len(pending)
  /\ written' = 0
  /\ pc' = ret
  /\ UNCHANGED <<writer, window, op, copied, sent, ret, target, device>>

Drained ==
  /\ pc = "write"
  /\ written = Len(pending)
  /\ pending' = << >>
  /\ written' = 0
  /\ pc' = ret
  /\ UNCHANGED <<scratch, logical_len, physical_pos, adler, window, op, copied,
                 sent, ret, target, device>>
-----------------------------------------------------------------------------
(* A fault: what was just drained is read back without a flush.            *)
FlushSkipped ==
  /\ pc = "flush"
  /\ pc' = "locate"
  /\ UNCHANGED <<writer, window, op, copied, sent, written, ret, target, device>>

(***************************************************************************)
(* read_target, after its drain.                                           *)
(***************************************************************************)
Flush ==
  /\ pc = "flush"
  /\ FlushTarget("locate")
  /\ UNCHANGED <<writer, window, file, file_pos, source_pos, interrupts>>

ReadSeek ==
  /\ pc = "locate"
  /\ SeekUnlessAt(ReadStart, "read")
  /\ UNCHANGED <<pending, scratch, logical_len, adler, window, file, synced,
                 source_pos, interrupts>>

(* A fault: a read moves the target and not the remembered position.       *)
ReadWithoutTracking ==
  /\ pc = "read"
  /\ Len(scratch) < ReadLen
  /\ \E count \in 1..(ReadLen - Len(scratch)) :
       /\ \A i \in 0..(count - 1) : Visible(file_pos + i) # NoByte
       /\ scratch' = scratch \o [i \in 1..count |-> Visible(file_pos + i - 1)]
       /\ file_pos' = file_pos + count
  /\ UNCHANGED <<pending, logical_len, physical_pos, adler, window, locals, file,
                 synced, device>>

Read ==
  /\ pc = "read"
  /\ Len(scratch) < ReadLen
  /\ \/ \E count \in 1..(ReadLen - Len(scratch)) :
          /\ \A i \in 0..(count - 1) : Visible(file_pos + i) # NoByte
          /\ scratch' = scratch \o [i \in 1..count |-> Visible(file_pos + i - 1)]
          /\ file_pos' = file_pos + count
          /\ physical_pos' = physical_pos + count
          /\ UNCHANGED <<locals, fault>>
     \/ /\ Fail
        /\ UNCHANGED <<scratch, file_pos, physical_pos>>
     \/ /\ Visible(file_pos) = NoByte
        /\ pc' = "failed"
        /\ UNCHANGED <<op, copied, sent, written, ret, fault, scratch, file_pos,
                       physical_pos>>
  /\ UNCHANGED <<pending, logical_len, adler, window, file, synced, source_pos,
                 interrupts>>

(* The target goes back to the end of the output, ready to be written.     *)
AfterRead == IF Repeats THEN "repeat" ELSE "emit"

SeekBack ==
  /\ pc = "read"
  /\ Len(scratch) = ReadLen
  /\ SeekUnlessAt(logical_len, AfterRead)
  /\ UNCHANGED <<pending, scratch, logical_len, adler, window, file, synced,
                 source_pos, interrupts>>

(* A fault: the target is handed over with its last bytes unflushed.       *)
FinalFlushSkipped ==
  /\ pc = "finalFlush"
  /\ pc' = "finalSeek"
  /\ UNCHANGED <<writer, window, op, copied, sent, written, ret, target, device>>

FinalFlush ==
  /\ pc = "finalFlush"
  /\ FlushTarget("finalSeek")
  /\ UNCHANGED <<writer, window, file, file_pos, source_pos, interrupts>>

FinalSeek ==
  /\ pc = "finalSeek"
  /\ SeekTarget(logical_len, "done")
  /\ UNCHANGED <<pending, scratch, logical_len, adler, window, file, synced,
                 source_pos, interrupts>>
-----------------------------------------------------------------------------
Decoder == \/ BeginWindow \/ Add \/ Run \/ CopyFromSource \/ CopyFromTarget
           \/ CopyFromCurrent \/ FinishWindow \/ Finish \/ Reject

Step == \/ RunChunk \/ SourceChunk \/ TargetChunk \/ Return
        \/ SourceSeek \/ SourceRead \/ SourceChunkRead
        \/ Emit \/ Emitted \/ EmitRepeated \/ MakeRoom
        \/ NothingToDrain \/ StartDrain \/ Write \/ Drained
        \/ Flush \/ ReadSeek \/ Read \/ SeekBack
        \/ FinalFlush \/ FinalSeek

Next == Decoder \/ Step \/ Interrupted

Spec == Init /\ [][Next]_vars

(* The code runs on one thread and never waits: a started operation keeps  *)
(* taking steps.  A stream eventually answers something but Interrupted.   *)
FairSpec == Spec /\ WF_vars(Step)
-----------------------------------------------------------------------------
Byte0 == Byte \cup {NoByte}
Rest == {"idle", "done", "failed", "rejected"}
Place == Rest \cup {"chunk", "sourceSeek", "sourceRead", "emit", "repeat",
                    "drain", "write", "flush", "locate", "read", "finalFlush",
                    "finalSeek"}

(* Types, and the bound the module exists for: whatever an instruction     *)
(* asks for, neither buffer holds more than IO_BUFFER_SIZE bytes.          *)
TypeOK ==
  /\ pending \in Seq(Byte) /\ Len(pending) <= IO_BUFFER_SIZE
  /\ scratch \in Seq(Byte) /\ Len(scratch) <= IO_BUFFER_SIZE
  /\ logical_len \in Position /\ physical_pos \in Position
  /\ adler \in Seq(Byte)
  /\ in_window \in BOOLEAN /\ window_start \in Position
  /\ op \in Operation /\ op.size \in Position
  /\ copied \in Nat /\ sent \in Nat /\ written \in Nat
  /\ pc \in Place
  /\ ret \in {"idle", "flush", "emit", "repeat", "finalFlush"}
  /\ file \in [Offset -> Byte0] /\ synced \in [Offset -> Byte0]
  /\ file_pos \in Position
  /\ source_pos \in 0..Len(Source)
  /\ fault \in BOOLEAN
  /\ interrupts \in 0..MaxInterrupts

(* The decoded bytes, wherever they are: the first drained of them in the  *)
(* target, the others in pending.                                          *)
Output == [i \in 1..logical_len |->
             IF i <= drained THEN file[i - 1] ELSE pending[i - drained]]

(* What the caller of decode has been told so far.                         *)
Status == CASE pc = "done" -> "delivered"
            [] pc \in {"failed", "rejected"} -> "failed"
            [] OTHER -> "running"

(* The writer implements DecodedOutput: across drains, short writes, seeks *)
(* and read-backs, every instruction appends to the bytes of target and    *)
(* pending together exactly what RFC 3284 says, a COPY over its own output *)
(* included, and nothing decoded is ever changed or lost.                  *)
Promise == INSTANCE DecodedOutput WITH out <- Output, status <- Status
ImplementsDecodedOutput == Promise!Spec

(* finish, on success, leaves the target as the README says: it holds the  *)
(* decoded bytes and none beyond them, flushed, positioned at its end.     *)
DeliveredWhole ==
  pc = "done" => /\ pending = << >>
                 /\ \A o \in Offset : file[o] # NoByte <=> o < logical_len
                 /\ synced = file
                 /\ file_pos = logical_len

(* A decode fails only if a stream did: with streams that keep their       *)
(* contract, Interrupted and short transfers included, no read-back finds  *)
(* its bytes unwritten or not yet flushed and ends in UnexpectedEof.       *)
NoSpuriousFailure == pc = "failed" => fault

(* The position the writer remembers, which lets it skip seeks, is where   *)
(* the target really stands, for as long as the decode can go on.          *)
PositionKnown == pc # "failed" => physical_pos = file_pos

(* The checksum compared at the end of a window has absorbed every byte of *)
(* that window once, in order, and none of an earlier window.              *)
ChecksumCoversWindow ==
  in_window => adler = SubSeq(Output, window_start + 1, logical_len)

(* Whatever slices the writer's calls cut a window into, the sums carried  *)
(* from call to call and reduced chunk by chunk are the Adler-32 of the    *)
(* bytes the window has emitted so far (Adler32::update).                  *)
Checksum == INSTANCE Adler32
ChecksumIsAdler ==
  Checksum!SplitsAgree([i \in DOMAIN adler |-> Value[adler[i]]])

(* A window that passed its checks is in the target, its last bytes        *)
(* included, before the next one begins, and still is when that one fails  *)
(* or is rejected: finish_window leaves none of it to be lost with the     *)
(* writer.                                                                 *)
WindowsPersisted ==
  /\ (pc = "idle" /\ ~in_window) => pending = << >>
  /\ \A o \in Offset : o < window_start => file[o] # NoByte

(* A byte given to the target is never written again: seeks back to read   *)
(* a COPY's source never leave the target where the next drain would       *)
(* overwrite what it holds.                                                *)
WrittenOnce ==
  [][\A o \in Offset : file[o] # NoByte => file'[o] = file[o]]_file

(* Every operation returns or fails: no drain, read-back or repeated copy  *)
(* loops for ever, provided the streams stop answering Interrupted.        *)
OperationReturns == pc \notin Rest ~> pc \in Rest
=============================================================================
