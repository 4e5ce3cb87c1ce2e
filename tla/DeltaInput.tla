----------------------------- MODULE DeltaInput -----------------------------
(***************************************************************************)
(* vcdiff/src/input.rs, DeltaInput: the delta stream read through a buffer *)
(* of INPUT_BUFFER_SIZE bytes, with the absolute offset of the next byte   *)
(* kept beside it.  The stream may return fewer bytes than asked for,      *)
(* answer Interrupted, fail, or seek to a wrong offset; its length was     *)
(* measured once, before the first read, and may no longer be right.       *)
(***************************************************************************)
EXTENDS Integers, Sequences

CONSTANTS RADIX, MAX_DIGITS, MAX_NUMBER,
          INPUT_BUFFER_SIZE,
          Deltas,         \* the contents the delta stream may have
          Lengths,        \* the lengths it may have been measured at
          MaxInterrupts   \* how often it may answer Interrupted

ASSUME RadixAssumption == RADIX \in Nat \ {0}
ASSUME DigitsAssumption == MAX_DIGITS \in Nat \ {0}
ASSUME NumberAssumption == MAX_NUMBER \in Nat
ASSUME BufferAssumption == INPUT_BUFFER_SIZE \in Nat \ {0}
ASSUME DeltaAssumption == Deltas \subseteq Seq(0..(2 * RADIX - 1))
ASSUME LengthAssumption == Lengths \subseteq Nat
ASSUME InterruptAssumption == MaxInterrupts \in Nat

VARIABLES
  \* the delta stream
  delta, stream_pos,
  \* the fields of DeltaInput
  len, pos,
  buffered,  \* buffer[buffer_pos..buffer_len]
  \* the running call
  request,   \* its arguments
  start,     \* pos when it was made
  gathered,  \* bytes copied to its output
  value,     \* the number read so far
  answer,    \* what the last call returned
  pc,        \* "idle", "check", "read", "seek", or how the decode ended
  interrupts

stream == <<delta, stream_pos, len, interrupts>>
input == <<pos, buffered>>
call == <<request, start, gathered, value, answer, pc>>
vars == <<stream, input, call>>
-----------------------------------------------------------------------------
Minimum(a, b) == IF a <= b THEN a ELSE b

NoRequest == [kind |-> "none", size |-> 0]
Ends == {"truncated", "overflow", "broken"}

Digit(byte) == byte % RADIX
GoesOn(byte) == byte >= RADIX

Stop(reason) ==
  /\ pc' = reason
  /\ UNCHANGED <<request, start, gathered, value, answer>>

Return(result) ==
  /\ answer' = result
  /\ request' = NoRequest /\ gathered' = << >> /\ value' = 0
  /\ pc' = "idle"
  /\ UNCHANGED start

Init ==
  /\ delta \in Deltas /\ stream_pos = 0
  /\ len \in Lengths /\ pos = 0 /\ buffered = << >>
  /\ request = NoRequest /\ start = 0 /\ gathered = << >> /\ value = 0
  /\ answer = << >>
  /\ pc = "idle"
  /\ interrupts = 0
-----------------------------------------------------------------------------
(***************************************************************************)
(* The calls.  read_exact and skip compare with the measured length before *)
(* they touch the stream, read_u8 and read_varint only when they fill.     *)
(***************************************************************************)
Call(kind, size, first) ==
  /\ pc = "idle"
  /\ request' = [kind |-> kind, size |-> size]
  /\ start' = pos
  /\ pc' = first
  /\ UNCHANGED <<stream, input, gathered, value, answer>>

ReadU8 == Call("byte", 1, "read")
ReadVarint == Call("varint", 0, "read")
ReadExact == \E size \in 0..(len + 1) : Call("exact", size, "check")
Skip == \E size \in 0..(len + 1) : Call("skip", size, "check")

Check ==
  /\ pc = "check"
  /\ IF pos + request.size > len
     THEN Stop("truncated")
     ELSE /\ pc' = IF request.kind = "skip" THEN "seek" ELSE "read"
          /\ UNCHANGED <<request, start, gathered, value, answer>>
  /\ UNCHANGED <<stream, input>>

(* skip leaves the buffer behind, whether or not it reaches that far.      *)
KeptBuffer == buffered  \* a fault: skip leaves the buffer as it is
Kept == << >>

Seek ==
  /\ pc = "seek"
  /\ \/ /\ stream_pos' = pos + request.size
        /\ pos' = pos + request.size
        /\ buffered' = Kept
        /\ Return(<< >>)
     \/ /\ stream_pos' \in 0..len \ {pos + request.size}
        /\ Stop("broken")
        /\ UNCHANGED input
  /\ UNCHANGED <<delta, len, interrupts>>

Wanting == request.kind = "varint" \/ Len(gathered) < request.size

(* fill asks for no more than the measured rest.                           *)
Asked == Minimum(len - pos, INPUT_BUFFER_SIZE)

Fill ==
  /\ pc = "read" /\ Wanting /\ buffered = << >>
  /\ pos < len
  /\ \/ \E count \in 1..Asked :
          /\ stream_pos + count <= Len(delta)
          /\ buffered' = SubSeq(delta, stream_pos + 1, stream_pos + count)
          /\ stream_pos' = stream_pos + count
          /\ UNCHANGED call
     \/ /\ stream_pos >= Len(delta)
        /\ Stop("truncated")
        /\ UNCHANGED <<buffered, stream_pos>>
     \/ /\ Stop("broken")
        /\ UNCHANGED <<buffered, stream_pos>>
  /\ UNCHANGED <<delta, len, interrupts, pos>>

FillPastEnd ==
  /\ pc = "read" /\ Wanting /\ buffered = << >>
  /\ pos >= len
  /\ Stop("truncated")
  /\ UNCHANGED <<stream, input>>

Interrupted ==
  /\ pc = "read" /\ Wanting /\ buffered = << >> /\ pos < len
  /\ interrupts < MaxInterrupts
  /\ interrupts' = interrupts + 1
  /\ UNCHANGED <<delta, stream_pos, len, input, call>>

Done == Len(gathered)  \* a fault: what was copied for what is left to copy
Room == request.size - Len(gathered)

Take ==
  /\ pc = "read" /\ request.kind \in {"byte", "exact"}
  /\ Len(gathered) < request.size /\ buffered # << >>
  /\ LET count == Minimum(Len(buffered), Room)
     IN /\ gathered' = gathered \o SubSeq(buffered, 1, count)
        /\ buffered' = SubSeq(buffered, count + 1, Len(buffered))
        /\ pos' = pos + count
  /\ UNCHANGED <<stream, request, start, value, answer, pc>>

ReturnBytes ==
  /\ pc = "read" /\ request.kind \in {"byte", "exact"}
  /\ Len(gathered) = request.size
  /\ Return(gathered)
  /\ UNCHANGED <<stream, input>>

(* One turn of read_varint.  The number is checked before the byte's last  *)
(* bit is looked at, and ten bytes that all go on are one too many.        *)
ExhaustedLate == pos - start = MAX_DIGITS  \* a fault: one digit too many
Exhausted == pos + 1 - start = MAX_DIGITS

TakeDigit ==
  /\ pc = "read" /\ request.kind = "varint"
  /\ buffered # << >>
  /\ buffered' = Tail(buffered)
  /\ pos' = pos + 1
  /\ LET byte == Head(buffered)
         next == value * RADIX + Digit(byte)
     IN \/ /\ next > MAX_NUMBER
           /\ Stop("overflow")
        \/ /\ next <= MAX_NUMBER /\ ~GoesOn(byte)
           /\ Return(<<next>>)
        \/ /\ next <= MAX_NUMBER /\ GoesOn(byte)
           /\ IF Exhausted
              THEN Stop("overflow")
              ELSE /\ value' = next
                   /\ UNCHANGED <<request, start, gathered, answer, pc>>
  /\ UNCHANGED stream
-----------------------------------------------------------------------------
Decoder == ReadU8 \/ ReadVarint \/ ReadExact \/ Skip

Step == \/ Check \/ Seek \/ Fill \/ FillPastEnd \/ Take \/ ReturnBytes
        \/ TakeDigit

Next == Decoder \/ Step \/ Interrupted

Spec == Init /\ [][Next]_vars

FairSpec == Spec /\ WF_vars(Step)
-----------------------------------------------------------------------------
Byte == 0..(2 * RADIX - 1)
Request == [kind: {"none", "byte", "exact", "skip", "varint"}, size: Nat]

(* Types, and the bound on what is buffered.                               *)
TypeOK ==
  /\ delta \in Seq(Byte) /\ stream_pos \in Nat
  /\ len \in Nat /\ pos \in Nat
  /\ buffered \in Seq(Byte) /\ Len(buffered) <= INPUT_BUFFER_SIZE
  /\ request \in Request
  /\ start \in Nat
  /\ gathered \in Seq(Byte)
  /\ value \in 0..MAX_NUMBER
  /\ answer \in Seq(Nat)
  /\ pc \in {"idle", "check", "read", "seek"} \cup Ends
  /\ interrupts \in 0..MaxInterrupts

(* The buffer holds the bytes of the delta at pos, and the stream stands   *)
(* behind them: every byte is delivered once, a skip loses none of those   *)
(* that follow it, and offsets reported to the caller are absolute.        *)
BufferAtPosition ==
  pc \notin Ends =>
    /\ stream_pos = pos + Len(buffered)
    /\ stream_pos <= len
    /\ \A i \in 1..Len(buffered) : buffered[i] = delta[pos + i]

(* The bytes of a read_exact or read_u8 are those of the delta from the    *)
(* offset where it was called, however many fills they took.               *)
BytesExact ==
  [][ReturnBytes => /\ request.size = 0 \/ start + request.size <= Len(delta)
                    /\ answer' = SubSeq(delta, start + 1, start + request.size)
                    /\ pos' = start + request.size]_vars

(* Whatever the buffer and short reads do, each request is answered as an  *)
(* unbuffered reader at absolute offsets would answer it.                  *)
Exact == INSTANCE ExactInput WITH
           pos <- IF pc = "idle" THEN pos ELSE start,
           status <- IF pc \in Ends THEN pc ELSE "open"
ImplementsExactInput == Exact!Spec

(* Every request is answered or ends the decode, provided the stream stops *)
(* answering Interrupted.                                                  *)
RequestReturns == pc # "idle" ~> pc \in Ends \cup {"idle"}
=============================================================================
