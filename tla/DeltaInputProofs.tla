-------------------------- MODULE DeltaInputProofs --------------------------
(***************************************************************************)
(* The buffered reader delivers the delta's own bytes: for every radix,    *)
(* buffer size, delta and measured length.                                 *)
(***************************************************************************)
EXTENDS DeltaInput, DataLemmas, SequenceTheorems, TLAPS

(* What each place of the code may rely on.                                *)
Places ==
  /\ pc = "idle" => request = NoRequest /\ gathered = << >> /\ value = 0
  /\ pc = "check" => request.kind \in {"exact", "skip"}
  /\ pc = "seek" => request.kind = "skip" /\ pos + request.size <= len
  /\ pc = "read" => request.kind \in {"byte", "exact", "varint"}
  /\ pc \in {"check", "seek"} => pos = start /\ gathered = << >>

(* The bytes at hand are bytes the delta has.                              *)
WithinDelta ==
  pc \notin Ends /\ buffered # << >> => stream_pos <= Len(delta)

(* What was gathered are the delta's bytes from where the call began.      *)
Gathered ==
  pc = "read" /\ request.kind \in {"byte", "exact"} =>
    /\ Len(gathered) <= request.size
    /\ pos = start + Len(gathered)
    /\ gathered # << >> => pos <= Len(delta)
    /\ \A i \in 1..Len(gathered) : gathered[i] = delta[start + i]

IInv == TypeOK /\ BufferAtPosition /\ Places /\ WithinDelta /\ Gathered

(* A number being read is what the bytes since the call write so far, and  *)
(* they all say that it goes on.                                           *)
Counted ==
  pc = "read" /\ request.kind = "varint" =>
    /\ start <= pos /\ pos - start < MAX_DIGITS
    /\ start < pos => pos <= Len(delta)
    /\ Exact!Open(start, pos - start)
    /\ value = Exact!Number(Exact!Rest(start), pos - start)

USE RadixAssumption, DigitsAssumption, NumberAssumption, BufferAssumption,
    DeltaAssumption, LengthAssumption, InterruptAssumption
-----------------------------------------------------------------------------
LEMMA InitInv == Init => IInv
  <1> SUFFICES ASSUME Init PROVE IInv
    OBVIOUS
  <1>1. delta \in Seq(Byte) /\ len \in Nat
    BY DEF Init, Byte
  <1> QED
    BY <1>1 DEF Init, IInv, TypeOK, BufferAtPosition, Places, WithinDelta,
                Gathered, NoRequest, Request, Ends

(* The decoder's four calls change nothing but the request.                *)
LEMMA DecoderKeepsInv == IInv /\ Decoder => IInv'
  <1> SUFFICES ASSUME IInv, Decoder PROVE IInv'
    OBVIOUS
  <1>1. PICK kind \in {"byte", "exact", "skip", "varint"}, size \in Nat,
             first \in {"check", "read"} :
          /\ Call(kind, size, first)
          /\ first = "check" => kind \in {"exact", "skip"}
          /\ first = "read" => kind \in {"byte", "varint"}
    <2>1. len + 1 \in Nat
      BY DEF IInv, TypeOK
    <2> QED
      BY <2>1 DEF Decoder, ReadU8, ReadVarint, ReadExact, Skip
  <1> USE <1>1 DEF IInv, Call, stream, input
  <1>2. TypeOK'
    BY DEF TypeOK, Request
  <1>3. BufferAtPosition' /\ WithinDelta'
    BY DEF BufferAtPosition, WithinDelta, Ends
  <1>4. Places'
    BY DEF Places
  <1>5. Gathered'
    BY DEF Gathered, Places, TypeOK
  <1> QED
    BY <1>2, <1>3, <1>4, <1>5

LEMMA CheckKeepsInv == IInv /\ Check => IInv'
  <1> SUFFICES ASSUME IInv, Check PROVE IInv'
    OBVIOUS
  <1> USE DEF IInv, Check, Stop, stream, input
  <1>1. TypeOK'
    BY DEF TypeOK, Ends
  <1>2. BufferAtPosition' /\ WithinDelta'
    BY DEF BufferAtPosition, WithinDelta, Ends
  <1>3. Places'
    BY DEF Places, TypeOK, Request
  <1>4. Gathered'
    BY DEF Gathered, Places, TypeOK, Request
  <1> QED
    BY <1>1, <1>2, <1>3, <1>4

LEMMA SeekKeepsInv == IInv /\ Seek => IInv'
  <1> SUFFICES ASSUME IInv, Seek PROVE IInv'
    OBVIOUS
  <1> USE DEF IInv, Seek, Kept, Stop, Return, input
  <1>1. TypeOK'
    <2>1. pos + request.size \in Nat /\ 0..len \subseteq Nat
      BY DEF TypeOK, Request
    <2>2. NoRequest \in Request
      BY DEF NoRequest, Request
    <2>3. CASE pc' = "idle"
      BY <2>1, <2>2, <2>3 DEF TypeOK
    <2>4. CASE pc' = "broken"
      BY <2>1, <2>4 DEF TypeOK, Ends
    <2> QED
      BY <2>3, <2>4
  <1>2. BufferAtPosition' /\ WithinDelta'
    BY DEF BufferAtPosition, WithinDelta, Ends, Places, TypeOK, Request
  <1>3. Places' /\ Gathered'
    BY DEF Places, Gathered
  <1> QED
    BY <1>1, <1>2, <1>3

LEMMA FillKeepsInv == IInv /\ Fill => IInv'
  <1> SUFFICES ASSUME IInv, Fill PROVE IInv'
    OBVIOUS
  <1> USE DEF IInv
  <1>1. CASE UNCHANGED <<buffered, stream_pos>>
    <2>1. /\ UNCHANGED <<delta, stream_pos, len, pos, buffered, interrupts>>
          /\ \/ Stop("truncated") \/ Stop("broken")
             \/ UNCHANGED call
      BY <1>1 DEF Fill
    <2>2. CASE UNCHANGED call
      BY <2>1, <2>2 DEF TypeOK, BufferAtPosition, Places, WithinDelta,
                        Gathered, call
    <2>3. CASE Stop("truncated") \/ Stop("broken")
      <3>1. pc' \in {"truncated", "broken"}
        BY <2>3 DEF Stop
      <3>2. TypeOK'
        BY <2>1, <2>3 DEF TypeOK, Stop, Ends
      <3> QED
        BY <3>1, <3>2
        DEF BufferAtPosition, Places, WithinDelta, Gathered, Ends
    <2> QED
      BY <2>1, <2>2, <2>3
  <1>2. CASE ~UNCHANGED <<buffered, stream_pos>>
    <2>1. PICK count \in 1..Asked :
            /\ stream_pos + count <= Len(delta)
            /\ buffered' = SubSeq(delta, stream_pos + 1, stream_pos + count)
            /\ stream_pos' = stream_pos + count
            /\ UNCHANGED call
      BY <1>2 DEF Fill
    <2>2. /\ pc = "read" /\ buffered = << >> /\ pos < len
          /\ UNCHANGED <<delta, len, interrupts, pos>>
      BY DEF Fill
    <2>3. stream_pos = pos /\ stream_pos \in Nat /\ pos \in Nat /\ len \in Nat
      BY <2>2 DEF BufferAtPosition, TypeOK, Ends
    <2>4. /\ count \in Nat \ {0}
          /\ count <= len - pos /\ count <= INPUT_BUFFER_SIZE
      BY <2>2, <2>3 DEF Asked, Minimum
    <2>5. delta \in Seq(Byte)
      BY DEF TypeOK
    <2>6. /\ buffered' \in Seq(Byte) /\ Len(buffered') = count
          /\ \A i \in 1..count : buffered'[i] = delta[pos + i]
      <3> HIDE DEF Byte
      <3>1. \A i \in (stream_pos + 1)..(stream_pos + count) :
              i \in 1..Len(delta) /\ delta[i] \in Byte
        BY <2>1, <2>3, <2>4, <2>5
      <3> QED
        BY <2>1, <2>3, <2>4, <2>5, <3>1, SubSeqProperties
    <2>7. TypeOK'
      BY <2>1, <2>2, <2>3, <2>4, <2>6 DEF TypeOK, call
    <2>8. BufferAtPosition' /\ WithinDelta'
      BY <2>1, <2>2, <2>3, <2>4, <2>6 DEF BufferAtPosition, WithinDelta, call
    <2>9. Places' /\ Gathered'
      BY <2>1, <2>2 DEF Places, Gathered, call
    <2> QED
      BY <2>7, <2>8, <2>9
  <1> QED
    BY <1>1, <1>2

LEMMA FillPastEndKeepsInv == IInv /\ FillPastEnd => IInv'
  <1> SUFFICES ASSUME IInv, FillPastEnd PROVE IInv'
    OBVIOUS
  <1> USE DEF IInv, FillPastEnd, Stop, stream, input
  <1>1. TypeOK'
    BY DEF TypeOK, Ends
  <1>2. BufferAtPosition' /\ WithinDelta' /\ Places' /\ Gathered'
    BY DEF BufferAtPosition, WithinDelta, Places, Gathered, Ends
  <1> QED
    BY <1>1, <1>2

LEMMA InterruptedKeepsInv == IInv /\ Interrupted => IInv'
  <1> SUFFICES ASSUME IInv, Interrupted PROVE IInv'
    OBVIOUS
  <1> USE DEF IInv, Interrupted, input, call
  <1>1. TypeOK'
    BY DEF TypeOK
  <1>2. BufferAtPosition' /\ WithinDelta' /\ Places' /\ Gathered'
    BY DEF BufferAtPosition, WithinDelta, Places, Gathered
  <1> QED
    BY <1>1, <1>2
-----------------------------------------------------------------------------
(* A chunk moves from the buffer to the output: both stay parts of delta.  *)
LEMMA TakeKeepsInv == IInv /\ Take => IInv'
  <1> SUFFICES ASSUME IInv, Take PROVE IInv'
    OBVIOUS
  <1> USE DEF IInv
  <1> DEFINE count == Minimum(Len(buffered), Room)
             chunk == SubSeq(buffered, 1, count)
             rest == SubSeq(buffered, count + 1, Len(buffered))
  <1>1. /\ pc = "read" /\ request.kind \in {"byte", "exact"}
        /\ Len(gathered) < request.size /\ buffered # << >>
        /\ gathered' = gathered \o chunk
        /\ buffered' = rest
        /\ pos' = pos + count
        /\ UNCHANGED <<stream, request, start, value, answer, pc>>
    BY DEF Take
  <1>2. /\ buffered \in Seq(Byte) /\ gathered \in Seq(Byte)
        /\ Len(buffered) \in Nat \ {0} /\ Len(gathered) \in Nat
        /\ pos \in Nat /\ start \in Nat /\ request.size \in Nat
        /\ delta \in Seq(Byte) /\ len \in Nat /\ stream_pos \in Nat
    BY <1>1 DEF TypeOK, Request
  <1>3. /\ count \in 1..Len(buffered)
        /\ Len(gathered) + count <= request.size
    BY <1>1, <1>2 DEF Minimum, Room
  <1>4. /\ stream_pos = pos + Len(buffered) /\ stream_pos <= len
        /\ stream_pos <= Len(delta)
        /\ \A i \in 1..Len(buffered) : buffered[i] = delta[pos + i]
    BY <1>1 DEF BufferAtPosition, WithinDelta, Ends
  <1>5. /\ pos = start + Len(gathered)
        /\ \A i \in 1..Len(gathered) : gathered[i] = delta[start + i]
    BY <1>1 DEF Gathered
  <1> HIDE DEF count
  <1>6. /\ chunk \in Seq(Byte) /\ Len(chunk) = count
        /\ \A i \in 1..count : chunk[i] = buffered[i]
    <2>1. \A i \in 1..count : buffered[i] \in Byte
      BY <1>2, <1>3
    <2> QED
      BY <1>2, <1>3, <2>1, SubSeqProperties
  <1>7. /\ rest \in Seq(Byte) /\ Len(rest) = Len(buffered) - count
        /\ \A i \in 1..(Len(buffered) - count) : rest[i] = buffered[i + count]
    <2>1. \A i \in (count + 1)..Len(buffered) : buffered[i] \in Byte
      BY <1>2, <1>3
    <2> QED
      BY <1>2, <1>3, <2>1, SubSeqProperties
  <1> HIDE DEF chunk, rest
  <1>8. TypeOK'
    <2>1. gathered \o chunk \in Seq(Byte)
      BY <1>2, <1>6
    <2>2. Len(rest) <= INPUT_BUFFER_SIZE /\ pos + count \in Nat
      BY <1>2, <1>3, <1>7 DEF TypeOK
    <2> QED
      BY <1>1, <1>7, <2>1, <2>2 DEF TypeOK, stream
  <1>9. BufferAtPosition' /\ WithinDelta'
    <2>1. stream_pos = (pos + count) + Len(rest)
      BY <1>2, <1>3, <1>4, <1>7
    <2>2. \A i \in 1..Len(rest) : rest[i] = delta[(pos + count) + i]
      <3> TAKE i \in 1..Len(rest)
      <3>1. i + count \in 1..Len(buffered) /\ pos + (i + count) = (pos + count) + i
        BY <1>2, <1>3, <1>7
      <3>2. rest[i] = buffered[i + count]
        BY <1>7
      <3>3. buffered[i + count] = delta[pos + (i + count)]
        BY <1>4, <3>1
      <3> QED
        BY <3>1, <3>2, <3>3
    <2> QED
      BY <1>1, <1>4, <2>1, <2>2 DEF BufferAtPosition, WithinDelta, stream
  <1>10. Places'
    BY <1>1 DEF Places
  <1>11. Gathered'
    <2>1. Len(gathered \o chunk) = Len(gathered) + count
      BY <1>2, <1>6, ConcatProperties
    <2>2. pos + count = start + (Len(gathered) + count)
      BY <1>2, <1>3, <1>5
    <2>3. pos + count <= Len(delta)
      BY <1>2, <1>3, <1>4
    <2>4. \A i \in 1..(Len(gathered) + count) :
            (gathered \o chunk)[i] = delta[start + i]
      <3> TAKE i \in 1..(Len(gathered) + count)
      <3>1. CASE i <= Len(gathered)
        <4>1. (gathered \o chunk)[i] = gathered[i]
          BY <1>2, <1>3, <1>6, <3>1
        <4> QED
          BY <1>2, <1>3, <1>5, <3>1, <4>1
      <3>2. CASE i > Len(gathered)
        <4>1. /\ i - Len(gathered) \in 1..count
              /\ pos + (i - Len(gathered)) = start + i
          BY <1>2, <1>3, <1>5, <3>2
        <4>2. (gathered \o chunk)[i] = chunk[i - Len(gathered)]
          BY <1>2, <1>3, <1>6, <3>2, <4>1
        <4>3. i - Len(gathered) \in 1..Len(buffered)
          BY <1>2, <1>3, <4>1
        <4> QED
          BY <1>4, <1>6, <4>1, <4>2, <4>3
      <3>3. i <= Len(gathered) \/ i > Len(gathered)
        BY <1>2
      <3> QED
        BY <3>1, <3>2, <3>3
    <2> QED
      BY <1>1, <1>3, <2>1, <2>2, <2>3, <2>4 DEF Gathered, stream
  <1> QED
    BY <1>8, <1>9, <1>10, <1>11

LEMMA ReturnBytesKeepsInv == IInv /\ ReturnBytes => IInv'
  <1> SUFFICES ASSUME IInv, ReturnBytes PROVE IInv'
    OBVIOUS
  <1> USE DEF IInv, ReturnBytes, Return, stream, input
  <1>1. TypeOK'
    <2>1. gathered \in Seq(Nat)
      BY DEF TypeOK, Byte
    <2> QED
      BY <2>1 DEF TypeOK, Request, NoRequest
  <1>2. BufferAtPosition' /\ WithinDelta' /\ Places' /\ Gathered'
    BY DEF BufferAtPosition, WithinDelta, Places, Gathered, Ends
  <1> QED
    BY <1>1, <1>2

LEMMA TakeDigitKeepsInv == IInv /\ TakeDigit => IInv'
  <1> SUFFICES ASSUME IInv, TakeDigit PROVE IInv'
    OBVIOUS
  <1> USE DEF IInv
  <1> DEFINE byte == Head(buffered)
             next == value * RADIX + Digit(byte)
  <1>1. /\ pc = "read" /\ request.kind = "varint"
        /\ buffered # << >> /\ buffered' = Tail(buffered)
        /\ pos' = pos + 1
        /\ UNCHANGED stream
    BY DEF TakeDigit
  <1>2. \/ Stop("overflow")
        \/ next <= MAX_NUMBER /\ Return(<<next>>)
        \/ /\ next <= MAX_NUMBER /\ value' = next
           /\ UNCHANGED <<request, start, gathered, answer, pc>>
    BY DEF TakeDigit
  <1>3. /\ buffered \in Seq(Byte) /\ delta \in Seq(Byte)
        /\ pos \in Nat /\ value \in Nat /\ stream_pos \in Nat
    BY DEF TypeOK
  <1>4. next \in Nat
    <2>1. byte \in Byte
      BY <1>1, <1>3
    <2>2. Digit(byte) \in Nat
      BY <2>1 DEF Byte, Digit
    <2>3. value * RADIX \in Nat
      BY <1>3
    <2> QED
      BY <2>2, <2>3
  <1>5. /\ Tail(buffered) \in Seq(Byte)
        /\ Len(Tail(buffered)) = Len(buffered) - 1
        /\ \A i \in 1..(Len(buffered) - 1) : Tail(buffered)[i] = buffered[i + 1]
        /\ Len(buffered) \in Nat \ {0}
    BY <1>1, <1>3
  <1> HIDE DEF next
  <1>6. TypeOK'
    <2>1. /\ Len(Tail(buffered)) <= INPUT_BUFFER_SIZE
          /\ pos + 1 \in Nat
      BY <1>3, <1>5 DEF TypeOK
    <2>2. <<next>> \in Seq(Nat) /\ (next <= MAX_NUMBER => next \in 0..MAX_NUMBER)
      BY <1>4
    <2>3. CASE Stop("overflow")
      BY <1>1, <1>5, <2>1, <2>3 DEF TypeOK, Stop, stream, Ends
    <2>4. CASE Return(<<next>>)
      BY <1>1, <1>5, <2>1, <2>2, <2>4
      DEF TypeOK, Return, stream, Request, NoRequest
    <2>5. CASE /\ next <= MAX_NUMBER /\ value' = next
               /\ UNCHANGED <<request, start, gathered, answer, pc>>
      BY <1>1, <1>5, <2>1, <2>2, <2>5 DEF TypeOK, stream
    <2> QED
      BY <1>2, <2>3, <2>4, <2>5
  <1>7. BufferAtPosition' /\ WithinDelta'
    <2>1. /\ stream_pos = pos + Len(buffered) /\ stream_pos <= len
          /\ stream_pos <= Len(delta)
          /\ \A i \in 1..Len(buffered) : buffered[i] = delta[pos + i]
      BY <1>1 DEF BufferAtPosition, WithinDelta, Ends
    <2>2. stream_pos = (pos + 1) + Len(Tail(buffered))
      BY <1>3, <1>5, <2>1
    <2>3. \A i \in 1..Len(Tail(buffered)) :
            Tail(buffered)[i] = delta[(pos + 1) + i]
      <3> TAKE i \in 1..Len(Tail(buffered))
      <3>1. i + 1 \in 1..Len(buffered) /\ pos + (i + 1) = (pos + 1) + i
        BY <1>3, <1>5
      <3> QED
        BY <1>5, <2>1, <3>1
    <2> QED
      BY <1>1, <2>1, <2>2, <2>3 DEF BufferAtPosition, WithinDelta, stream
  <1>8. Places'
    BY <1>1, <1>2 DEF Places, Stop, Return
  <1>9. Gathered'
    BY <1>1, <1>2 DEF Gathered, Stop, Return
  <1> QED
    BY <1>6, <1>7, <1>8, <1>9
-----------------------------------------------------------------------------
LEMMA NextKeepsInv == IInv /\ [Next]_vars => IInv'
  <1> SUFFICES ASSUME IInv, [Next]_vars PROVE IInv'
    OBVIOUS
  <1>1. CASE Decoder
    BY <1>1, DecoderKeepsInv
  <1>2. CASE Step
    BY <1>2, CheckKeepsInv, SeekKeepsInv, FillKeepsInv, FillPastEndKeepsInv,
       TakeKeepsInv, ReturnBytesKeepsInv, TakeDigitKeepsInv DEF Step
  <1>3. CASE Interrupted
    BY <1>3, InterruptedKeepsInv
  <1>4. CASE UNCHANGED vars
    BY <1>4 DEF vars, stream, input, call, IInv, TypeOK, BufferAtPosition,
                Places, WithinDelta, Gathered
  <1> QED
    BY <1>1, <1>2, <1>3, <1>4 DEF Next

LEMMA Invariance == Spec => []IInv
  BY InitInv, NextKeepsInv, PTL DEF Spec

(* The buffer never holds more than INPUT_BUFFER_SIZE bytes and a number   *)
(* being read never exceeds u64::MAX.                                      *)
THEOREM TypeCorrect == Spec => []TypeOK
  BY Invariance, PTL DEF IInv

(* fill, skip and the reads keep buffer, offset and stream in agreement.   *)
THEOREM BufferCorrect == Spec => []BufferAtPosition
  BY Invariance, PTL DEF IInv

LEMMA ReturnedBytes ==
  ASSUME IInv, ReturnBytes
  PROVE  /\ request.size = 0 \/ start + request.size <= Len(delta)
         /\ answer' = SubSeq(delta, start + 1, start + request.size)
         /\ pos' = start + request.size
  <1>1. /\ answer' = gathered /\ pos' = pos
        /\ Len(gathered) = request.size
        /\ pc = "read" /\ request.kind \in {"byte", "exact"}
    BY DEF ReturnBytes, Return, input
  <1>2. /\ gathered \in Seq(Byte) /\ delta \in Seq(Byte) /\ start \in Nat
        /\ Len(gathered) \in Nat /\ pos \in Nat
    BY DEF IInv, TypeOK
  <1>3. /\ pos = start + Len(gathered)
        /\ gathered # << >> => pos <= Len(delta)
        /\ \A i \in 1..Len(gathered) : gathered[i] = delta[start + i]
    BY <1>1 DEF IInv, Gathered
  <1>4. CASE gathered = << >>
    BY <1>1, <1>2, <1>3, <1>4, SubSeqEmpty
  <1>5. CASE gathered # << >>
    <2> DEFINE slice == SubSeq(delta, start + 1, start + Len(gathered))
    <2>1. start + Len(gathered) <= Len(delta)
      BY <1>2, <1>3, <1>5
    <2>2. \A i \in (start + 1)..(start + Len(gathered)) : delta[i] \in Byte
      BY <1>2, <2>1
    <2>3. /\ slice \in Seq(Byte) /\ Len(slice) = Len(gathered)
          /\ \A i \in 1..Len(gathered) : slice[i] = delta[start + i]
      <3>1. PICK n \in Nat : n = Len(gathered)
        BY <1>2
      <3>2. SubSeq(delta, start + 1, start + n) \in Seq(Byte)
            /\ Len(SubSeq(delta, start + 1, start + n)) = n
            /\ \A i \in 1..n : SubSeq(delta, start + 1, start + n)[i]
                               = delta[start + i]
        <4> HIDE DEF Byte
        <4> QED
          BY <1>2, <2>2, <3>1, SubSeqProperties
      <3> QED
        BY <3>1, <3>2
    <2> HIDE DEF slice
    <2>4. gathered = slice
      BY <1>2, <1>3, <2>3
    <2> QED
      BY <1>1, <1>3, <2>1, <2>4 DEF slice
  <1> QED
    BY <1>4, <1>5

(* read_u8 and read_exact deliver the delta's bytes at their offset.       *)
THEOREM BytesAreExact == Spec => BytesExact
  <1>1. IInv /\ [Next]_vars =>
          [ReturnBytes => /\ request.size = 0 \/ start + request.size <= Len(delta)
                          /\ answer' = SubSeq(delta, start + 1, start + request.size)
                          /\ pos' = start + request.size]_vars
    BY ReturnedBytes
  <1> QED
    BY <1>1, Invariance, PTL DEF Spec, BytesExact
-----------------------------------------------------------------------------
(* A number grows by a digit with each byte.                               *)
LEMMA NumberGrows ==
  ASSUME NEW bytes \in Seq(Byte)
  PROVE  /\ Exact!Number(bytes, 0) = 0
         /\ \A k \in 1..Len(bytes) :
              Exact!Number(bytes, k)
                = Exact!Number(bytes, k - 1) * RADIX + Digit(bytes[k])
  <1> DEFINE m == Len(bytes)
             step == [x \in Nat \X Int |->
                        IF x[1] < m THEN x[2] * RADIX + Digit(bytes[x[1] + 1])
                        ELSE 0]
  <1>1. m \in Nat
    OBVIOUS
  <1>2. ASSUME NEW k \in 1..m
        PROVE  Digit(bytes[k]) \in Int
    <2>1. bytes[k] \in Byte
      OBVIOUS
    <2> QED
      BY <2>1 DEF Byte, Digit
  <1>3. step \in [Nat \X Int -> Int]
    <2>1. ASSUME NEW x \in Nat \X Int, x[1] < m
          PROVE  x[2] * RADIX + Digit(bytes[x[1] + 1]) \in Int
      <3>1. x[1] + 1 \in 1..m /\ x[2] \in Int
        BY <2>1
      <3>2. Digit(bytes[x[1] + 1]) \in Int /\ x[2] * RADIX \in Int
        BY <1>2, <3>1
      <3> QED
        BY <3>2
    <2> QED
      BY <2>1
  <1>4. ASSUME NEW k \in 1..m, NEW v \in Int
        PROVE  step[<<k - 1, v>>] = v * RADIX + Digit(bytes[k])
    <2>1. k - 1 \in Nat /\ k - 1 < m /\ (k - 1) + 1 = k
      OBVIOUS
    <2> QED
      BY <2>1
  <1> HIDE DEF step, m
  <1>5. PICK f \in [0..m -> Int] : IteratesUpTo(f, m, 0, step)
    <2>1. 0 \in Int
      OBVIOUS
    <2> QED
      BY <1>1, <1>3, <2>1, RecursionUpTo, Zenon
  <1>6. f = [k \in 0..m |-> IF k = 0 THEN 0
                            ELSE f[k - 1] * RADIX + Digit(bytes[k])]
    <2>1. ASSUME NEW k \in 0..m, k # 0
          PROVE  f[k] = f[k - 1] * RADIX + Digit(bytes[k])
      <3>1. k \in 1..m /\ f[k - 1] \in Int
        BY <1>1, <2>1
      <3>2. f[k] = step[<<k - 1, f[k - 1]>>]
        BY <1>5, <2>1 DEF IteratesUpTo
      <3> QED
        BY <1>4, <3>1, <3>2
    <2>2. f[0] = 0
      BY <1>1, <1>5 DEF IteratesUpTo
    <2> QED
      BY <2>1, <2>2
  <1> DEFINE number == CHOOSE g :
                g = [k \in 0..Len(bytes) |->
                       IF k = 0 THEN 0
                       ELSE g[k - 1] * RADIX + Digit(bytes[k])]
  <1>7. number = [k \in 0..Len(bytes) |->
                    IF k = 0 THEN 0
                    ELSE number[k - 1] * RADIX + Digit(bytes[k])]
    BY <1>6 DEF m
  <1>8. \A k : Exact!Number(bytes, k) = number[k]
    BY DEF Exact!Number, Exact!Digit, Digit
  <1> HIDE DEF number
  <1>9. Exact!Number(bytes, 0) = 0
    <2>1. 0 \in 0..Len(bytes)
      OBVIOUS
    <2> QED
      BY <1>7, <1>8, <2>1
  <1>10. ASSUME NEW k \in 1..Len(bytes)
         PROVE  Exact!Number(bytes, k)
                  = Exact!Number(bytes, k - 1) * RADIX + Digit(bytes[k])
    <2>1. k \in 0..Len(bytes) /\ k # 0
      OBVIOUS
    <2> QED
      BY <1>7, <1>8, <2>1
  <1> QED
    BY <1>9, <1>10

(* The bytes from an offset on.                                            *)
LEMMA RestBytes ==
  ASSUME NEW d \in Seq(Byte), NEW p \in Nat
  PROVE  /\ SubSeq(d, p + 1, Len(d)) \in Seq(Byte)
         /\ p <= Len(d) =>
              /\ Len(SubSeq(d, p + 1, Len(d))) = Len(d) - p
              /\ \A k \in 1..(Len(d) - p) :
                   SubSeq(d, p + 1, Len(d))[k] = d[p + k]
  <1> DEFINE rest == SubSeq(d, p + 1, Len(d))
  <1>1. CASE p >= Len(d)
    <2>1. rest = << >>
      BY <1>1, SubSeqEmpty
    <2> QED
      BY <1>1, <2>1
  <1>2. CASE p < Len(d)
    <2>1. \A k \in (p + 1)..Len(d) : k \in 1..Len(d) /\ d[k] \in Byte
      BY <1>2
    <2> HIDE DEF Byte
    <2>2. /\ rest \in Seq(Byte) /\ Len(rest) = Len(d) - p
          /\ \A k \in 1..(Len(d) - p) : rest[k] = d[p + k]
      BY <1>2, <2>1, SubSeqProperties
    <2> QED
      BY <2>2
  <1> QED
    BY <1>1, <1>2

(* The number with the byte that follows.                                  *)
LEMMA NextDigit ==
  ASSUME IInv, Counted, pc = "read", request.kind = "varint", buffered # << >>
  PROVE  /\ start \in Nat /\ pos \in Nat /\ start <= pos
         /\ delta \in Seq(Byte) /\ Head(buffered) \in Byte
         /\ pos + 1 <= len /\ pos + 1 <= Len(delta)
         /\ Head(buffered) = delta[pos + 1]
         /\ value * RADIX + Digit(Head(buffered))
              = Exact!Number(Exact!Rest(start), (pos + 1) - start)
  <1>1. /\ start \in Nat /\ pos \in Nat /\ delta \in Seq(Byte) /\ len \in Nat
        /\ buffered \in Seq(Byte) /\ Len(buffered) \in Nat \ {0}
        /\ stream_pos \in Nat
    BY DEF IInv, TypeOK
  <1>2. Head(buffered) = buffered[1] /\ Head(buffered) \in Byte
    <2> HIDE DEF Byte
    <2> QED
      BY <1>1
  <1>3. /\ stream_pos = pos + Len(buffered) /\ stream_pos <= len
        /\ stream_pos <= Len(delta) /\ buffered[1] = delta[pos + 1]
    <2>1. 1 \in 1..Len(buffered) /\ pc \notin Ends
      BY <1>1 DEF Ends
    <2> QED
      BY <2>1 DEF IInv, BufferAtPosition, WithinDelta
  <1>4. start <= pos /\ pos + 1 <= len /\ pos + 1 <= Len(delta)
    BY <1>1, <1>3 DEF Counted
  <1>5. PICK bytes \in Seq(Byte) : bytes = SubSeq(delta, start + 1, Len(delta))
    BY <1>1, RestBytes
  <1>6. PICK k \in 1..Len(bytes) : k = (pos + 1) - start
    <2>1. Len(bytes) = Len(delta) - start
      BY <1>1, <1>4, <1>5, RestBytes
    <2>2. (pos + 1) - start \in 1..(Len(delta) - start)
      BY <1>1, <1>4
    <2> QED
      BY <2>1, <2>2
  <1>7. bytes[k] = delta[pos + 1]
    <2>1. k \in 1..(Len(delta) - start) /\ start + k = pos + 1
      BY <1>1, <1>4, <1>6
    <2>2. bytes[k] = delta[start + k]
      BY <1>1, <1>4, <1>5, <2>1, RestBytes
    <2> QED
      BY <2>1, <2>2
  <1>8. Exact!Number(bytes, k)
          = Exact!Number(bytes, k - 1) * RADIX + Digit(bytes[k])
    BY NumberGrows
  <1>9. value = Exact!Number(bytes, k - 1)
    <2>1. k - 1 = pos - start
      BY <1>1, <1>6
    <2>2. value = Exact!Number(Exact!Rest(start), pos - start)
      BY DEF Counted
    <2> QED
      BY <1>5, <2>1, <2>2 DEF Exact!Rest
  <1>10. value * RADIX + Digit(Head(buffered)) = Exact!Number(bytes, k)
    BY <1>2, <1>3, <1>7, <1>8, <1>9
  <1>11. Exact!Number(bytes, k)
           = Exact!Number(Exact!Rest(start), (pos + 1) - start)
    BY <1>5, <1>6 DEF Exact!Rest
  <1> QED
    BY <1>1, <1>2, <1>3, <1>4, <1>10, <1>11

LEMMA CountedInit == Init => Counted
  BY DEF Init, Counted

LEMMA CountedNext == IInv /\ Counted /\ [Next]_vars => Counted'
  <1> SUFFICES ASSUME IInv, Counted, [Next]_vars,
                      pc' = "read", request'.kind = "varint"
               PROVE  /\ start' <= pos' /\ pos' - start' < MAX_DIGITS
                      /\ start' < pos' => pos' <= Len(delta')
                      /\ Exact!Open(start, pos - start)'
                      /\ value' = Exact!Number(Exact!Rest(start), pos - start)'
    BY DEF Counted
  <1>1. /\ start \in Nat /\ pos \in Nat /\ delta \in Seq(Byte)
    BY DEF IInv, TypeOK
  <1>2. CASE ReadVarint
    <2>1. /\ pc = "idle" /\ start' = pos /\ pos' = pos
          /\ value' = value /\ delta' = delta
      BY <1>2 DEF ReadVarint, Call, stream, input
    <2>2. value = 0
      BY <2>1 DEF IInv, Places
    <2>3. PICK bytes \in Seq(Byte) : bytes = SubSeq(delta, pos + 1, Len(delta))
      BY <1>1, RestBytes
    <2>4. Exact!Number(bytes, 0) = 0
      BY NumberGrows
    <2>5. pos - pos = 0
      BY <1>1
    <2>6. Exact!Number(Exact!Rest(start), pos - start)' = 0
      BY <2>1, <2>3, <2>4, <2>5 DEF Exact!Rest
    <2>7. Exact!Open(start, pos - start)'
      BY <2>1, <2>5 DEF Exact!Open
    <2> QED
      BY <1>1, <2>1, <2>2, <2>5, <2>6, <2>7
  <1>3. CASE TakeDigit
    <2> DEFINE byte == Head(buffered)
               next == value * RADIX + Digit(byte)
    <2>1. /\ pc = "read" /\ request.kind = "varint" /\ buffered # << >>
          /\ pos' = pos + 1 /\ UNCHANGED stream
          /\ GoesOn(byte) /\ ~Exhausted
          /\ value' = next /\ start' = start
      BY <1>3 DEF TakeDigit, Stop, Return, Ends
    <2>2. /\ start <= pos /\ pos + 1 <= Len(delta) /\ byte = delta[pos + 1]
          /\ next = Exact!Number(Exact!Rest(start), (pos + 1) - start)
      BY <2>1, NextDigit
    <2> HIDE DEF next, byte
    <2>3. (pos + 1) - start < MAX_DIGITS
      <3>1. pos - start < MAX_DIGITS
        BY <2>1 DEF Counted
      <3>2. (pos + 1) - start # MAX_DIGITS
        <4>1. ~Exhausted
          BY <2>1
        <4> QED
          BY <1>1, <4>1 DEF Exhausted
      <3> QED
        BY <1>1, <2>2, <3>1, <3>2
    <2>4. delta' = delta
      BY <2>1 DEF stream
    <2>5. value' = Exact!Number(Exact!Rest(start), pos - start)'
      BY <2>1, <2>2, <2>4 DEF Exact!Rest
    <2>6. Exact!Open(start, pos - start)'
      <3>1. ASSUME NEW k \in 1..((pos + 1) - start)
            PROVE  GoesOn(delta[start + k])
        <4>1. CASE k = (pos + 1) - start
          <5>1. start + k = pos + 1
            BY <1>1, <4>1
          <5> QED
            BY <2>1, <2>2, <5>1
        <4>2. CASE k # (pos + 1) - start
          <5>1. k \in 1..(pos - start)
            BY <1>1, <2>2, <4>2
          <5> QED
            BY <2>1, <5>1 DEF Counted, Exact!Open, Exact!GoesOn, GoesOn
        <4> QED
          BY <4>1, <4>2
      <3> QED
        BY <2>1, <2>4, <3>1 DEF Exact!Open, Exact!GoesOn, GoesOn
    <2> QED
      BY <1>1, <2>1, <2>2, <2>3, <2>4, <2>5, <2>6
  <1>4. CASE /\ pc = "read" /\ request.kind = "varint"
             /\ UNCHANGED <<delta, pos, start, value>>
    BY <1>4 DEF Counted, Exact!Open, Exact!GoesOn, Exact!Rest
  <1>5. CASE ReadU8 \/ ReadExact \/ Skip
    BY <1>5 DEF ReadU8, ReadExact, Skip, Call
  <1>6. CASE Check
    BY <1>6 DEF Check, Stop, Ends, IInv, Places
  <1>7. CASE Seek \/ FillPastEnd \/ ReturnBytes
    BY <1>7 DEF Seek, FillPastEnd, ReturnBytes, Stop, Return
  <1>8. CASE Fill
    BY <1>4, <1>8 DEF Fill, Stop, call
  <1>9. CASE Take
    BY <1>9 DEF Take
  <1>10. CASE Interrupted \/ UNCHANGED vars
    BY <1>4, <1>10 DEF Interrupted, vars, stream, input, call
  <1> QED
    BY <1>2, <1>3, <1>5, <1>6, <1>7, <1>8, <1>9, <1>10 DEF Next, Decoder, Step

-----------------------------------------------------------------------------
(* While a call runs the unbuffered reader has been asked.                 *)
InCall == pc \in {"check", "seek", "read"}

LEMMA CallIsAsked ==
  ASSUME IInv, InCall
  PROVE  /\ pc # "idle" /\ pc \notin Ends
         /\ request # Exact!Idle
         /\ start \in Nat /\ pos \in Nat /\ len \in Nat
         /\ delta \in Seq(Byte) /\ Len(delta) \in Nat
         /\ request.size \in Nat /\ pos <= len
  <1>1. pc # "idle" /\ pc \notin Ends
    BY DEF InCall, Ends
  <1>2. /\ start \in Nat /\ pos \in Nat /\ len \in Nat /\ delta \in Seq(Byte)
        /\ buffered \in Seq(Byte) /\ request \in Request
    BY DEF IInv, TypeOK
  <1>3. request.kind # "none"
    BY <1>1 DEF InCall, IInv, Places
  <1>4. pos <= len
    <2>1. stream_pos = pos + Len(buffered) /\ stream_pos <= len
      BY <1>1 DEF IInv, BufferAtPosition
    <2> QED
      BY <1>2, <2>1
  <1> QED
    BY <1>1, <1>2, <1>3, <1>4 DEF Exact!Idle, Request

LEMMA StopRefuses ==
  ASSUME IInv, InCall, NEW reason \in Ends, Stop(reason),
         UNCHANGED <<delta, len>>
  PROVE  Exact!Refuse(reason)
  <1>1. pc # "idle" /\ pc' = reason /\ pc' # "idle"
    BY CallIsAsked DEF Stop, Ends
  <1> QED
    BY <1>1 DEF Exact!Refuse, Stop

LEMMA ReturnAnswers ==
  ASSUME IInv, InCall, NEW result, Return(result),
         UNCHANGED <<delta, len>>,
         NEW count \in Nat, pos' = start + count
  PROVE  Exact!Answer(count, result)
  <1>1. pc # "idle" /\ pc \notin Ends /\ pc' = "idle" /\ pc' \notin Ends
    BY CallIsAsked DEF Return, Ends
  <1> QED
    BY <1>1 DEF Exact!Answer, Exact!Idle, NoRequest, Return

LEMMA CallImplements == IInv /\ Decoder => Exact!Ask
  <1> SUFFICES ASSUME IInv, Decoder PROVE Exact!Ask
    OBVIOUS
  <1>1. PICK kind \in {"byte", "exact", "skip", "varint"} :
          /\ pc = "idle" /\ request'.kind = kind /\ start' = pos
          /\ pc' \in {"check", "read"}
          /\ UNCHANGED <<delta, len, answer>>
    <2>1. CASE ReadExact \/ Skip
      BY <2>1 DEF ReadExact, Skip, Call, stream
    <2>2. CASE ReadU8 \/ ReadVarint
      BY <2>2 DEF ReadU8, ReadVarint, Call, stream
    <2> QED
      BY <2>1, <2>2 DEF Decoder
  <1>3. request = Exact!Idle
    BY <1>1 DEF IInv, Places, NoRequest, Exact!Idle
  <1>4. request' # Exact!Idle
    BY <1>1 DEF Exact!Idle
  <1> QED
    BY <1>1, <1>3, <1>4 DEF Exact!Ask, Ends

(* Stopping short of the end of a request that the delta does not have.    *)
LEMMA BytesCutOff ==
  ASSUME IInv, InCall, request.kind \in {"byte", "exact"},
         request.size # 0, ~(start + request.size <= Exact!Limit),
         Exact!Refuse("truncated")
  PROVE  Exact!Next
  <1>1. pc # "idle" /\ pc \notin Ends /\ request # Exact!Idle
    BY CallIsAsked
  <1>2. Exact!Bytes
    BY <1>1 DEF Exact!Bytes
  <1> QED
    BY <1>1, <1>2 DEF Exact!Next, Exact!Serve

LEMMA CheckImplements ==
  IInv /\ Check => Exact!Next \/ UNCHANGED Exact!vars
  <1> SUFFICES ASSUME IInv, Check
               PROVE  Exact!Next \/ UNCHANGED Exact!vars
    OBVIOUS
  <1>1. pc = "check" /\ InCall /\ UNCHANGED <<delta, len>>
    BY DEF Check, InCall, stream
  <1>2. /\ pc # "idle" /\ pc \notin Ends /\ request # Exact!Idle
        /\ start \in Nat /\ len \in Nat /\ Len(delta) \in Nat
        /\ request.size \in Nat /\ pos <= len
    BY <1>1, CallIsAsked
  <1>3. request.kind \in {"exact", "skip"} /\ pos = start
    BY <1>1 DEF IInv, Places
  <1>4. CASE pos + request.size > len
    <2>1. Stop("truncated") /\ "truncated" \in Ends
      BY <1>4 DEF Check, Ends
    <2>2. Exact!Refuse("truncated")
      BY <1>1, <2>1, StopRefuses
    <2>3. CASE request.kind = "exact"
      <3>1. request.size # 0
        BY <1>2, <1>3, <1>4
      <3>2. ~(start + request.size <= Exact!Limit)
        BY <1>2, <1>3, <1>4 DEF Exact!Limit
      <3> QED
        BY <1>1, <2>2, <2>3, <3>1, <3>2, BytesCutOff
    <2>4. CASE request.kind = "skip"
      <3>1. ~(start + request.size <= len)
        BY <1>2, <1>3, <1>4
      <3>2. Exact!Skip
        BY <1>2, <2>2, <2>4, <3>1 DEF Exact!Skip
      <3> QED
        BY <1>2, <3>2 DEF Exact!Next, Exact!Serve
    <2> QED
      BY <1>3, <2>3, <2>4
  <1>5. CASE ~(pos + request.size > len)
    <2>1. pc' \in {"seek", "read"} /\ UNCHANGED <<request, start, answer>>
      BY <1>5 DEF Check
    <2> QED
      BY <1>1, <1>2, <2>1 DEF Exact!vars, Ends
  <1> QED
    BY <1>4, <1>5

LEMMA SeekImplements == IInv /\ Seek => Exact!Next
  <1> SUFFICES ASSUME IInv, Seek PROVE Exact!Next
    OBVIOUS
  <1>1. pc = "seek" /\ InCall /\ UNCHANGED <<delta, len>>
    BY DEF Seek, InCall
  <1>2. /\ pc # "idle" /\ pc \notin Ends /\ request # Exact!Idle
        /\ request.size \in Nat
    BY <1>1, CallIsAsked
  <1>3. /\ request.kind = "skip" /\ pos = start
        /\ start + request.size <= len
    BY <1>1 DEF IInv, Places
  <1>4. CASE pos' = pos + request.size /\ Return(<< >>)
    <2>1. Exact!Answer(request.size, << >>)
      BY <1>1, <1>2, <1>3, <1>4, ReturnAnswers
    <2>2. Exact!Skip
      BY <1>2, <1>3, <2>1 DEF Exact!Skip
    <2> QED
      BY <1>2, <2>2 DEF Exact!Next, Exact!Serve
  <1>5. CASE Stop("broken")
    <2>1. Exact!Refuse("broken")
      BY <1>1, <1>5, StopRefuses DEF Ends
    <2> QED
      BY <1>2, <2>1 DEF Exact!Next, Exact!Break
  <1> QED
    BY <1>4, <1>5 DEF Seek

(* The delta or its measured length ends where more is wanted.             *)
LEMMA TruncatedImplements ==
  ASSUME IInv, Counted, pc = "read", Wanting, pos >= Exact!Limit,
         Stop("truncated"), UNCHANGED <<delta, len>>
  PROVE  Exact!Next
  <1>1. InCall /\ Exact!Refuse("truncated")
    BY StopRefuses DEF InCall, Ends
  <1>2. /\ pc # "idle" /\ pc \notin Ends /\ request # Exact!Idle
        /\ start \in Nat /\ pos \in Nat /\ len \in Nat /\ Len(delta) \in Nat
        /\ delta \in Seq(Byte) /\ request.size \in Nat /\ pos <= len
    BY <1>1, CallIsAsked
  <1>3. Exact!Limit \in Nat /\ Exact!Limit <= len
    BY <1>2 DEF Exact!Limit
  <1>4. CASE request.kind \in {"byte", "exact"}
    <2>1. /\ gathered \in Seq(Byte) /\ Len(gathered) < request.size
          /\ pos = start + Len(gathered)
      BY <1>4 DEF Wanting, IInv, TypeOK, Gathered
    <2>2. request.size # 0 /\ ~(start + request.size <= Exact!Limit)
      <3>1. Len(gathered) \in Nat
        BY <2>1
      <3> QED
        BY <1>2, <1>3, <2>1, <3>1
    <2> QED
      BY <1>1, <1>4, <2>2, BytesCutOff
  <1>5. CASE request.kind = "varint"
    <2>1. /\ start <= pos /\ pos - start < MAX_DIGITS
          /\ start < pos => pos <= Len(delta)
          /\ Exact!Open(start, pos - start)
          /\ value = Exact!Number(Exact!Rest(start), pos - start)
      BY <1>5 DEF Counted
    <2>2. value <= MAX_NUMBER
      BY DEF IInv, TypeOK
    <2>3. pos - start \in 0..(MAX_DIGITS - 1)
      BY <1>2, <2>1
    <2>4. \/ start + (pos - start) = Exact!Limit
          \/ pos - start = 0 /\ start > Exact!Limit
      BY <1>2, <1>3, <2>1 DEF Exact!Limit
    <2>5. Exact!Varint
      BY <1>1, <1>2, <1>5, <2>1, <2>2, <2>3, <2>4 DEF Exact!Varint
    <2> QED
      BY <1>2, <2>5 DEF Exact!Next, Exact!Serve
  <1> QED
    BY <1>4, <1>5 DEF IInv, Places

LEMMA FillImplements ==
  IInv /\ Counted /\ (Fill \/ FillPastEnd)
    => Exact!Next \/ UNCHANGED Exact!vars
  <1> SUFFICES ASSUME IInv, Counted, Fill \/ FillPastEnd
               PROVE  Exact!Next \/ UNCHANGED Exact!vars
    OBVIOUS
  <1>1. /\ pc = "read" /\ InCall /\ Wanting /\ buffered = << >>
        /\ UNCHANGED <<delta, len>>
    BY DEF Fill, FillPastEnd, InCall, stream
  <1>2. /\ pc # "idle" /\ pc \notin Ends /\ request # Exact!Idle
        /\ pos \in Nat /\ len \in Nat /\ Len(delta) \in Nat /\ pos <= len
    BY <1>1, CallIsAsked
  <1>3. stream_pos = pos
    BY <1>1, <1>2 DEF IInv, BufferAtPosition, TypeOK
  <1>4. CASE FillPastEnd
    <2>1. pos >= Exact!Limit /\ Stop("truncated")
      BY <1>2, <1>4 DEF FillPastEnd, Exact!Limit
    <2> QED
      BY <1>1, <2>1, TruncatedImplements
  <1>5. CASE Fill
    <2>1. CASE UNCHANGED call
      BY <1>1, <1>2, <2>1 DEF call, Exact!vars
    <2>2. CASE stream_pos >= Len(delta) /\ Stop("truncated")
      <3>1. pos >= Exact!Limit
        BY <1>2, <1>3, <1>5, <2>2 DEF Fill, Exact!Limit
      <3> QED
        BY <1>1, <2>2, <3>1, TruncatedImplements
    <2>3. CASE Stop("broken")
      <3>1. Exact!Refuse("broken")
        BY <1>1, <2>3, StopRefuses DEF Ends
      <3> QED
        BY <1>2, <3>1 DEF Exact!Next, Exact!Break
    <2> QED
      BY <1>5, <2>1, <2>2, <2>3 DEF Fill
  <1> QED
    BY <1>4, <1>5

LEMMA ReturnBytesImplements == IInv /\ ReturnBytes => Exact!Next
  <1> SUFFICES ASSUME IInv, ReturnBytes PROVE Exact!Next
    OBVIOUS
  <1>1. /\ pc = "read" /\ InCall /\ request.kind \in {"byte", "exact"}
        /\ Len(gathered) = request.size /\ Return(gathered)
        /\ UNCHANGED <<delta, len, pos>>
    BY DEF ReturnBytes, InCall, stream, input
  <1>2. /\ pc # "idle" /\ pc \notin Ends /\ request # Exact!Idle
        /\ start \in Nat /\ len \in Nat /\ Len(delta) \in Nat /\ pos <= len
        /\ request.size \in Nat
    BY <1>1, CallIsAsked
  <1>3. /\ request.size = 0 \/ start + request.size <= Len(delta)
        /\ gathered = SubSeq(delta, start + 1, start + request.size)
        /\ pos = start + request.size
    BY <1>1, ReturnedBytes DEF Return
  <1>4. request.size = 0 \/ start + request.size <= Exact!Limit
    BY <1>2, <1>3 DEF Exact!Limit
  <1>5. Exact!Answer(request.size,
                     SubSeq(delta, start + 1, start + request.size))
    BY <1>1, <1>2, <1>3, ReturnAnswers
  <1>6. Exact!Bytes
    BY <1>1, <1>2, <1>4, <1>5 DEF Exact!Bytes
  <1> QED
    BY <1>2, <1>6 DEF Exact!Next, Exact!Serve

LEMMA TakeDigitImplements ==
  IInv /\ Counted /\ TakeDigit => Exact!Next \/ UNCHANGED Exact!vars
  <1> SUFFICES ASSUME IInv, Counted, TakeDigit
               PROVE  Exact!Next \/ UNCHANGED Exact!vars
    OBVIOUS
  <1> DEFINE byte == Head(buffered)
             next == value * RADIX + Digit(byte)
             count == (pos + 1) - start
  <1>1. /\ pc = "read" /\ InCall /\ request.kind = "varint"
        /\ buffered # << >> /\ pos' = pos + 1 /\ UNCHANGED <<delta, len>>
    BY DEF TakeDigit, InCall, stream
  <1>2. /\ pc # "idle" /\ pc \notin Ends /\ request # Exact!Idle
        /\ start \in Nat /\ pos \in Nat /\ len \in Nat /\ Len(delta) \in Nat
    BY <1>1, CallIsAsked
  <1>3. /\ start <= pos /\ pos + 1 <= len /\ pos + 1 <= Len(delta)
        /\ byte = delta[pos + 1]
        /\ next = Exact!Number(Exact!Rest(start), count)
    BY <1>1, NextDigit
  <1>4. /\ count \in 1..MAX_DIGITS /\ count - 1 = pos - start
        /\ start + count = pos + 1 /\ start + count <= Exact!Limit
    <2>1. pos - start < MAX_DIGITS
      BY <1>1 DEF Counted
    <2> QED
      BY <1>2, <1>3, <2>1 DEF Exact!Limit
  <1>5. Exact!Open(start, count - 1)
    BY <1>1, <1>4 DEF Counted
  <1>6. next \in Nat
    <2>1. byte \in Byte
      BY <1>1, NextDigit
    <2>2. Digit(byte) \in Nat
      BY <2>1 DEF Byte, Digit
    <2>3. value \in Nat
      BY DEF IInv, TypeOK
    <2>4. value * RADIX \in Nat
      BY <2>3
    <2> QED
      BY <2>2, <2>4
  <1>7. GoesOn(byte) <=> Exact!GoesOn(delta[start + count])
    BY <1>3, <1>4 DEF GoesOn, Exact!GoesOn
  <1>8. GoesOn(byte) => Exact!Open(start, count)
    <2> SUFFICES ASSUME GoesOn(byte), NEW k \in 1..count
                 PROVE  Exact!GoesOn(delta[start + k])
      BY DEF Exact!Open
    <2>1. CASE k = count
      BY <1>7, <2>1
    <2>2. CASE k # count
      <3>1. k \in 1..(count - 1)
        BY <1>4, <2>2
      <3> QED
        BY <1>5, <3>1 DEF Exact!Open
    <2> QED
      BY <2>1, <2>2
  <1>9. \/ next > MAX_NUMBER /\ Stop("overflow")
        \/ next <= MAX_NUMBER /\ ~GoesOn(byte) /\ Return(<<next>>)
        \/ next <= MAX_NUMBER /\ GoesOn(byte) /\ Exhausted /\ Stop("overflow")
        \/ next <= MAX_NUMBER /\ GoesOn(byte)
           /\ UNCHANGED <<request, start, gathered, answer, pc>>
    BY DEF TakeDigit
  <1> HIDE DEF next, byte
  <1>10. CASE next > MAX_NUMBER /\ Stop("overflow")
    <2>1. Exact!Refuse("overflow")
      BY <1>1, <1>10, StopRefuses DEF Ends
    <2>2. CASE GoesOn(byte)
      <3>1. Exact!Varint
        BY <1>1, <1>2, <1>3, <1>4, <1>8, <1>10, <2>1, <2>2 DEF Exact!Varint
      <3> QED
        BY <1>2, <3>1 DEF Exact!Next, Exact!Serve
    <2>3. CASE ~GoesOn(byte)
      <3>1. Exact!Varint
        BY <1>1, <1>2, <1>3, <1>4, <1>5, <1>6, <1>7, <1>10, <2>1, <2>3
        DEF Exact!Varint
      <3> QED
        BY <1>2, <3>1 DEF Exact!Next, Exact!Serve
    <2> QED
      BY <2>2, <2>3
  <1>11. CASE next <= MAX_NUMBER /\ ~GoesOn(byte) /\ Return(<<next>>)
    <2>1. Exact!Answer(count, <<next>>)
      BY <1>1, <1>4, <1>11, ReturnAnswers
    <2>2. Exact!Varint
      BY <1>1, <1>2, <1>3, <1>4, <1>5, <1>7, <1>11, <2>1 DEF Exact!Varint
    <2> QED
      BY <1>2, <2>2 DEF Exact!Next, Exact!Serve
  <1>12. CASE next <= MAX_NUMBER /\ GoesOn(byte) /\ Exhausted
              /\ Stop("overflow")
    <2>1. Exact!Refuse("overflow")
      BY <1>1, <1>12, StopRefuses DEF Ends
    <2>2. count = MAX_DIGITS
      BY <1>2, <1>12 DEF Exhausted
    <2>3. Exact!Varint
      BY <1>1, <1>2, <1>4, <1>8, <1>12, <2>1, <2>2 DEF Exact!Varint
    <2> QED
      BY <1>2, <2>3 DEF Exact!Next, Exact!Serve
  <1>13. CASE UNCHANGED <<request, start, gathered, answer, pc>>
    BY <1>1, <1>2, <1>13 DEF Exact!vars
  <1> QED
    BY <1>9, <1>10, <1>11, <1>12, <1>13

LEMMA StepImplements ==
  IInv /\ Counted /\ [Next]_vars => [Exact!Next]_Exact!vars
  <1> SUFFICES ASSUME IInv, Counted, [Next]_vars
               PROVE  Exact!Next \/ UNCHANGED Exact!vars
    OBVIOUS
  <1>1. CASE Decoder
    BY <1>1, CallImplements DEF Exact!Next
  <1>2. CASE Check \/ Seek \/ Fill \/ FillPastEnd \/ ReturnBytes \/ TakeDigit
    BY <1>2, CheckImplements, SeekImplements, FillImplements,
       ReturnBytesImplements, TakeDigitImplements
  <1>3. CASE Take
    BY <1>3 DEF Take, stream, Exact!vars, Ends
  <1>4. CASE Interrupted \/ UNCHANGED vars
    BY <1>4 DEF Interrupted, vars, stream, input, call, Exact!vars
  <1> QED
    BY <1>1, <1>2, <1>3, <1>4 DEF Next, Step

(* Whatever the buffer holds and the stream returns, requests are answered *)
(* as a reader without a buffer would answer them.                         *)
THEOREM InputIsExact == Spec => ImplementsExactInput
  <1>1. Init => Exact!Init
    BY DEF Init, Exact!Init, Exact!Idle, NoRequest, Ends
  <1> QED
    BY <1>1, Invariance, CountedInit, CountedNext, StepImplements, PTL
    DEF Spec, ImplementsExactInput, Exact!Spec
=============================================================================
