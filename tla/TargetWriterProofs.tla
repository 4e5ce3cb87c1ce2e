------------------------- MODULE TargetWriterProofs -------------------------
EXTENDS TargetWriterInv, DataLemmas, TLAPS
(***************************************************************************)
(* The properties of TargetWriter hold for every byte alphabet, buffer     *)
(* size, target limit, source and literal data: IInv is inductive, action  *)
(* by action, and each property follows from it.                           *)
(***************************************************************************)
USE ByteAssumption, BufferAssumption, TargetAssumption, SourceAssumption,
    LiteralAssumption, InterruptAssumption
USE DEF writer, window, locals, target, device

(* The empty sequence is one, of length 0.                                 *)
LEMMA EmptySequence == << >> \in Seq(Byte) /\ Len(<< >>) = 0
  OBVIOUS

(* The operation that stands for none is well typed.                       *)
LEMMA NoOpProperties == NoOp \in Operation /\ NoOp.size = 0 /\ NoOp.kind = "none"
  BY EmptySequence DEF NoOp, Operation, Kind

(* Appending bytes adds up the lengths and keeps the prefix.               *)
LEMMA ConcatBytes ==
  ASSUME NEW s \in Seq(Byte), NEW t \in Seq(Byte)
  PROVE  /\ s \o t \in Seq(Byte)
         /\ Len(s \o t) = Len(s) + Len(t)
         /\ \A i \in 1..Len(s) : (s \o t)[i] = s[i]
  OBVIOUS

(* A slice s[m..m + n] of the code has n bytes, those of s from m on.      *)
LEMMA SliceBytes ==
  ASSUME NEW s \in Seq(Byte), NEW m \in Nat, NEW n \in Nat, m + n <= Len(s)
  PROVE  /\ SubSeq(s, m + 1, m + n) \in Seq(Byte)
         /\ Len(SubSeq(s, m + 1, m + n)) = n
         /\ \A i \in 1..n : SubSeq(s, m + 1, m + n)[i] = s[m + i]
  OBVIOUS

(* A table of n bytes is a sequence of length n.                           *)
LEMMA TableBytes ==
  ASSUME NEW n \in Nat, NEW t \in [1..n -> Byte]
  PROVE  t \in Seq(Byte) /\ Len(t) = n
  OBVIOUS

(* What is appended follows what was there.                                *)
LEMMA ConcatTail ==
  ASSUME NEW s \in Seq(Byte), NEW t \in Seq(Byte), NEW i \in 1..Len(t)
  PROVE  (s \o t)[Len(s) + i] = t[i]
  OBVIOUS

(* Two sequences with the same bytes at the same places are one.           *)
LEMMA SameBytes ==
  ASSUME NEW s \in Seq(Byte), NEW t \in Seq(Byte), Len(s) = Len(t),
         \A i \in 1..Len(s) : s[i] = t[i]
  PROVE  s = t
  OBVIOUS

(* The end of a longer sequence is the end of the shorter one, and what    *)
(* was appended.                                                           *)
LEMMA SliceExtends ==
  ASSUME NEW s \in Seq(Byte), NEW t \in Seq(Byte), NEW m \in Nat, m <= Len(s)
  PROVE  SubSeq(s \o t, m + 1, Len(s) + Len(t)) = SubSeq(s, m + 1, Len(s)) \o t
<1>1. /\ Len(s) \in Nat /\ Len(t) \in Nat
      /\ s \o t \in Seq(Byte) /\ Len(s \o t) = Len(s) + Len(t)
  BY ConcatBytes
<1>2. PICK n \in Nat : m + n = Len(s) /\ m + (n + Len(t)) = Len(s) + Len(t)
  <2>1. Len(s) - m \in Nat /\ m + (Len(s) - m) = Len(s)
    BY <1>1
  <2>2. m + ((Len(s) - m) + Len(t)) = Len(s) + Len(t)
    BY <1>1
  <2> QED
    BY <2>1, <2>2
<1> DEFINE whole == SubSeq(s \o t, m + 1, m + (n + Len(t)))
           tail == SubSeq(s, m + 1, m + n)
<1>3. /\ whole \in Seq(Byte) /\ Len(whole) = n + Len(t)
      /\ \A i \in 1..(n + Len(t)) : whole[i] = (s \o t)[m + i]
  <2>1. n + Len(t) \in Nat /\ m + (n + Len(t)) <= Len(s \o t)
    BY <1>1, <1>2
  <2>2. PICK u \in Seq(Byte), k \in Nat : /\ u = s \o t /\ k = n + Len(t)
                                         /\ m + k <= Len(u)
    BY <1>1, <2>1
  <2>3. /\ SubSeq(u, m + 1, m + k) \in Seq(Byte)
        /\ Len(SubSeq(u, m + 1, m + k)) = k
        /\ \A i \in 1..k : SubSeq(u, m + 1, m + k)[i] = u[m + i]
    <3>1. m \in Nat /\ m + k <= Len(u)
      BY <2>2
    <3> QED
      BY <3>1, SliceBytes
  <2> QED
    BY <2>2, <2>3
<1>4. /\ tail \in Seq(Byte) /\ Len(tail) = n
      /\ \A i \in 1..n : tail[i] = s[m + i]
  <2>1. m + n <= Len(s)
    BY <1>1, <1>2
  <2> QED
    BY <2>1, SliceBytes
<1> HIDE DEF whole, tail
<1>5. ASSUME NEW i \in 1..(n + Len(t))
      PROVE  whole[i] = (tail \o t)[i]
  <2>1. CASE i <= n
    <3>1. i \in 1..n /\ m + i \in 1..Len(s)
      BY <1>1, <1>2, <2>1
    <3>2. (tail \o t)[i] = tail[i] /\ (s \o t)[m + i] = s[m + i]
      BY <1>4, <3>1, ConcatBytes
    <3> QED
      BY <1>3, <1>4, <3>1, <3>2
  <2>2. CASE ~(i <= n)
    <3> DEFINE k == i - n
    <3>1. i \in Nat /\ i > n /\ i <= n + Len(t)
      BY <1>1, <2>2
    <3>2. k \in 1..Len(t) /\ i = n + k
      BY <1>1, <3>1
    <3>3. m + i = Len(s) + k
      BY <1>1, <1>2, <3>1, SMTT(20)
    <3> HIDE DEF k
    <3>4. (s \o t)[Len(s) + k] = t[k] /\ (tail \o t)[Len(tail) + k] = t[k]
      BY <1>4, <3>2, ConcatTail
    <3> QED
      BY <1>3, <1>4, <3>2, <3>3, <3>4
  <2> QED
    BY <2>1, <2>2
<1>6. tail \o t \in Seq(Byte) /\ Len(tail \o t) = n + Len(t)
  BY <1>4, ConcatBytes
<1>7. whole = tail \o t
  BY <1>3, <1>5, <1>6, SameBytes
<1> QED
  BY <1>2, <1>7 DEF whole, tail

(* What cmp::min is used for: a chunk is not empty, fits the buffer and is *)
(* no more than what is left.                                              *)
LEMMA MinimumProperties ==
  ASSUME NEW m \in Nat \ {0}, NEW n \in Nat \ {0}
  PROVE  Minimum(m, n) \in 1..n /\ Minimum(m, n) <= m
  BY DEF Minimum

(* Every chunk a copy loop asks for is at least one byte, fits scratch,    *)
(* and stays within the instruction.                                       *)
LEMMA ChunkBounds ==
  ASSUME TypeOK, Arguments, Busy, copied < op.size, Stage # "repeat"
  PROVE  /\ ReadLen \in 1..IO_BUFFER_SIZE
         /\ copied + ReadLen <= op.size
         /\ ReadStart \in Nat
         /\ ReadStart = op.start + copied
         /\ Repeats => ReadLen = distance /\ copied = 0
<1>1. op.start \in Nat /\ op.size \in Nat /\ op.base \in Nat /\ copied \in Nat
  BY DEF TypeOK, Operation
<1>2. CASE Repeats
  <2>1. copied = 0 /\ op.start < op.base
    BY <1>2 DEF Arguments, Repeats
  <2> QED
    BY <1>1, <1>2, <2>1 DEF Repeats, ReadLen, distance, ReadStart
<1>3. CASE ~Repeats
  <2>1. op.size - copied \in Nat \ {0}
    BY <1>1
  <2>2. ReadLen = Minimum(op.size - copied, IO_BUFFER_SIZE)
    BY <1>3 DEF ReadLen
  <2>3. ReadLen \in 1..IO_BUFFER_SIZE /\ ReadLen <= op.size - copied
    BY <2>1, <2>2, MinimumProperties
  <2> QED
    BY <1>1, <1>3, <2>3 DEF ReadStart
<1> QED
  BY <1>2, <1>3

(* The source of a chunk lies wholly before the bytes it is copied to,     *)
(* unless the copy repeats itself.                                         *)
LEMMA SourceBefore ==
  ASSUME TypeOK, Arguments, Busy, Stage # "repeat", copied < op.size,
         op.kind \in {"target", "current"}
  PROVE  op.start + copied + ReadLen <= op.base + copied
<1>1. /\ op.start \in Nat /\ op.size \in Nat /\ op.base \in Nat
      /\ copied \in Nat /\ window_start \in Nat
  BY DEF TypeOK, Operation, Position
<1>2. /\ ReadLen \in 1..IO_BUFFER_SIZE
      /\ copied + ReadLen <= op.size
      /\ Repeats => ReadLen = distance /\ copied = 0
  BY ChunkBounds
<1>3. /\ window_start <= op.base
      /\ op.kind = "target" => op.start + op.size <= window_start
      /\ op.kind = "current" => op.start < op.base
  BY DEF Arguments
<1>4. ReadLen \in Nat /\ ReadLen <= IO_BUFFER_SIZE /\ ReadLen <= op.size
  BY <1>1, <1>2
<1>5. op.start + ReadLen <= op.base
  <2>1. CASE op.kind = "target"
    BY <1>1, <1>3, <1>4, <2>1
  <2>2. CASE op.kind = "current" /\ Repeats
    BY <1>1, <1>2, <2>2 DEF distance
  <2>3. CASE op.kind = "current" /\ ~Repeats /\ op.size <= distance
    BY <1>1, <1>4, <2>3 DEF distance
  <2>4. CASE op.kind = "current" /\ ~Repeats /\ ~(op.size <= distance)
    <3>1. distance \in Int /\ distance > IO_BUFFER_SIZE
      BY <1>1, <2>4 DEF Repeats, distance
    <3> QED
      BY <1>1, <1>4, <3>1 DEF distance
  <2> QED
    BY <2>1, <2>2, <2>3, <2>4
<1> QED
  BY <1>1, <1>4, <1>5

(* A read-back lies inside the bytes decoded so far, also when the copy    *)
(* overlaps its own output and when its chunks follow one another at a     *)
(* distance larger than the buffer.                                        *)
LEMMA ReadBounds ==
  ASSUME TypeOK, Arguments, Loops, Fetching
  PROVE  /\ ReadStart \in Nat /\ ReadLen \in 1..IO_BUFFER_SIZE
         /\ ReadStart + ReadLen <= logical_len
         /\ logical_len \in Nat /\ logical_len <= MaxTarget
<1>1. /\ op.start \in Nat /\ op.size \in Nat /\ op.base \in Nat
      /\ copied \in Nat /\ window_start \in Nat
      /\ logical_len \in Nat /\ logical_len <= MaxTarget
  BY DEF TypeOK, Operation, Position
<1>2. Busy /\ Stage # "repeat" /\ Stage # "emit"
  BY DEF Fetching, Busy
<1>3. copied < op.size /\ op.kind \in {"target", "current"}
  BY DEF Loops
<1>4. /\ ReadLen \in 1..IO_BUFFER_SIZE
      /\ copied + ReadLen <= op.size
      /\ ReadStart = op.start + copied
      /\ Repeats => ReadLen = distance /\ copied = 0
  BY <1>2, <1>3, ChunkBounds
<1>5. logical_len = op.base + copied
  BY <1>1, <1>2 DEF Arguments
<1>6. op.start + copied + ReadLen <= op.base + copied
  BY <1>2, <1>3, SourceBefore
<1>7. ReadStart + ReadLen <= logical_len
  BY <1>1, <1>4, <1>5, <1>6
<1> QED
  BY <1>1, <1>4, <1>7

(* The slice given to emit stays within the instruction, and the           *)
(* instruction within max_target_size.                                     *)
LEMMA EmitBounds ==
  ASSUME TypeOK, Arguments, Loops, Stage = "emit"
  PROVE  /\ slice \in Seq(Byte) /\ Len(slice) \in Nat
         /\ sent <= Len(slice)
         /\ copied + Len(slice) <= op.size
         /\ op.base + (copied + Len(slice)) <= MaxTarget
         /\ logical_len = op.base + copied + sent
<1>1. op.size \in Nat /\ op.base \in Nat /\ copied \in Nat /\ op.data \in Seq(Byte)
  BY DEF TypeOK, Operation
<1>2. Busy /\ Stage # "repeat"
  BY DEF Busy
<1>3. slice \in Seq(Byte) /\ Len(slice) \in Nat
  BY <1>1 DEF slice, TypeOK
<1>4. copied + Len(slice) <= op.size
  <2>1. CASE op.kind = "add"
    BY <1>1, <1>2, <2>1 DEF Loops, Arguments, slice
  <2>2. CASE op.kind # "add"
    <3>1. copied < op.size /\ Len(scratch) = ReadLen
      BY <2>2 DEF Loops
    <3>2. copied + ReadLen <= op.size
      BY <1>2, <3>1, ChunkBounds
    <3> QED
      BY <2>2, <3>1, <3>2 DEF slice
  <2> QED
    BY <2>1, <2>2
<1>5. op.base + op.size <= MaxTarget
  BY <1>2 DEF Arguments
<1> QED
  BY <1>1, <1>2, <1>3, <1>4, <1>5 DEF Loops, Arguments

(* One turn of emit appends the next bytes of the slice.                   *)
LEMMA EmitTurn ==
  ASSUME IInv, Emit
  PROVE  \E count \in Nat \ {0} :
           /\ count <= Room /\ sent + count <= Len(slice)
           /\ SubSeq(slice, sent + 1, sent + count) \in Seq(Byte)
           /\ Len(SubSeq(slice, sent + 1, sent + count)) = count
           /\ \A k \in 1..count :
                SubSeq(slice, sent + 1, sent + count)[k] = slice[sent + k]
           /\ Buffer(SubSeq(slice, sent + 1, sent + count))
           /\ sent' = sent + count
<1> DEFINE count == Minimum(Room, Len(slice) - sent)
<1>1. slice \in Seq(Byte) /\ Len(slice) \in Nat /\ sent \in Nat
  BY EmitBounds DEF IInv, Emit, Stage, TypeOK
<1>2. Room \in Nat \ {0} /\ Len(slice) - sent \in Nat \ {0}
  BY <1>1 DEF IInv, Emit, Room, TypeOK
<1>3. count \in Nat \ {0} /\ count <= Room /\ count <= Len(slice) - sent
  <2>1. ASSUME NEW m \in Nat \ {0}, NEW n \in Nat \ {0}
        PROVE  Minimum(m, n) \in Nat \ {0} /\ Minimum(m, n) <= m /\ Minimum(m, n) <= n
    BY DEF Minimum
  <2> QED
    BY <1>2, <2>1
<1>4. Buffer(SubSeq(slice, sent + 1, sent + count)) /\ sent' = sent + count
  BY DEF Emit
<1> HIDE DEF count
<1>5. sent + count <= Len(slice)
  BY <1>1, <1>3
<1>6. /\ SubSeq(slice, sent + 1, sent + count) \in Seq(Byte)
      /\ Len(SubSeq(slice, sent + 1, sent + count)) = count
      /\ \A k \in 1..count :
           SubSeq(slice, sent + 1, sent + count)[k] = slice[sent + k]
  BY <1>1, <1>3, <1>5, SliceBytes
<1> QED
  BY <1>3, <1>4, <1>5, <1>6

(* One turn of emit_repeated_scratch appends the next bytes of the         *)
(* repeated seed.                                                          *)
LEMMA RepeatTurn ==
  ASSUME IInv, EmitRepeated
  PROVE  /\ distance \in Nat \ {0} /\ Len(scratch) = distance
         /\ op.start \in Nat /\ op.base \in Nat /\ copied \in Nat /\ logical_len \in Nat
         /\ op.base = op.start + distance /\ logical_len = op.base + copied
         /\ op.kind = "current"
         /\ \E count \in Nat \ {0}, bytes \in Seq(Byte) :
              /\ Len(bytes) = count /\ count <= Room
              /\ \A k \in 1..count :
                   bytes[k] = scratch[((copied + (k - 1)) % distance) + 1]
              /\ Buffer(bytes)
              /\ copied' = copied + count /\ copied + count <= op.size
<1> DEFINE count == Minimum(Room, op.size - copied)
           phase == copied % Len(scratch)
           bytes == [i \in 1..count |->
                       scratch[((phase + (i - 1)) % Len(scratch)) + 1]]
<1>1. /\ copied \in Nat /\ op.base \in Nat /\ op.size \in Nat /\ logical_len \in Nat
      /\ op.start \in Nat /\ pending \in Seq(Byte) /\ scratch \in Seq(Byte)
  BY DEF IInv, TypeOK, Operation, Position
<1>2. Room \in Nat \ {0} /\ op.size - copied \in Nat \ {0}
  <2>1. Room > 0 /\ copied < op.size
    BY DEF EmitRepeated
  <2>2. Len(pending) \in Nat
    BY <1>1
  <2> QED
    BY <1>1, <2>1, <2>2 DEF Room
<1>3. count \in Nat \ {0} /\ count <= Room /\ copied + count <= op.size
  <2>1. count \in Nat \ {0} /\ count <= Room /\ count <= op.size - copied
    BY <1>2 DEF Minimum
  <2> HIDE DEF count
  <2> QED
    BY <1>1, <2>1
<1>4. Busy /\ Stage = "repeat"
  BY DEF EmitRepeated, Busy, Stage
<1>5. /\ logical_len = op.base + copied + sent /\ sent = 0
      /\ Repeats /\ Len(scratch) = distance
  BY <1>4 DEF IInv, Arguments, Loops
<1>6. op.kind = "current" /\ op.start < op.base
  BY <1>4, <1>5 DEF IInv, Arguments, Repeats
<1>7. distance \in Nat \ {0} /\ op.base = op.start + distance
  BY <1>1, <1>6 DEF distance
<1>8. Buffer(bytes) /\ copied' = copied + count
  BY DEF EmitRepeated
<1>9. ASSUME NEW k \in 1..count
      PROVE  /\ ((phase + (k - 1)) % distance) + 1 \in 1..Len(scratch)
             /\ (phase + (k - 1)) % distance = (copied + (k - 1)) % distance
  <2>1. k - 1 \in Nat
    BY <1>3
  <2>2. phase \in Nat
    BY <1>1, <1>5, <1>7, ModRange
  <2>3. (phase + (k - 1)) % distance \in 0..(distance - 1)
    <3>1. phase + (k - 1) \in Nat
      BY <2>1, <2>2
    <3> QED
      BY <1>7, <3>1, ModRange
  <2>4. (phase + (k - 1)) % distance = (copied + (k - 1)) % distance
    <3>1. phase = copied % distance
      BY <1>5
    <3> HIDE DEF phase
    <3>2. ((copied % distance) + (k - 1)) % distance = (copied + (k - 1)) % distance
      <4>1. \A y \in Nat : ((copied % distance) + y) % distance = (copied + y) % distance
        <5>1. copied \in Nat /\ distance \in Nat \ {0}
          BY <1>1, <1>7
        <5> QED
          BY <5>1, PhaseAdds
      <4> QED
        BY <2>1, <4>1
    <3> QED
      BY <3>1, <3>2
  <2> QED
    BY <1>5, <1>7, <2>3, <2>4
<1>10. \A k \in 1..count : bytes[k] = scratch[((copied + (k - 1)) % distance) + 1]
  BY <1>5, <1>9
<1>11. bytes \in Seq(Byte) /\ Len(bytes) = count
  <2>1. \A k \in 1..count : scratch[((phase + (k - 1)) % Len(scratch)) + 1] \in Byte
    BY <1>1, <1>5, <1>9
  <2>2. bytes \in [1..count -> Byte]
    BY <2>1
  <2> HIDE DEF bytes
  <2> QED
    BY <1>3, <2>2, TableBytes
<1> HIDE DEF count, bytes
<1>12. \E n \in Nat \ {0}, s \in Seq(Byte) :
         /\ Len(s) = n /\ n <= Room
         /\ \A k \in 1..n : s[k] = scratch[((copied + (k - 1)) % distance) + 1]
         /\ Buffer(s)
         /\ copied' = copied + n /\ copied + n <= op.size
  BY <1>3, <1>8, <1>10, <1>11
<1>13. logical_len = op.base + copied
  BY <1>1, <1>5
<1> QED
  BY <1>1, <1>5, <1>6, <1>7, <1>12, <1>13, Zenon

(* What emit and emit_repeated_scratch do to the buffer.                   *)
LEMMA BufferStep ==
  ASSUME IInv, pc \in {"emit", "repeat"},
         NEW bytes \in Seq(Byte), Buffer(bytes),
         Len(bytes) <= Room, logical_len + Len(bytes) <= MaxTarget,
         UNCHANGED <<physical_pos, window, written, pc, ret, target>>
  PROVE  /\ pending' \in Seq(Byte) /\ Len(pending') <= IO_BUFFER_SIZE
         /\ adler' \in Seq(Byte)
         /\ logical_len' \in Position /\ logical_len' = logical_len + Len(bytes)
         /\ Positions' /\ Contents'
<1>1. /\ pending \in Seq(Byte) /\ Len(pending) \in Nat /\ adler \in Seq(Byte)
      /\ logical_len \in Nat /\ window_start \in Nat /\ file_pos \in Nat
      /\ Len(bytes) \in Nat
  BY DEF IInv, TypeOK, Position
<1>2. /\ pending' = pending \o bytes /\ adler' = adler \o bytes
      /\ logical_len' = logical_len + Len(bytes)
  BY DEF Buffer
<1>3. /\ pending' \in Seq(Byte) /\ Len(pending') = Len(pending) + Len(bytes)
      /\ adler' \in Seq(Byte)
  BY <1>1, <1>2, ConcatBytes
<1>4. Len(pending') <= IO_BUFFER_SIZE
  BY <1>1, <1>3 DEF Room
<1>5. logical_len' \in Position
  BY <1>1, <1>2 DEF Position
<1>6. drained' = drained /\ written' = 0 /\ written = 0
  BY <1>1, <1>2, <1>3 DEF drained, IInv, Positions
<1>7. Positions'
  BY <1>1, <1>2, <1>3, <1>6 DEF IInv, Positions
<1>8. Contents'
  BY <1>6 DEF IInv, Contents
<1> QED
  BY <1>2, <1>3, <1>4, <1>5, <1>7, <1>8

(* Any operation called with validated arguments starts with the           *)
(* invariant.                                                              *)
LEMMA CallStep ==
  ASSUME IInv,
         NEW o \in Operation, NEW first \in {"emit", "chunk", "sourceSeek"},
         Call(o, first),
         o.base = logical_len,
         o.kind # "none",
         o.kind = "add"     => first = "emit" /\ o.size = Len(o.data),
         o.kind = "run"     => first = "chunk" /\ Len(o.data) = 1,
         o.kind = "source"  => first = "sourceSeek" /\ o.start + o.size <= Len(Source),
         o.kind = "target"  => first = "chunk" /\ o.start + o.size <= window_start,
         o.kind = "current" => /\ first = "chunk"
                               /\ window_start <= o.start /\ o.start < logical_len
  PROVE  IInv'
<1> USE DEF IInv, Call
<1>1. o.size \in Nat /\ o.size <= MaxTarget
  BY SMTT(20) DEF TypeOK, Operation, Position
<1>2. o.data \in Seq(Byte) /\ o.start \in Nat /\ o.base \in Nat /\ o.kind \in Kind
  BY DEF Operation
<1>3. TypeOK'
  BY <1>1 DEF TypeOK, Position, Place
<1>4. Quiet'
  BY DEF Quiet, Stage
<1>5. Arguments'
  BY <1>1, <1>2 DEF Arguments, Stage, Busy, Repeats, Positions, TypeOK, Position
<1>6. Loops'
  <2>1. o.kind = "add" \/ first # "emit"
    BY <1>2 DEF Kind
  <2> QED
    BY <1>1, <1>2, <2>1 DEF Loops, Stage, Fetching, Repeats, slice, Kind
<1>7. Positions'
  BY DEF Positions, drained
<1>8. Contents'
  BY DEF Contents, drained
<1>9. NoSpuriousFailure'
  BY DEF NoSpuriousFailure
<1> QED
  BY <1>3, <1>4, <1>5, <1>6, <1>7, <1>8, <1>9

(* ADD hands its literal data to emit.                                     *)
LEMMA AddStep == ASSUME IInv, Add PROVE IInv'
<1>1. PICK bytes \in Literal :
        Call(Args("add", bytes, 0, Len(bytes)), "emit")
  BY DEF Add
<1>2. bytes \in Seq(Byte) /\ Len(bytes) \in Nat
  BY DEF Position
<1>3. logical_len \in Nat
  BY DEF IInv, TypeOK, Position
<1> DEFINE o == Args("add", bytes, 0, Len(bytes))
<1>4. o \in Operation /\ o.kind = "add" /\ o.data = bytes /\ o.size = Len(bytes) /\ o.base = logical_len
  BY <1>2, <1>3 DEF Args, Operation, Kind
<1>5. Call(o, "emit")
  BY <1>1
<1> HIDE DEF o
<1> QED
  BY <1>1, <1>4, <1>5, CallStep

(* RUN fills scratch with its byte.                                        *)
LEMMA RunStep == ASSUME IInv, Run PROVE IInv'
<1>1. PICK byte \in Byte, size \in Position :
        Call(Args("run", <<byte>>, 0, size), "chunk")
  BY DEF Run
<1>2. <<byte>> \in Seq(Byte) /\ Len(<<byte>>) = 1 /\ size \in Nat
  BY DEF Position
<1>3. logical_len \in Nat
  BY DEF IInv, TypeOK, Position
<1> DEFINE o == Args("run", <<byte>>, 0, size)
<1>4. o \in Operation /\ o.kind = "run" /\ Len(o.data) = 1 /\ o.base = logical_len
  BY <1>2, <1>3 DEF Args, Operation, Kind
<1>5. Call(o, "chunk")
  BY <1>1
<1> HIDE DEF o
<1> QED
  BY <1>1, <1>4, <1>5, CallStep

(* A COPY from a source segment begins with a seek.                        *)
LEMMA CopyFromSourceStep == ASSUME IInv, CopyFromSource PROVE IInv'
<1>1. PICK start \in 0..Len(Source), size \in 0..Len(Source) :
        /\ start + size <= Len(Source)
        /\ Call(Args("source", << >>, start, size), "sourceSeek")
  BY DEF CopyFromSource
<1>2. << >> \in Seq(Byte) /\ start \in Nat /\ size \in Nat
  BY DEF Position
<1>3. logical_len \in Nat
  BY DEF IInv, TypeOK, Position
<1> DEFINE o == Args("source", << >>, start, size)
<1>4. o \in Operation /\ o.kind = "source" /\ o.start = start /\ o.size = size /\ o.base = logical_len
  BY <1>2, <1>3 DEF Args, Operation, Kind
<1>5. Call(o, "sourceSeek")
  BY <1>1
<1> HIDE DEF o
<1> QED
  BY <1>1, <1>4, <1>5, CallStep

(* A COPY from a target segment reads an earlier window.                   *)
LEMMA CopyFromTargetStep == ASSUME IInv, CopyFromTarget PROVE IInv'
<1>1. PICK start \in Position, size \in Position :
        /\ start + size <= window_start
        /\ Call(Args("target", << >>, start, size), "chunk")
  BY DEF CopyFromTarget
<1>2. << >> \in Seq(Byte) /\ start \in Nat /\ size \in Nat
  BY DEF Position
<1>3. logical_len \in Nat
  BY DEF IInv, TypeOK, Position
<1> DEFINE o == Args("target", << >>, start, size)
<1>4. o \in Operation /\ o.kind = "target" /\ o.start = start /\ o.size = size /\ o.base = logical_len
  BY <1>2, <1>3 DEF Args, Operation, Kind
<1>5. Call(o, "chunk")
  BY <1>1
<1> HIDE DEF o
<1> QED
  BY <1>1, <1>4, <1>5, CallStep

(* A COPY from the current window reads behind its own output.             *)
LEMMA CopyFromCurrentStep == ASSUME IInv, CopyFromCurrent PROVE IInv'
<1>1. PICK start \in Position, size \in Position :
        /\ window_start <= start /\ start < logical_len
        /\ Call(Args("current", << >>, start, size), "chunk")
  BY DEF CopyFromCurrent
<1>2. << >> \in Seq(Byte) /\ start \in Nat /\ size \in Nat
  BY DEF Position
<1>3. logical_len \in Nat
  BY DEF IInv, TypeOK, Position
<1> DEFINE o == Args("current", << >>, start, size)
<1>4. o \in Operation /\ o.kind = "current" /\ o.start = start /\ o.size = size /\ o.base = logical_len
  BY <1>2, <1>3 DEF Args, Operation, Kind
<1>5. Call(o, "chunk")
  BY <1>1
<1> HIDE DEF o
<1> QED
  BY <1>1, <1>4, <1>5, CallStep


(* begin_window resets the checksum and the window's base.                 *)
LEMMA BeginWindowStep == ASSUME IInv, BeginWindow PROVE IInv'
<1> USE DEF IInv, BeginWindow
<1>1. TypeOK'
  BY EmptySequence, NoOpProperties DEF TypeOK, Place, Rest, Position
<1>2. Quiet' /\ NoSpuriousFailure'
  BY DEF TypeOK, Quiet, Stage, NoSpuriousFailure
<1>3. Arguments'
  BY DEF Arguments, Stage, Busy, Repeats, distance
<1>4. Loops'
  BY DEF Arguments, Loops, Busy, Stage, Fetching, Repeats, distance, ReadLen, ReadStart, slice
<1>5. Positions'
  BY DEF TypeOK, Positions, drained, ReadStart, Position
<1>6. Contents'
  BY DEF Contents, Positions, drained
<1> QED
  BY <1>1, <1>2, <1>3, <1>4, <1>5, <1>6

(* finish_window enters drain_pending, with no operation under way.        *)
LEMMA FinishWindowStep == ASSUME IInv, FinishWindow PROVE IInv'
<1> USE DEF IInv, FinishWindow
<1>1. TypeOK'
  BY DEF TypeOK, Place, Rest, Position
<1>2. Quiet' /\ NoSpuriousFailure'
  BY DEF TypeOK, Quiet, Stage, NoSpuriousFailure
<1>3. Arguments'
  BY DEF Arguments, Stage, Busy, Repeats, distance
<1>4. Loops'
  BY DEF Arguments, Loops, Busy, Stage, Fetching, Repeats, distance, ReadLen, ReadStart, slice
<1>5. Positions'
  BY DEF TypeOK, Positions, drained, ReadStart, Position
<1>6. Contents'
  BY DEF Contents, Positions, drained
<1> QED
  BY <1>1, <1>2, <1>3, <1>4, <1>5, <1>6

(* finish enters its drain after the last window.                          *)
LEMMA FinishStep == ASSUME IInv, Finish PROVE IInv'
<1> USE DEF IInv, Finish
<1>1. TypeOK'
  BY DEF TypeOK, Place, Rest, Position
<1>2. Quiet' /\ NoSpuriousFailure'
  BY DEF TypeOK, Quiet, Stage, NoSpuriousFailure
<1>3. Arguments'
  BY DEF Arguments, Stage, Busy, Repeats, distance
<1>4. Loops'
  BY DEF Arguments, Loops, Busy, Stage, Fetching, Repeats, distance, ReadLen, ReadStart, slice
<1>5. Positions'
  BY DEF TypeOK, Positions, drained, ReadStart, Position
<1>6. Contents'
  BY DEF Contents, Positions, drained
<1> QED
  BY <1>1, <1>2, <1>3, <1>4, <1>5, <1>6

(* The decoder may drop the writer between two operations.                 *)
LEMMA RejectStep == ASSUME IInv, Reject PROVE IInv'
<1> USE DEF IInv, Reject
<1>1. TypeOK'
  BY DEF TypeOK, Place, Rest, Position
<1>2. Quiet' /\ NoSpuriousFailure'
  BY DEF TypeOK, Quiet, Stage, NoSpuriousFailure
<1>3. Arguments'
  BY DEF Arguments, Stage, Busy, Repeats, distance
<1>4. Loops'
  BY DEF Arguments, Loops, Busy, Stage, Fetching, Repeats, distance, ReadLen, ReadStart, slice
<1>5. Positions'
  BY DEF TypeOK, Positions, drained, ReadStart, Position
<1>6. Contents'
  BY DEF Contents, Positions, drained
<1> QED
  BY <1>1, <1>2, <1>3, <1>4, <1>5, <1>6

(* A chunk of a RUN fits scratch and what the instruction still owes.      *)
LEMMA RunChunkStep == ASSUME IInv, RunChunk PROVE IInv'
<1>0. /\ ReadLen \in 1..IO_BUFFER_SIZE
      /\ scratch' \in Seq(Byte) /\ Len(scratch') = ReadLen
  <2>1. ReadLen \in 1..IO_BUFFER_SIZE
    BY ChunkBounds DEF IInv, RunChunk, ChunkOf, Busy, Stage
  <2>2. op.data[1] \in Byte
    BY DEF IInv, RunChunk, ChunkOf, Arguments, Busy, Stage, TypeOK, Operation
  <2>3. [i \in 1..ReadLen |-> op.data[1]] \in [1..ReadLen -> Byte]
    BY <2>2
  <2>4. scratch' = [i \in 1..ReadLen |-> op.data[1]]
    BY DEF RunChunk
  <2> QED
    BY <2>1, <2>3, <2>4, TableBytes
<1> USE DEF IInv, RunChunk, ChunkOf
<1>1. TypeOK'
  BY <1>0 DEF TypeOK, Place
<1>2. Quiet' /\ NoSpuriousFailure'
  BY DEF TypeOK, Quiet, Stage, NoSpuriousFailure
<1>3. Arguments'
  BY DEF Arguments, Stage, Busy, Repeats, distance
<1>4. Loops'
  BY <1>0 DEF Loops, Stage, Fetching, Repeats, ReadLen, distance, slice, TypeOK
<1>5. Positions'
  BY DEF TypeOK, Positions, drained, ReadStart, Position
<1>6. Contents'
  BY DEF Contents, Positions, drained
<1> QED
  BY <1>1, <1>2, <1>3, <1>4, <1>5, <1>6

(* A chunk of a source COPY begins where the last one ended.               *)
LEMMA SourceChunkStep == ASSUME IInv, SourceChunk PROVE IInv'
<1> USE DEF IInv, SourceChunk, ChunkOf
<1>1. TypeOK'
  BY EmptySequence, NoOpProperties DEF TypeOK, Place, Rest, Position
<1>2. Quiet' /\ NoSpuriousFailure'
  BY DEF TypeOK, Quiet, Stage, NoSpuriousFailure
<1>3. Arguments'
  BY DEF Arguments, Stage, Busy, Repeats, distance
<1>4. Loops'
  <2>1. ReadLen \in 1..IO_BUFFER_SIZE /\ ReadStart \in Nat
    BY ChunkBounds DEF Busy, Stage
  <2>2. ReadLen' = ReadLen /\ ReadStart' = ReadStart
    BY DEF ReadLen, Repeats, distance, ReadStart
  <2>3. source_pos = ReadStart
    BY DEF Loops, Stage
  <2> QED
    BY <2>1, <2>2, <2>3, EmptySequence DEF Loops, Stage, Fetching
<1>5. Positions'
  BY DEF TypeOK, Positions, drained, ReadStart, Position
<1>6. Contents'
  BY DEF Contents, Positions, drained
<1> QED
  BY <1>1, <1>2, <1>3, <1>4, <1>5, <1>6

(* A chunk of a target COPY begins by draining what is pending.            *)
LEMMA TargetChunkStep == ASSUME IInv, TargetChunk PROVE IInv'
<1> USE DEF IInv, TargetChunk, ChunkOf
<1>1. TypeOK'
  BY EmptySequence, NoOpProperties DEF TypeOK, Place, Rest, Position
<1>2. Quiet' /\ NoSpuriousFailure'
  BY DEF TypeOK, Quiet, Stage, NoSpuriousFailure
<1>3. Arguments'
  BY DEF Arguments, Stage, Busy, Repeats, distance
<1>4. Loops'
  <2>1. ReadLen \in 1..IO_BUFFER_SIZE
    BY ChunkBounds DEF Busy, Stage
  <2>2. ReadLen' = ReadLen
    BY DEF ReadLen, Repeats, distance
  <2> QED
    BY <2>1, <2>2, EmptySequence DEF Loops, Stage, Fetching
<1>5. Positions'
  BY DEF TypeOK, Positions, drained, ReadStart, Position
<1>6. Contents'
  BY DEF Contents, Positions, drained
<1> QED
  BY <1>1, <1>2, <1>3, <1>4, <1>5, <1>6

(* An operation returns when it has emitted all of its bytes.              *)
LEMMA ReturnStep == ASSUME IInv, Return PROVE IInv'
<1> USE DEF IInv, Return
<1>1. TypeOK'
  BY EmptySequence, NoOpProperties DEF TypeOK, Place, Rest, Position
<1>2. Quiet' /\ NoSpuriousFailure'
  BY DEF TypeOK, Quiet, Stage, NoSpuriousFailure
<1>3. Arguments'
  BY DEF Arguments, Stage, Busy, Repeats, distance
<1>4. Loops'
  BY DEF Arguments, Loops, Busy, Stage, Fetching, Repeats, distance, ReadLen, ReadStart, slice
<1>5. Positions'
  BY DEF TypeOK, Positions, drained, Arguments, Busy, Stage
<1>6. Contents'
  BY DEF Contents, Positions, drained
<1> QED
  BY <1>1, <1>2, <1>3, <1>4, <1>5, <1>6

(* The seek of copy_from_source lands on a validated offset.               *)
LEMMA SourceSeekStep == ASSUME IInv, SourceSeek PROVE IInv'
<1> USE DEF IInv, SourceSeek, Fail
<1>1. TypeOK'
  <2>1. op.start \in 0..Len(Source)
    BY DEF Arguments, Loops, Busy, Stage, TypeOK, Operation
  <2> QED
    BY <2>1 DEF TypeOK, Place, Rest
<1>2. Quiet' /\ NoSpuriousFailure'
  BY DEF TypeOK, Quiet, Stage, NoSpuriousFailure
<1>3. Arguments'
  BY DEF Arguments, Stage, Busy, Repeats, distance
<1>4. Loops'
  <2>1. op.start \in Nat /\ copied = 0 /\ op.size \in Nat
    BY DEF Loops, Stage, TypeOK, Operation
  <2> QED
    BY <2>1 DEF Loops, Stage, Fetching, ReadStart
<1>5. Positions'
  BY DEF TypeOK, Positions, drained, ReadStart, Position
<1>6. Contents'
  BY DEF Contents, Positions, drained
<1> QED
  BY <1>1, <1>2, <1>3, <1>4, <1>5, <1>6

(* A short read of the source stays inside the chunk and the source, so    *)
(* the source never ends early.                                            *)
LEMMA SourceReadStep == ASSUME IInv, SourceRead PROVE IInv'
<1>a. /\ Len(scratch) \in Nat /\ source_pos \in Nat /\ Len(Source) \in Nat
      /\ op.kind = "source" /\ copied < op.size
      /\ source_pos = ReadStart + Len(scratch)
  <2>1. scratch \in Seq(Byte) /\ source_pos \in 0..Len(Source)
    BY DEF IInv, TypeOK
  <2>2. Stage = "sourceRead"
    BY DEF SourceRead, Stage
  <2> QED
    BY <2>1, <2>2 DEF IInv, Loops
<1>b. /\ ReadLen \in 1..IO_BUFFER_SIZE /\ copied + ReadLen <= op.size
      /\ ReadStart \in Nat /\ ReadStart = op.start + copied
      /\ ReadLen' = ReadLen /\ ReadStart' = ReadStart
  BY <1>a, ChunkBounds
     DEF IInv, SourceRead, Fail, Busy, Stage, ReadLen, Repeats, distance, ReadStart
<1>c. \/ /\ UNCHANGED <<scratch, source_pos>> /\ pc' = "failed"
      \/ /\ scratch' \in Seq(Byte) /\ Len(scratch') <= ReadLen
         /\ source_pos' \in 0..Len(Source) /\ source_pos' = ReadStart + Len(scratch')
         /\ pc' = "sourceRead" /\ op' = op /\ copied' = copied
  <2>1. CASE \E count \in 1..(ReadLen - Len(scratch)) :
               /\ source_pos + count <= Len(Source)
               /\ scratch' = scratch \o SubSeq(Source, source_pos + 1, source_pos + count)
               /\ source_pos' = source_pos + count
               /\ UNCHANGED <<locals, fault>>
    <3>1. PICK count \in 1..(ReadLen - Len(scratch)) :
            /\ source_pos + count <= Len(Source)
            /\ scratch' = scratch \o SubSeq(Source, source_pos + 1, source_pos + count)
            /\ source_pos' = source_pos + count
      BY <2>1
    <3>2. /\ SubSeq(Source, source_pos + 1, source_pos + count) \in Seq(Byte)
          /\ Len(SubSeq(Source, source_pos + 1, source_pos + count)) = count
      <4>1. count \in Nat /\ source_pos + count <= Len(Source)
        BY <1>a, <1>b, <3>1
      <4> QED
        BY <1>a, <4>1, SliceBytes
    <3>3. scratch' \in Seq(Byte) /\ Len(scratch') = Len(scratch) + count
      BY <3>1, <3>2, ConcatBytes DEF IInv, TypeOK
    <3>4. Len(scratch') <= ReadLen /\ source_pos' = ReadStart + Len(scratch')
      BY <1>a, <1>b, <3>1, <3>3
    <3>5. source_pos' \in 0..Len(Source)
      BY <1>a, <3>1
    <3> QED
      BY <2>1, <3>3, <3>4, <3>5 DEF SourceRead
  <2> QED
    BY <2>1 DEF SourceRead, Fail
<1>d. source_pos < Len(Source)
  <2>1. op.start + op.size <= Len(Source) /\ op.start \in Nat /\ op.size \in Nat /\ copied \in Nat
    BY <1>a DEF IInv, SourceRead, Arguments, Busy, Stage, TypeOK, Operation
  <2>2. Len(scratch) < ReadLen
    BY DEF SourceRead
  <2>3. source_pos < op.start + (copied + ReadLen)
    BY <1>a, <1>b, <2>1, <2>2, SMTT(20)
  <2>4. op.start + (copied + ReadLen) <= op.start + op.size
    BY <1>b, <2>1
  <2> QED
    BY <1>a, <1>b, <2>1, <2>3, <2>4, SMTT(20)
<1> USE DEF IInv, SourceRead, Fail
<1>1. TypeOK'
  <2>1. scratch' \in Seq(Byte) /\ Len(scratch') <= IO_BUFFER_SIZE /\ source_pos' \in 0..Len(Source)
    BY <1>a, <1>b, <1>c DEF TypeOK
  <2> QED
    BY <2>1 DEF TypeOK, Place, Rest
<1>2. Quiet' /\ NoSpuriousFailure'
  <2>1. source_pos < Len(Source)
    BY <1>d
  <2> QED
    BY <2>1, <1>a DEF Quiet, Stage, NoSpuriousFailure
<1>3. Arguments'
  BY DEF Arguments, Stage, Busy, Repeats, distance
<1>4. Loops'
  BY <1>a, <1>b, <1>c DEF Loops, Stage, Fetching
<1>5. Positions'
  BY DEF TypeOK, Positions, drained, ReadStart, Position
<1>6. Contents'
  BY DEF Contents, Positions, drained
<1> QED
  BY <1>1, <1>2, <1>3, <1>4, <1>5, <1>6

(* A complete chunk of the source goes to emit.                            *)
LEMMA SourceChunkReadStep == ASSUME IInv, SourceChunkRead PROVE IInv'
<1> USE DEF IInv, SourceChunkRead
<1>1. TypeOK'
  BY DEF TypeOK, Place, Rest, Position
<1>2. Quiet' /\ NoSpuriousFailure'
  BY DEF TypeOK, Quiet, Stage, NoSpuriousFailure
<1>3. Arguments'
  BY DEF Arguments, Stage, Busy, Repeats, distance
<1>4. Loops'
  <2>1. op.kind = "source" /\ ~Repeats /\ copied < op.size
    BY DEF Loops, Stage, Repeats
  <2>2. sent = 0 /\ Len(scratch) \in Nat
    BY DEF Arguments, Busy, Stage, TypeOK
  <2> QED
    BY <2>1, <2>2 DEF Loops, Stage, Fetching, Repeats, distance, ReadLen, ReadStart, slice
<1>5. Positions'
  BY DEF TypeOK, Positions, drained, ReadStart, Position
<1>6. Contents'
  BY DEF Contents, Positions, drained
<1> QED
  BY <1>1, <1>2, <1>3, <1>4, <1>5, <1>6

(* One turn of emit: no more than pending has room for, no more than the   *)
(* slice holds.                                                            *)
LEMMA EmitStep == ASSUME IInv, Emit PROVE IInv'
<1>a. /\ Len(slice) \in Nat /\ copied + Len(slice) <= op.size
      /\ op.base + (copied + Len(slice)) <= MaxTarget
      /\ logical_len = op.base + copied + sent
  BY EmitBounds DEF IInv, Emit, Stage
<1>b. /\ sent \in Nat /\ copied \in Nat /\ op.base \in Nat /\ logical_len \in Nat
  BY DEF IInv, TypeOK, Operation, Position
<1>c. PICK count \in Nat \ {0} :
        /\ count <= Room /\ sent + count <= Len(slice)
        /\ SubSeq(slice, sent + 1, sent + count) \in Seq(Byte)
        /\ Len(SubSeq(slice, sent + 1, sent + count)) = count
        /\ Buffer(SubSeq(slice, sent + 1, sent + count))
        /\ sent' = sent + count
  BY EmitTurn
<1>d. sent' \in Nat /\ sent' <= Len(slice)
  BY <1>b, <1>c
<1>e. logical_len + count = op.base + copied + sent'
  BY <1>a, <1>b, <1>c, SMTT(20)
<1>f. logical_len + count <= MaxTarget
  <2>1. op.base + (copied + sent') <= op.base + (copied + Len(slice))
    BY <1>a, <1>b, <1>d
  <2>2. logical_len + count = op.base + (copied + sent')
    BY <1>b, <1>d, <1>e
  <2> QED
    BY <1>a, <1>b, <1>d, <2>1, <2>2, SMTT(60)
<1>g. /\ pending' \in Seq(Byte) /\ Len(pending') <= IO_BUFFER_SIZE
      /\ adler' \in Seq(Byte)
      /\ logical_len' \in Position /\ logical_len' = logical_len + count
      /\ Positions' /\ Contents'
  <2>1. pc = "emit" /\ UNCHANGED <<physical_pos, window, written, pc, ret, target>>
    BY DEF Emit
  <2> QED
    BY <1>c, <1>f, <2>1, BufferStep
<1>h. logical_len' = op.base + copied + sent'
  BY <1>e, <1>g
<1> USE DEF IInv, Emit
<1>1. TypeOK'
  BY <1>d, <1>g DEF TypeOK, Place
<1>2. Quiet' /\ NoSpuriousFailure'
  BY DEF TypeOK, Quiet, Stage, NoSpuriousFailure
<1>3. Arguments'
  BY <1>h DEF Arguments, Stage, Busy, Repeats, distance
<1>4. Loops'
  BY <1>d DEF Loops, Stage, Fetching, Repeats, distance, ReadLen, ReadStart, slice
<1> QED
  BY <1>1, <1>2, <1>3, <1>4, <1>g

(* emit returns to the copy loop, which advances by the chunk.             *)
LEMMA EmittedStep == ASSUME IInv, Emitted PROVE IInv'
<1>a. /\ slice \in Seq(Byte) /\ Len(slice) \in Nat
      /\ copied + Len(slice) <= op.size
      /\ logical_len = op.base + copied + sent
  BY EmitBounds DEF IInv, Emitted, Stage
<1>b. copied \in Nat /\ op.base \in Nat /\ op.start \in Nat /\ ~Repeats
  BY DEF IInv, Emitted, TypeOK, Operation, Loops, Stage
<1>c. copied' \in Nat /\ copied' <= op.size /\ logical_len = op.base + copied' + 0
  BY <1>a, <1>b DEF Emitted
<1> USE DEF IInv, Emitted
<1>1. TypeOK'
  BY <1>c DEF TypeOK, Place
<1>2. Quiet' /\ NoSpuriousFailure'
  BY DEF TypeOK, Quiet, Stage, NoSpuriousFailure
<1>3. Arguments'
  BY <1>b, <1>c DEF Arguments, Stage, Busy, Repeats, distance
<1>4. Loops'
  <2>1. op.kind = "source" => source_pos = op.start + copied'
    BY <1>a, <1>b DEF Loops, Stage, ReadStart, slice
  <2> QED
    BY <1>c, <2>1 DEF Loops, Stage, Fetching, ReadStart
<1>5. Positions'
  BY DEF TypeOK, Positions, drained, ReadStart, Position
<1>6. Contents'
  BY DEF Contents, Positions, drained
<1> QED
  BY <1>1, <1>2, <1>3, <1>4, <1>5, <1>6

(* One turn of emit_repeated_scratch: the repeated bytes come from the     *)
(* seed, and no more than the COPY owes are appended.                      *)
LEMMA EmitRepeatedStep == ASSUME IInv, EmitRepeated PROVE IInv'
<1>a. /\ op.base \in Nat /\ op.size \in Nat /\ copied \in Nat /\ logical_len \in Nat
  BY DEF IInv, TypeOK, Operation, Position
<1>b. /\ sent = 0 /\ Repeats /\ Len(scratch) = distance
      /\ op.base + op.size <= MaxTarget
  BY DEF IInv, Arguments, Loops, EmitRepeated, Busy, Stage
<1>c. logical_len = op.base + copied
  BY RepeatTurn
<1>d. PICK count \in Nat \ {0}, bytes \in Seq(Byte) :
        /\ Len(bytes) = count /\ count <= Room
        /\ Buffer(bytes)
        /\ copied' = copied + count /\ copied + count <= op.size
  BY RepeatTurn
<1>e. copied' \in Nat /\ copied' <= op.size
  BY <1>a, <1>d
<1>f. logical_len + count = op.base + copied' + 0
  BY <1>a, <1>c, <1>d
<1>g. logical_len + count <= MaxTarget
  <2>1. op.base + copied' <= op.base + op.size
    BY <1>a, <1>e
  <2> QED
    BY <1>a, <1>b, <1>e, <1>f, <2>1
<1>h. /\ pending' \in Seq(Byte) /\ Len(pending') <= IO_BUFFER_SIZE
      /\ adler' \in Seq(Byte)
      /\ logical_len' \in Position /\ logical_len' = logical_len + count
      /\ Positions' /\ Contents'
  <2>1. pc = "repeat" /\ UNCHANGED <<physical_pos, window, written, pc, ret, target>>
    BY DEF EmitRepeated
  <2> QED
    BY <1>d, <1>g, <2>1, BufferStep
<1>i. logical_len' = op.base + copied' + sent
  BY <1>b, <1>f, <1>h
<1> USE DEF IInv, EmitRepeated
<1>1. TypeOK'
  BY <1>e, <1>h DEF TypeOK, Place
<1>2. Quiet' /\ NoSpuriousFailure'
  BY DEF TypeOK, Quiet, Stage, NoSpuriousFailure
<1>3. Arguments'
  BY <1>b, <1>i DEF Arguments, Stage, Busy, Repeats, distance
<1>4. Loops'
  BY <1>b, <1>e DEF Loops, Stage, Fetching, Repeats, distance
<1> QED
  BY <1>1, <1>2, <1>3, <1>4, <1>h

(* A full buffer sends the emitting loop into drain_pending.               *)
LEMMA MakeRoomStep == ASSUME IInv, MakeRoom PROVE IInv'
<1> USE DEF IInv, MakeRoom, Room
<1>1. TypeOK'
  BY DEF TypeOK, Place, Rest, Position
<1>2. Quiet' /\ NoSpuriousFailure'
  BY DEF TypeOK, Quiet, Stage, NoSpuriousFailure
<1>3. Arguments'
  BY DEF Arguments, Stage, Busy, Repeats, distance
<1>4. Loops'
  BY DEF Arguments, Loops, Busy, Stage, Fetching, Repeats, distance, ReadLen, ReadStart, slice
<1>5. Positions'
  BY DEF TypeOK, Positions, drained, ReadStart, Position
<1>6. Contents'
  BY DEF Contents, Positions, drained
<1> QED
  BY <1>1, <1>2, <1>3, <1>4, <1>5, <1>6

(* drain_pending returns at once when nothing is pending.                  *)
LEMMA NothingToDrainStep == ASSUME IInv, NothingToDrain PROVE IInv'
<1> USE DEF IInv, NothingToDrain
<1>1. TypeOK'
  BY DEF TypeOK, Place, Rest, Position
<1>2. Quiet' /\ NoSpuriousFailure'
  BY DEF TypeOK, Quiet, Stage, NoSpuriousFailure
<1>3. Arguments'
  BY DEF Arguments, Stage, Busy, Repeats, distance
<1>4. Loops'
  BY DEF Arguments, Loops, Busy, Stage, Fetching, Repeats, distance, ReadLen, ReadStart, slice
<1>5. Positions'
  BY DEF TypeOK, Positions, drained, ReadStart, Position
<1>6. Contents'
  BY DEF Contents, Positions, drained
<1> QED
  BY <1>1, <1>2, <1>3, <1>4, <1>5, <1>6

(* A drain starts with the target at the start of what is pending.         *)
LEMMA StartDrainStep == ASSUME IInv, StartDrain PROVE IInv'
<1> USE DEF IInv, StartDrain, SeekUnlessAt, SeekTarget, Fail
<1>1. TypeOK'
  <2>1. drained \in Position
    BY DEF TypeOK, Positions, drained, Position
  <2> QED
    BY <2>1 DEF TypeOK, Place, Rest, Position
<1>2. Quiet' /\ NoSpuriousFailure'
  BY DEF TypeOK, Quiet, Stage, NoSpuriousFailure
<1>3. Arguments'
  BY DEF Arguments, Stage, Busy, Repeats, distance
<1>4. Loops'
  BY DEF Arguments, Loops, Busy, Stage, Fetching, Repeats, distance, ReadLen, ReadStart, slice
<1>5. Positions'
  <2>1. drained \in Position /\ Len(pending) \in Nat /\ drained + 0 = drained
    BY DEF TypeOK, Positions, drained, Position
  <2>2. physical_pos = file_pos /\ written = 0 /\ drained <= logical_len
    BY <2>1 DEF TypeOK, Positions, drained, Position
  <2> QED
    BY <2>1, <2>2 DEF Positions, drained
<1>6. Contents'
  BY DEF Contents, Positions, drained
<1> QED
  BY <1>1, <1>2, <1>3, <1>4, <1>5, <1>6

(* A short write extends the target by the next bytes of pending and by    *)
(* nothing else.                                                           *)
LEMMA WriteStep == ASSUME IInv, Write PROVE IInv'
<1>a. /\ pending \in Seq(Byte) /\ Len(pending) \in Nat /\ written \in Nat
      /\ logical_len \in Nat /\ logical_len <= MaxTarget
      /\ drained \in Nat /\ drained + Len(pending) = logical_len
      /\ file_pos = drained + written /\ physical_pos = file_pos
  BY DEF IInv, Write, TypeOK, Positions, drained, Position
<1>b. \/ /\ UNCHANGED <<file, file_pos, physical_pos, written>> /\ pc' = "failed"
      \/ \E count \in 1..(Len(pending) - written) :
          /\ file' = Stored(SubSeq(pending, written + 1, written + count))
          /\ file_pos' = file_pos + count
          /\ physical_pos' = physical_pos + count
          /\ written' = written + count
          /\ pc' = pc
  BY DEF Write, Fail
<1>c. ASSUME NEW count \in 1..(Len(pending) - written),
             file' = Stored(SubSeq(pending, written + 1, written + count)),
             file_pos' = file_pos + count,
             written' = written + count
      PROVE  /\ file' \in [Offset -> Byte0]
             /\ file_pos' = drained + written' /\ written' <= Len(pending)
             /\ Contents'
  <2> DEFINE bytes == SubSeq(pending, written + 1, written + count)
  <2>1. count \in Nat /\ written' \in Nat /\ written' <= Len(pending)
    BY <1>a, <1>c
  <2>2. /\ bytes \in Seq(Byte) /\ Len(bytes) = count
        /\ \A i \in 1..count : bytes[i] = pending[written + i]
    BY <1>a, <2>1, <1>c, SliceBytes
  <2>3. file' = [o \in Offset |-> IF file_pos <= o /\ o < file_pos + count
                                  THEN bytes[o - file_pos + 1] ELSE file[o]]
    BY <1>c, <2>2 DEF Stored
  <2> HIDE DEF bytes
  <2>4. file' \in [Offset -> Byte0]
    <3>1. ASSUME NEW o \in Offset, file_pos <= o, o < file_pos + count
          PROVE  bytes[o - file_pos + 1] \in Byte
      BY <1>a, <2>1, <2>2, <3>1 DEF Offset
    <3> QED
      BY <2>3, <3>1 DEF IInv, TypeOK, Byte0
  <2>5. drained' = drained
    BY DEF Write, drained
  <2>6. ASSUME NEW o \in Offset
        PROVE  file'[o] # NoByte <=> o < drained + written'
    <3>1. CASE file_pos <= o /\ o < file_pos + count
      BY <1>a, <1>c, <2>1, <2>2, <2>3, <3>1 DEF Offset
    <3>2. CASE ~(file_pos <= o /\ o < file_pos + count)
      <4>1. file'[o] = file[o]
        BY <2>3, <3>2
      <4> QED
        <5>1. file[o] # NoByte <=> o < file_pos
          BY <1>a DEF IInv, Contents
        <5>2. o < file_pos + count <=> o < drained + written'
          BY <1>a, <1>c, <2>1
        <5> QED
          BY <1>a, <2>1, <3>2, <4>1, <5>1, <5>2 DEF Offset
    <3> QED
      BY <3>1, <3>2
  <2>7. ASSUME NEW i \in 1..written'
        PROVE  file'[drained + i - 1] = pending[i]
    <3>1. i \in Nat /\ i >= 1 /\ i <= Len(pending) /\ drained + i - 1 \in Offset
      BY <1>a, <2>1 DEF Offset
    <3>2. CASE i <= written
      <4>1. ~(file_pos <= drained + i - 1)
        BY <1>a, <3>1, <3>2
      <4>2. file'[drained + i - 1] = file[drained + i - 1]
        BY <2>3, <3>1, <4>1
      <4> QED
        BY <1>a, <3>1, <3>2, <4>2 DEF IInv, Contents
    <3>3. CASE ~(i <= written)
      <4> DEFINE at == drained + i - 1
      <4>1. at \in Offset /\ file_pos <= at /\ at < file_pos + count
        BY <1>a, <1>c, <2>1, <3>1, <3>3
      <4>2. (at - file_pos) + 1 = i - written /\ i - written \in 1..count
        BY <1>a, <1>c, <2>1, <3>1, <3>3
      <4> HIDE DEF at
      <4>3. file'[at] = bytes[i - written]
        BY <2>3, <4>1, <4>2
      <4>4. bytes[i - written] = pending[written + (i - written)]
        BY <2>2, <4>2
      <4>5. written + (i - written) = i
        BY <1>a, <3>1
      <4> QED
        BY <4>3, <4>4, <4>5 DEF at
    <3> QED
      BY <3>2, <3>3
  <2> QED
    <3>1. file_pos' = drained + written'
      BY <1>a, <1>c, <2>1
    <3>2. pending' = pending
      BY DEF Write
    <3> QED
      BY <2>1, <2>4, <2>5, <2>6, <2>7, <3>1, <3>2 DEF Contents
<1> USE DEF IInv, Write, Fail, Stored
<1>1. TypeOK'
  <2>1. CASE UNCHANGED <<file, file_pos, physical_pos, written>>
    BY <2>1 DEF TypeOK, Place, Rest
  <2>2. ASSUME NEW count \in 1..(Len(pending) - written),
               file' = Stored(SubSeq(pending, written + 1, written + count)),
               file_pos' = file_pos + count,
               physical_pos' = physical_pos + count,
               written' = written + count, pc' = pc
        PROVE  TypeOK'
    <3>1. file' \in [Offset -> Byte0]
      BY <1>c, <2>2
    <3>2. file_pos' \in Position /\ physical_pos' \in Position /\ written' \in Nat
      BY <1>a, <2>2 DEF Position
    <3> QED
      BY <2>2, <3>1, <3>2 DEF TypeOK
  <2> QED
    BY <1>b, <2>1, <2>2
<1>2. Quiet' /\ NoSpuriousFailure'
  BY DEF TypeOK, Quiet, Stage, NoSpuriousFailure
<1>3. Arguments'
  BY DEF Arguments, Stage, Busy, Repeats, distance
<1>4. Loops'
  BY DEF Arguments, Loops, Busy, Stage, Fetching, Repeats, distance, ReadLen, ReadStart, slice
<1>5. Positions'
  <2>1. CASE UNCHANGED <<file, file_pos, physical_pos, written>> /\ pc' = "failed"
    BY <2>1 DEF Positions, drained
  <2>2. ASSUME NEW count \in 1..(Len(pending) - written),
               file' = Stored(SubSeq(pending, written + 1, written + count)),
               file_pos' = file_pos + count,
               physical_pos' = physical_pos + count,
               written' = written + count, pc' = pc
        PROVE  Positions'
    <3>1. file_pos' = drained + written' /\ written' <= Len(pending) /\ written' \in Nat
      BY <1>a, <1>c, <2>2
    <3>2. file_pos' <= logical_len /\ physical_pos' = file_pos'
      BY <1>a, <2>2, <3>1
    <3> QED
      BY <2>2, <3>1, <3>2 DEF Positions, drained
  <2> QED
    BY <1>b, <2>1, <2>2
<1>6. Contents'
  <2>1. CASE UNCHANGED <<file, file_pos, physical_pos, written>> /\ pc' = "failed"
    BY <2>1 DEF Contents, drained
  <2> QED
    BY <1>b, <1>c, <2>1
<1> QED
  BY <1>1, <1>2, <1>3, <1>4, <1>5, <1>6

(* A finished drain leaves the whole output in the target.                 *)
LEMMA DrainedStep == ASSUME IInv, Drained PROVE IInv'
<1> USE DEF IInv, Drained
<1>1. TypeOK'
  BY EmptySequence, NoOpProperties DEF TypeOK, Place, Rest, Position
<1>2. Quiet' /\ NoSpuriousFailure'
  BY DEF TypeOK, Quiet, Stage, NoSpuriousFailure
<1>3. Arguments'
  BY DEF Arguments, Stage, Busy, Repeats, distance
<1>4. Loops'
  BY DEF Arguments, Loops, Busy, Stage, Fetching, Repeats, distance, ReadLen, ReadStart, slice
<1>5. Positions'
  BY DEF TypeOK, Positions, drained, ReadStart, Position
<1>6. Contents'
  BY <1>1, EmptySequence DEF Contents, Positions, drained, TypeOK, Position
<1> QED
  BY <1>1, <1>2, <1>3, <1>4, <1>5, <1>6

(* read_target flushes before it reads.                                    *)
LEMMA FlushStep == ASSUME IInv, Flush PROVE IInv'
<1> USE DEF IInv, Flush, FlushTarget, Fail
<1>1. TypeOK'
  BY DEF TypeOK, Place, Rest, Position
<1>2. Quiet' /\ NoSpuriousFailure'
  BY DEF TypeOK, Quiet, Stage, NoSpuriousFailure
<1>3. Arguments'
  BY DEF Arguments, Stage, Busy, Repeats, distance
<1>4. Loops'
  BY DEF Arguments, Loops, Busy, Stage, Fetching, Repeats, distance, ReadLen, ReadStart, slice
<1>5. Positions'
  BY DEF TypeOK, Positions, drained, ReadStart, Position
<1>6. Contents'
  BY DEF Contents, Positions, drained
<1> QED
  BY <1>1, <1>2, <1>3, <1>4, <1>5, <1>6

(* The read-back seeks to a range inside the output.                       *)
LEMMA ReadSeekStep == ASSUME IInv, ReadSeek PROVE IInv'
<1>a. /\ ReadStart \in Nat /\ ReadStart <= logical_len
      /\ logical_len \in Nat /\ logical_len <= MaxTarget
      /\ scratch = << >>
  <2>1. Fetching /\ Stage = "locate"
    BY DEF ReadSeek, Fetching, Stage
  <2>2. /\ ReadStart \in Nat /\ ReadLen \in 1..IO_BUFFER_SIZE
        /\ ReadStart + ReadLen <= logical_len
        /\ logical_len \in Nat /\ logical_len <= MaxTarget
    BY <2>1, ReadBounds DEF IInv
  <2> QED
    BY <2>1, <2>2 DEF IInv, Loops
<1> USE DEF IInv, ReadSeek, SeekUnlessAt, SeekTarget, Fail
<1>1. TypeOK'
  <2>1. ReadStart \in Position
    BY <1>a DEF Position
  <2> QED
    BY <2>1 DEF TypeOK, Place, Rest, Position
<1>2. Quiet' /\ NoSpuriousFailure'
  BY DEF TypeOK, Quiet, Stage, NoSpuriousFailure
<1>3. Arguments'
  BY DEF Arguments, Stage, Busy, Repeats, distance
<1>4. Loops'
  BY DEF Arguments, Loops, Busy, Stage, Fetching, Repeats, distance, ReadLen, ReadStart, slice
<1>5. Positions'
  BY <1>a, EmptySequence DEF TypeOK, Positions, drained, ReadStart, Position
<1>6. Contents'
  BY DEF Contents, Positions, drained
<1> QED
  BY <1>1, <1>2, <1>3, <1>4, <1>5, <1>6

(* A short read stays inside the drained, flushed output, so the target    *)
(* never ends early.                                                       *)
LEMMA ReadStep == ASSUME IInv, Read PROVE IInv'
<1>a. /\ ReadStart \in Nat /\ ReadLen \in 1..IO_BUFFER_SIZE
      /\ ReadStart + ReadLen <= logical_len
      /\ logical_len \in Nat /\ logical_len <= MaxTarget
  BY ReadBounds DEF IInv, Read, Fetching, Stage
<1>b. /\ scratch \in Seq(Byte) /\ Len(scratch) \in Nat
      /\ file_pos = ReadStart + Len(scratch) /\ physical_pos = file_pos
      /\ pending = << >> /\ written = 0 /\ drained = logical_len /\ synced = file
  BY <1>a, EmptySequence DEF IInv, Read, TypeOK, Positions, drained
<1>c. ASSUME NEW p \in Nat, p < logical_len
      PROVE  Visible(p) \in Byte
  BY <1>a, <1>b, <1>c DEF Visible, Offset, IInv, Contents, TypeOK, Byte0
<1>d. file_pos \in Nat /\ file_pos < logical_len /\ Visible(file_pos) # NoByte
  <2>1. file_pos \in Nat /\ file_pos < logical_len
    BY <1>a, <1>b DEF Read
  <2> QED
    BY <1>c, <2>1
<1>e. ReadLen' = ReadLen /\ ReadStart' = ReadStart
  BY DEF Read, Fail, ReadLen, Repeats, distance, ReadStart
<1>f. \/ UNCHANGED <<scratch, file_pos, physical_pos>> /\ pc' = "failed" /\ fault'
      \/ /\ scratch' \in Seq(Byte) /\ Len(scratch') <= ReadLen
         /\ file_pos' = ReadStart + Len(scratch') /\ physical_pos' = file_pos'
         /\ UNCHANGED <<locals, fault>>
  <2>1. CASE \E count \in 1..(ReadLen - Len(scratch)) :
               /\ \A i \in 0..(count - 1) : Visible(file_pos + i) # NoByte
               /\ scratch' = scratch \o [i \in 1..count |-> Visible(file_pos + i - 1)]
               /\ file_pos' = file_pos + count
               /\ physical_pos' = physical_pos + count
               /\ UNCHANGED <<locals, fault>>
    <3>1. PICK count \in 1..(ReadLen - Len(scratch)) :
            /\ scratch' = scratch \o [i \in 1..count |-> Visible(file_pos + i - 1)]
            /\ file_pos' = file_pos + count
            /\ physical_pos' = physical_pos + count
      BY <2>1
    <3> DEFINE bytes == [i \in 1..count |-> Visible(file_pos + i - 1)]
    <3>2. count \in Nat /\ Len(scratch) + count <= ReadLen
      BY <1>a, <1>b
    <3>3. ASSUME NEW i \in 1..count
          PROVE  Visible(file_pos + i - 1) \in Byte
      <4>1. file_pos + i - 1 \in Nat /\ file_pos + i - 1 < logical_len
        BY <1>a, <1>b, <3>2
      <4> QED
        BY <1>c, <4>1
    <3>4. bytes \in Seq(Byte) /\ Len(bytes) = count
      <4>1. bytes \in [1..count -> Byte]
        BY <3>3
      <4> QED
        BY <3>2, <4>1, TableBytes
    <3> HIDE DEF bytes
    <3>5. scratch' \in Seq(Byte) /\ Len(scratch') = Len(scratch) + count
      BY <1>b, <3>1, <3>4, ConcatBytes DEF bytes
    <3>6. file_pos' = ReadStart + Len(scratch') /\ physical_pos' = file_pos'
      BY <1>a, <1>b, <3>1, <3>2, <3>5
    <3> QED
      BY <2>1, <3>2, <3>5, <3>6
  <2> QED
    BY <1>d, <2>1 DEF Read, Fail
<1> USE DEF IInv, Read, Fail, Visible
<1>1. TypeOK'
  <2>1. /\ scratch' \in Seq(Byte) /\ Len(scratch') <= IO_BUFFER_SIZE
        /\ file_pos' \in Position /\ physical_pos' \in Position
    <3>1. CASE UNCHANGED <<scratch, file_pos, physical_pos>>
      BY <3>1 DEF TypeOK
    <3>2. CASE /\ scratch' \in Seq(Byte) /\ Len(scratch') <= ReadLen
               /\ file_pos' = ReadStart + Len(scratch') /\ physical_pos' = file_pos'
      BY <1>a, <3>2 DEF Position
    <3> QED
      BY <1>f, <3>1, <3>2
  <2> QED
    BY <2>1, <1>f DEF TypeOK, Place, Rest
<1>2. Quiet' /\ NoSpuriousFailure'
  BY <1>d, <1>f DEF Quiet, Stage, NoSpuriousFailure
<1>3. Arguments'
  BY DEF Arguments, Stage, Busy, Repeats, distance
<1>4. Loops'
  BY <1>e, <1>f DEF Loops, Stage, Fetching
<1>5. Positions'
  <2>1. CASE pc' = "failed"
    BY <2>1 DEF Positions, drained
  <2>2. CASE /\ scratch' \in Seq(Byte) /\ Len(scratch') <= ReadLen
             /\ file_pos' = ReadStart + Len(scratch') /\ physical_pos' = file_pos'
             /\ UNCHANGED <<locals, fault>>
    <3>1. file_pos' <= logical_len
      BY <1>a, <2>2
    <3> QED
      BY <1>e, <2>2, <3>1 DEF Positions, drained, locals
  <2> QED
    BY <1>f, <2>1, <2>2
<1>6. Contents'
  BY DEF Contents, Positions, drained
<1> QED
  BY <1>1, <1>2, <1>3, <1>4, <1>5, <1>6

(* After the read-back the target returns to the end of the output.        *)
LEMMA SeekBackStep == ASSUME IInv, SeekBack PROVE IInv'
<1> USE DEF IInv, SeekBack, SeekUnlessAt, SeekTarget, Fail, AfterRead
<1>1. TypeOK'
  BY DEF TypeOK, Place, Rest, Position
<1>2. Quiet' /\ NoSpuriousFailure'
  BY DEF TypeOK, Quiet, Stage, NoSpuriousFailure
<1>3. Arguments'
  BY DEF Arguments, Stage, Busy, Repeats, distance
<1>4. Loops'
  <2>1. /\ Len(scratch) \in Nat /\ sent = 0
        /\ op.kind \in {"target", "current"} /\ copied < op.size
    BY DEF TypeOK, Arguments, Busy, Stage, Loops, Fetching
  <2>2. /\ Repeats' = Repeats /\ ReadLen' = ReadLen /\ distance' = distance
        /\ slice = scratch /\ slice' = scratch
    BY <2>1 DEF Repeats, ReadLen, distance, slice
  <2>3. Repeats => Len(scratch) = distance
    BY DEF ReadLen
  <2>4. Stage' \in {"repeat", "emit", "failed"}
        /\ (Stage' = "repeat" => Repeats) /\ (Stage' = "emit" => ~Repeats)
    BY DEF Stage
  <2>5. CASE Stage' = "repeat"
    <3>1. Repeats' /\ copied' <= op'.size /\ Len(scratch') = distance'
      BY <2>1, <2>2, <2>3, <2>4, <2>5 DEF TypeOK, Operation
    <3> QED
      BY <2>5, <3>1 DEF Loops, Fetching
  <2>6. CASE Stage' = "emit"
    <3>1. ~Repeats' /\ copied' = copied /\ op' = op /\ sent' = 0 /\ scratch' = scratch
      BY <2>1, <2>2, <2>4, <2>6
    <3>2. Len(scratch') = ReadLen' /\ sent' <= Len(slice')
      BY <2>1, <2>2, <3>1
    <3> QED
      BY <2>1, <2>6, <3>1, <3>2 DEF Loops, Fetching
  <2>7. CASE Stage' = "failed"
    BY <2>7 DEF Loops, Fetching
  <2> QED
    BY <2>4, <2>5, <2>6, <2>7
<1>5. Positions'
  BY DEF TypeOK, Positions, drained, ReadStart, Position
<1>6. Contents'
  BY DEF Contents, Positions, drained
<1> QED
  BY <1>1, <1>2, <1>3, <1>4, <1>5, <1>6

(* finish flushes the target.                                              *)
LEMMA FinalFlushStep == ASSUME IInv, FinalFlush PROVE IInv'
<1> USE DEF IInv, FinalFlush, FlushTarget, Fail
<1>1. TypeOK'
  BY DEF TypeOK, Place, Rest, Position
<1>2. Quiet' /\ NoSpuriousFailure'
  BY DEF TypeOK, Quiet, Stage, NoSpuriousFailure
<1>3. Arguments'
  BY DEF Arguments, Stage, Busy, Repeats, distance
<1>4. Loops'
  BY DEF Arguments, Loops, Busy, Stage, Fetching, Repeats, distance, ReadLen, ReadStart, slice
<1>5. Positions'
  BY DEF TypeOK, Positions, drained, ReadStart, Position
<1>6. Contents'
  BY DEF Contents, Positions, drained
<1> QED
  BY <1>1, <1>2, <1>3, <1>4, <1>5, <1>6

(* finish leaves the target at the decoded length.                         *)
LEMMA FinalSeekStep == ASSUME IInv, FinalSeek PROVE IInv'
<1> USE DEF IInv, FinalSeek, SeekTarget, Fail
<1>1. TypeOK'
  BY DEF TypeOK, Place, Rest, Position
<1>2. Quiet' /\ NoSpuriousFailure'
  BY DEF TypeOK, Quiet, Stage, NoSpuriousFailure
<1>3. Arguments'
  BY DEF Arguments, Stage, Busy, Repeats, distance
<1>4. Loops'
  BY DEF Arguments, Loops, Busy, Stage, Fetching, Repeats, distance, ReadLen, ReadStart, slice
<1>5. Positions'
  BY DEF TypeOK, Positions, drained, ReadStart, Position
<1>6. Contents'
  BY DEF Contents, Positions, drained
<1> QED
  BY <1>1, <1>2, <1>3, <1>4, <1>5, <1>6

(* Interrupted changes nothing.                                            *)
LEMMA InterruptedStep == ASSUME IInv, Interrupted PROVE IInv'
<1> USE DEF IInv, Interrupted
<1>1. TypeOK'
  BY DEF TypeOK, Place, Rest, Position
<1>2. Quiet' /\ NoSpuriousFailure'
  BY DEF TypeOK, Quiet, Stage, NoSpuriousFailure
<1>3. Arguments'
  BY DEF Arguments, Stage, Busy, Repeats, distance
<1>4. Loops'
  BY DEF Arguments, Loops, Busy, Stage, Fetching, Repeats, distance, ReadLen, ReadStart, slice
<1>5. Positions'
  BY DEF TypeOK, Positions, drained, ReadStart, Position
<1>6. Contents'
  BY DEF Contents, Positions, drained
<1> QED
  BY <1>1, <1>2, <1>3, <1>4, <1>5, <1>6

(* The writer starts with the invariant.                                   *)
LEMMA InitInv == Init => IInv
<1> SUFFICES ASSUME Init
             PROVE  IInv
  OBVIOUS
<1>1. TypeOK
  <2>1. op \in Operation /\ op.size \in Position
    BY NoOpProperties DEF Init, Position
  <2>2. file \in [Offset -> Byte0] /\ synced \in [Offset -> Byte0]
    BY DEF Init, Byte0
  <2>3. source_pos \in 0..Len(Source) /\ interrupts \in 0..MaxInterrupts
    BY DEF Init
  <2>4. /\ pending \in Seq(Byte) /\ Len(pending) <= IO_BUFFER_SIZE
        /\ scratch \in Seq(Byte) /\ Len(scratch) <= IO_BUFFER_SIZE
        /\ adler \in Seq(Byte)
    BY EmptySequence DEF Init
  <2>5. 0 \in Position
    BY DEF Position
  <2> QED
    BY <2>1, <2>2, <2>3, <2>4, <2>5 DEF Init, TypeOK, Place, Rest
<1>2. Quiet /\ Arguments /\ Loops /\ NoSpuriousFailure
  BY DEF Init, Quiet, Arguments, Loops, Busy, Fetching, Stage, NoSpuriousFailure
<1>3. Positions
  BY EmptySequence DEF Init, Positions
<1>4. Contents
  <2>1. logical_len = 0 /\ Len(pending) = 0 /\ written = 0
    BY EmptySequence DEF Init
  <2>2. drained + written = 0
    BY <2>1 DEF drained
  <2> QED
    BY <2>1, <2>2 DEF Init, Contents, Offset
<1> QED
  BY <1>1, <1>2, <1>3, <1>4 DEF IInv

(* A step that changes nothing preserves it.                               *)
LEMMA StutterStep == ASSUME IInv, UNCHANGED vars PROVE IInv'
  BY DEF vars, IInv, TypeOK, Quiet, Arguments, Loops, Positions, Contents,
         NoSpuriousFailure, Busy, Fetching, Stage, Repeats, distance, ReadLen,
         ReadStart, slice, drained

(* Everything the decoder asks of the writer, and everything the streams   *)
(* answer, preserves the invariant.                                        *)
LEMMA NextInv == ASSUME IInv, [Next]_vars PROVE IInv'
<1>1. CASE Decoder
  BY <1>1, BeginWindowStep, AddStep, RunStep, CopyFromSourceStep,
     CopyFromTargetStep, CopyFromCurrentStep, FinishWindowStep, FinishStep,
     RejectStep DEF Decoder
<1>2. CASE Step
  BY <1>2, RunChunkStep, SourceChunkStep, TargetChunkStep, ReturnStep,
     SourceSeekStep, SourceReadStep, SourceChunkReadStep, EmitStep,
     EmittedStep, EmitRepeatedStep, MakeRoomStep, NothingToDrainStep,
     StartDrainStep, WriteStep, DrainedStep, FlushStep,
     ReadSeekStep, ReadStep, SeekBackStep, 
     FinalFlushStep, FinalSeekStep DEF Step
<1>3. CASE Interrupted
  BY <1>3, InterruptedStep
<1>4. CASE UNCHANGED vars
  BY <1>4, StutterStep
<1> QED
  BY <1>1, <1>2, <1>3, <1>4 DEF Next

(* The invariant holds throughout.                                         *)
LEMMA Invariant == Spec => []IInv
<1>1. Init => IInv
  BY InitInv
<1>2. IInv /\ [Next]_vars => IInv'
  BY NextInv
<1> QED
  BY <1>1, <1>2, PTL DEF Spec

-----------------------------------------------------------------------------
(***************************************************************************)
(* The bytes.  Output is what the promise calls out; these lemmas say what *)
(* every step does to it, that scratch holds what the running instruction  *)
(* asks for (Staged), and that each step is one the promise allows.        *)
(***************************************************************************)

(* The decoded bytes, drained and pending together, are logical_len bytes. *)
LEMMA OutputBytes ==
  ASSUME IInv
  PROVE  /\ drained \in Nat /\ drained + Len(pending) = logical_len
         /\ Output \in Seq(Byte) /\ Len(Output) = logical_len
<1>1. /\ logical_len \in Nat /\ logical_len <= MaxTarget
      /\ Len(pending) \in Nat /\ Len(pending) <= logical_len
      /\ pending \in Seq(Byte) /\ written \in Nat
      /\ file \in [Offset -> Byte0]
  BY DEF IInv, TypeOK, Position, Positions
<1>2. drained \in Nat /\ drained + Len(pending) = logical_len
  BY <1>1 DEF drained
<1>3. ASSUME NEW i \in 1..logical_len, i <= drained
      PROVE  file[i - 1] \in Byte
  <2>1. i - 1 \in Offset /\ i - 1 < drained + written
    BY <1>1, <1>2, <1>3 DEF Offset
  <2>2. file[i - 1] # NoByte /\ file[i - 1] \in Byte0
    BY <1>1, <2>1 DEF IInv, Contents
  <2> QED
    BY <2>2 DEF Byte0
<1>4. ASSUME NEW i \in 1..logical_len, ~(i <= drained)
      PROVE  pending[i - drained] \in Byte
  BY <1>1, <1>2, <1>4
<1>5. Output \in [1..logical_len -> Byte]
  BY <1>3, <1>4 DEF Output
<1> QED
  BY <1>1, <1>2, <1>5, TableBytes

(* Bytes that enter pending extend the output, and change none of it.      *)
LEMMA BufferAppends ==
  ASSUME IInv, NEW bytes \in Seq(Byte), Buffer(bytes), UNCHANGED file
  PROVE  /\ Output' = Output \o bytes
         /\ \A i \in 1..logical_len : Output'[i] = Output[i]
         /\ \A i \in 1..Len(bytes) : Output'[logical_len + i] = bytes[i]
<1>0. /\ drained \in Nat /\ drained + Len(pending) = logical_len
      /\ Len(pending) \in Nat /\ Len(bytes) \in Nat /\ logical_len \in Nat
  BY OutputBytes DEF IInv, TypeOK, Position
<1>1. /\ Output \in Seq(Byte) /\ Len(Output) = logical_len
      /\ pending \in Seq(Byte)
  BY OutputBytes DEF IInv, TypeOK
<1>2. /\ pending' = pending \o bytes /\ Len(pending') = Len(pending) + Len(bytes)
      /\ logical_len' = logical_len + Len(bytes) /\ drained' = drained
  BY <1>0, <1>1, ConcatBytes DEF Buffer, drained
<1>3. \A i \in 1..logical_len : Output'[i] = Output[i]
  BY <1>0, <1>1, <1>2, ConcatBytes, SMTT(20) DEF Output
<1>4. ASSUME NEW i \in 1..Len(bytes)
      PROVE  Output'[logical_len + i] = bytes[i]
  <2>1. /\ logical_len + i \in 1..logical_len' /\ ~(logical_len + i <= drained)
        /\ logical_len + i - drained = Len(pending) + i
    <3>1. i \in Nat /\ 1 <= i /\ i <= Len(bytes)
      BY <1>0
    <3>2. /\ logical_len + i \in 1..(logical_len + Len(bytes))
          /\ logical_len + i - drained = Len(pending) + i
      BY <1>0, <3>1
    <3>3. ~(logical_len + i <= drained)
      BY <1>0, <3>1
    <3> QED
      BY <1>2, <3>2, <3>3
  <2>2. Output'[logical_len + i] = pending'[logical_len + i - drained]
    <3>1. drained' = drained
      BY <1>2
    <3> QED
      BY <1>0, <2>1, <3>1, SMTT(40) DEF Output
  <2>3. (pending \o bytes)[Len(pending) + i] = bytes[i]
    BY <1>1, ConcatTail
  <2> QED
    BY <1>2, <2>1, <2>2, <2>3
<1>5. Output' = Output \o bytes
  <2>1. /\ Output \o bytes \in Seq(Byte)
        /\ Len(Output \o bytes) = logical_len'
        /\ \A i \in 1..logical_len : (Output \o bytes)[i] = Output[i]
        /\ \A i \in 1..Len(bytes) : (Output \o bytes)[logical_len + i] = bytes[i]
    <3>1. Len(Output \o bytes) = Len(Output) + Len(bytes)
      BY <1>1, ConcatBytes
    <3>2. \A i \in 1..Len(bytes) : (Output \o bytes)[Len(Output) + i] = bytes[i]
      BY <1>1, ConcatTail
    <3> QED
      BY <1>1, <1>2, <3>1, <3>2, ConcatBytes
  <2>2. ASSUME NEW i \in 1..logical_len'
        PROVE  Output'[i] = (Output \o bytes)[i]
    <3>1. CASE i <= logical_len
      BY <1>0, <1>3, <2>1, <3>1
    <3>2. CASE ~(i <= logical_len)
      <4>1. i - logical_len \in 1..Len(bytes) /\ i = logical_len + (i - logical_len)
        BY <1>0, <1>2, <3>2
      <4> QED
        BY <1>4, <2>1, <4>1
    <3> QED
      BY <3>1, <3>2
  <2>3. Output' \in Seq(Byte) /\ Len(Output') = logical_len'
    <3>1. \A i \in 1..logical_len' : Output'[i] \in Byte
      <4>1. \A i \in 1..logical_len' : (Output \o bytes)[i] \in Byte
        BY <2>1
      <4> QED
        BY <2>2, <4>1
    <3>2. Output' \in [1..logical_len' -> Byte] /\ logical_len' \in Nat
      BY <1>0, <1>2, <3>1, SMTT(20) DEF Output
    <3> QED
      BY <3>2, TableBytes
  <2> QED
    BY <2>1, <2>2, <2>3, SameBytes
<1> QED
  BY <1>3, <1>4, <1>5

(* No other step touches the output: a drain moves its bytes from pending  *)
(* to the target, in place.                                                *)
LEMMA OutputKept ==
  ASSUME IInv, Next, ~Emit, ~EmitRepeated
  PROVE  Output' = Output /\ logical_len' = logical_len
<1>1. CASE Write
  <2>1. /\ pending' = pending /\ logical_len' = logical_len /\ drained' = drained
    BY <1>1 DEF Write, drained
  <2>2. drained \in Nat /\ written \in Nat /\ file_pos = drained + written
    BY <1>1, OutputBytes DEF IInv, TypeOK, Positions, Write
  <2>3. ASSUME NEW i \in 1..logical_len, i <= drained
        PROVE  file'[i - 1] = file[i - 1]
    <3>1. i - 1 \in Offset /\ ~(file_pos <= i - 1)
      BY <2>2, <2>3 DEF IInv, TypeOK, Position, Offset
    <3>2. \/ UNCHANGED file
          \/ \E count \in 1..(Len(pending) - written) :
               file' = Stored(SubSeq(pending, written + 1, written + count))
      BY <1>1 DEF Write
    <3> QED
      BY <3>1, <3>2 DEF Stored
  <2> QED
    BY <2>1, <2>3 DEF Output
<1>2. CASE Drained
  <2>1. /\ pending' = << >> /\ file' = file /\ logical_len' = logical_len
        /\ written = Len(pending) /\ pc = "write"
    BY <1>2 DEF Drained
  <2>2. drained \in Nat /\ drained + Len(pending) = logical_len /\ logical_len \in Nat
        /\ Len(pending) \in Nat
    BY OutputBytes DEF IInv, TypeOK, Position
  <2>3. drained' = logical_len
    BY <2>1, <2>2, EmptySequence DEF drained
  <2>4. ASSUME NEW i \in 1..logical_len, ~(i <= drained)
        PROVE  file[i - 1] = pending[i - drained]
    <3>1. i - drained \in 1..written /\ drained + (i - drained) - 1 = i - 1
      BY <2>1, <2>2, <2>4
    <3> QED
      BY <2>1, <3>1 DEF IInv, Contents
  <2> QED
    BY <2>1, <2>2, <2>3, <2>4 DEF Output
<1>3. CASE ~Write /\ ~Drained
  <2>1. UNCHANGED <<pending, logical_len, file>>
    BY <1>3
    DEF Next, Decoder, Step, Interrupted, BeginWindow, Add, Run,
        CopyFromSource, CopyFromTarget, CopyFromCurrent, Call, FinishWindow,
        Finish, Reject, RunChunk, SourceChunk, TargetChunk, Return, SourceSeek,
        SourceRead, SourceChunkRead, Emitted, MakeRoom,
        NothingToDrain, StartDrain, SeekUnlessAt, Flush,
        ReadSeek, Read, SeekBack, FinalFlush, FinalSeek
  <2> QED
    BY <2>1 DEF Output, drained
<1> QED
  BY <1>1, <1>2, <1>3

(* What emit appends is what RFC 3284 says the instruction produces.       *)
LEMMA EmitProduces ==
  ASSUME IInv, Staged, Emit
  PROVE  /\ logical_len' > logical_len
         /\ \A i \in 1..logical_len' :
              Output'[i] = IF i <= logical_len THEN Output[i]
                           ELSE Promise!Produced(op, i, Output')
<1>1. PICK count \in Nat \ {0} :
        /\ sent + count <= Len(slice)
        /\ SubSeq(slice, sent + 1, sent + count) \in Seq(Byte)
        /\ Len(SubSeq(slice, sent + 1, sent + count)) = count
        /\ \A k \in 1..count :
             SubSeq(slice, sent + 1, sent + count)[k] = slice[sent + k]
        /\ Buffer(SubSeq(slice, sent + 1, sent + count))
  BY EmitTurn
<1>2. /\ logical_len' = logical_len + count
      /\ \A i \in 1..logical_len : Output'[i] = Output[i]
      /\ \A k \in 1..count : Output'[logical_len + k] = slice[sent + k]
  <2>1. UNCHANGED file
    BY DEF Emit
  <2> QED
    BY <1>1, <2>1, BufferAppends DEF Buffer
<1>3. /\ logical_len \in Nat /\ op.base \in Nat /\ op.start \in Nat
      /\ copied \in Nat /\ sent \in Nat
      /\ logical_len = op.base + copied + sent
  BY DEF IInv, TypeOK, Position, Operation, Emit, Busy, Stage, Arguments
<1>0. /\ op.kind \in Kind /\ op.kind # "none" /\ Busy /\ Stage = "emit"
  BY DEF IInv, TypeOK, Position, Operation, Emit, Busy, Stage, Arguments
<1>4. ASSUME NEW k \in 1..count, NEW i \in Nat, i = logical_len + k
      PROVE  slice[sent + k] = Promise!Produced(op, i, Output')
  <2>0. k \in Nat /\ k >= 1 /\ k <= count
    OBVIOUS
  <2>1. i - op.base = copied + (sent + k)
    <3>1. i = op.base + copied + sent + k
      BY <1>3, <1>4
    <3> QED
      BY <1>3, <2>0, <3>1, SMTT(60)
  <2>2. CASE op.kind = "add"
    <3>1. copied = 0 /\ slice = op.data
      BY <1>0, <2>2 DEF IInv, Loops, slice
    <3>2. i - op.base = sent + k
      BY <1>3, <1>4, <2>1, <3>1
    <3> QED
      BY <1>3, <2>0, <2>2, <3>1, <3>2 DEF Promise!Produced
  <2>3. CASE op.kind # "add"
    <3>1. slice = scratch /\ sent + k \in 1..Len(scratch)
      <4>1. slice = scratch /\ Len(scratch) \in Nat /\ sent + count <= Len(slice)
        BY <1>1, <2>3 DEF slice, IInv, TypeOK
      <4> QED
        BY <1>3, <2>0, <4>1
    <3>2. slice[sent + k] = Wanted(copied + (sent + k))
      BY <1>0, <2>3, <3>1 DEF Staged
    <3>3. CASE op.kind = "run"
      BY <3>2, <3>3 DEF Wanted, Promise!Produced
    <3>4. CASE op.kind = "source"
      <4>1. slice[sent + k] = Source[op.start + (i - op.base)]
        BY <2>1, <3>2, <3>4 DEF Wanted
      <4> QED
        BY <1>3, <2>0, <3>4, <4>1 DEF Promise!Produced
    <3>5. CASE op.kind \in {"target", "current"}
      <4>1. /\ op.start + copied + ReadLen <= op.base + copied
            /\ Len(scratch) = ReadLen /\ ReadLen \in Nat
        <5>1. copied < op.size /\ Len(scratch) = ReadLen
          BY <1>0, <2>3 DEF IInv, Loops
        <5> QED
          BY <1>0, <3>5, <5>1, SourceBefore, ChunkBounds DEF IInv
      <4>2. op.start + (copied + (sent + k)) \in 1..logical_len
        <5>1. sent + k <= ReadLen /\ sent + k >= 1
          BY <1>3, <2>0, <3>1, <4>1
        <5>2. op.start + (copied + (sent + k)) <= op.base + copied
          BY <1>3, <2>0, <4>1, <5>1, SMTT(20)
        <5> QED
          BY <1>3, <2>0, <5>2
      <4>3. slice[sent + k] = Output[op.start + (copied + (sent + k))]
        BY <3>2, <3>5 DEF Wanted
      <4>4. slice[sent + k] = Output'[op.start + (i - op.base)]
        BY <1>2, <2>1, <4>2, <4>3
      <4>5. op.kind # "add" /\ op.kind # "run" /\ op.kind # "source"
        BY <3>5
      <4> QED
        BY <1>3, <2>0, <4>4, <4>5 DEF Promise!Produced
    <3> QED
      BY <1>0, <2>3, <3>3, <3>4, <3>5 DEF Kind
  <2> QED
    BY <2>2, <2>3
<1>5. ASSUME NEW i \in 1..logical_len', ~(i <= logical_len)
      PROVE  Output'[i] = Promise!Produced(op, i, Output')
  <2>0. i \in Nat
    BY <1>2, <1>3
  <2>1. i - logical_len \in 1..count /\ logical_len + (i - logical_len) = i
    <3>1. logical_len' = logical_len + count
      BY <1>2
    <3>2. i \in Nat /\ i <= logical_len + count
      BY <1>3, <3>1
    <3>3. i > logical_len
      BY <1>3, <1>5, <3>2
    <3>4. i - logical_len \in Int /\ i - logical_len >= 1 /\ i - logical_len <= count
      BY <1>3, <3>2, <3>3, SMTT(20)
    <3>5. logical_len + (i - logical_len) = i
      BY <1>3, <3>2
    <3> QED
      BY <3>4, <3>5
  <2>2. Output'[logical_len + (i - logical_len)] = slice[sent + (i - logical_len)]
    BY <1>2, <2>1
  <2>3. slice[sent + (i - logical_len)]
          = Promise!Produced(op, i, Output')
    BY <1>3, <1>4, <2>0, <2>1
  <2> QED
    BY <2>1, <2>2, <2>3
<1>6. logical_len' > logical_len
  BY <1>2, <1>3
<1>7. \A i \in 1..logical_len' : i <= logical_len => i \in 1..logical_len
  BY <1>3
<1> QED
  BY <1>2, <1>5, <1>6, <1>7

(* What a repeated COPY appends is its own output, distance bytes earlier, *)
(* and the output goes on repeating with the period of the seed.           *)
LEMMA RepeatProduces ==
  ASSUME IInv, Staged, EmitRepeated
  PROVE  /\ logical_len' > logical_len
         /\ \A i \in 1..logical_len' :
              Output'[i] = IF i <= logical_len THEN Output[i]
                           ELSE Promise!Produced(op, i, Output')
         /\ \A j \in 1..(copied' + distance) :
              Output'[op.start + j] = scratch[((j - 1) % distance) + 1]
<1>1. /\ distance \in Nat \ {0} /\ Len(scratch) = distance
      /\ op.start \in Nat /\ op.base \in Nat /\ copied \in Nat /\ logical_len \in Nat
      /\ op.base = op.start + distance /\ logical_len = op.base + copied
      /\ op.kind = "current"
  BY RepeatTurn
<1>2. PICK count \in Nat \ {0}, bytes \in Seq(Byte) :
        /\ Len(bytes) = count
        /\ \A k \in 1..count :
             bytes[k] = scratch[((copied + (k - 1)) % distance) + 1]
        /\ Buffer(bytes)
        /\ copied' = copied + count
  BY RepeatTurn
<1>3. /\ logical_len' = logical_len + count
      /\ copied' = copied + count
  BY <1>2 DEF Buffer
<1>4. \A i \in 1..logical_len : Output'[i] = Output[i]
  <2>1. UNCHANGED file
    BY DEF EmitRepeated
  <2> QED
    BY <1>2, <2>1, BufferAppends
<1>5. \A k \in 1..count :
        Output'[logical_len + k] = scratch[((copied + (k - 1)) % distance) + 1]
  <2>1. UNCHANGED file
    BY DEF EmitRepeated
  <2>2. \A k \in 1..count : Output'[logical_len + k] = bytes[k]
    BY <1>2, <2>1, BufferAppends
  <2> QED
    BY <1>2, <2>2
<1>6. ASSUME NEW j \in 1..(copied' + distance)
      PROVE  Output'[op.start + j] = scratch[((j - 1) % distance) + 1]
  <2>1. j \in Nat /\ j >= 1 /\ j <= copied + count + distance
    BY <1>1, <1>3
  <2>2. CASE j <= copied + distance
    <3>1. op.start + j \in 1..logical_len
      BY <1>1, <2>1, <2>2, SMTT(20)
    <3>2. j \in 1..(copied + distance)
      BY <1>1, <2>1, <2>2
    <3>3. Output[op.start + j] = scratch[((j - 1) % distance) + 1]
      <4>1. Stage = "repeat"
        BY DEF EmitRepeated, Stage
      <4> QED
        BY <3>2, <4>1 DEF Staged
    <3> QED
      BY <1>4, <3>1, <3>3
  <2>3. CASE ~(j <= copied + distance)
    <3> DEFINE k == j - (copied + distance)
    <3>1. k \in 1..count
      BY <1>1, <2>1, <2>3
    <3>2. k - 1 \in Nat /\ copied + (k - 1) \in Nat
      BY <1>1, <3>1
    <3>3. op.start + j = logical_len + k
      BY <1>1, <2>1, SMTT(20)
    <3>4. j - 1 = (copied + (k - 1)) + distance
      BY <1>1, <2>1
    <3> HIDE DEF k
    <3>5. (j - 1) % distance = (copied + (k - 1)) % distance
      BY <1>1, <3>2, <3>4, PeriodKept
    <3> QED
      BY <1>5, <3>1, <3>3, <3>5
  <2> QED
    BY <2>2, <2>3
<1>7. ASSUME NEW i \in 1..logical_len', ~(i <= logical_len)
      PROVE  Output'[i] = Promise!Produced(op, i, Output')
  <2> DEFINE k == i - logical_len
  <2>1. i \in Nat /\ i <= logical_len + count
    BY <1>1, <1>3
  <2>2. k \in 1..count /\ i = logical_len + k
    <3>1. logical_len \in Nat /\ count \in Nat /\ i > logical_len
      BY <1>1, <1>7, <2>1
    <3>2. k \in Int /\ k >= 1 /\ k <= count
      BY <2>1, <3>1
    <3> QED
      BY <2>1, <3>1, <3>2
  <2>3. i - op.base = copied + k
    <3>1. op.base \in Nat /\ copied \in Nat /\ logical_len = op.base + copied
      BY <1>1
    <3> QED
      BY <2>1, <3>1, SMTT(20)
  <2> HIDE DEF k
  <2>4. copied + k \in 1..(copied + count + distance) /\ (copied + k) - 1 = copied + (k - 1)
    BY <1>1, <2>2
  <2>5. Output'[op.start + (i - op.base)] = scratch[((copied + (k - 1)) % distance) + 1]
    <3>1. Output'[op.start + (copied + k)] = scratch[(((copied + k) - 1) % distance) + 1]
      BY <1>3, <1>6, <2>4
    <3> QED
      BY <2>3, <2>4, <3>1
  <2>6. Output'[i] = Output'[op.start + (i - op.base)]
    BY <1>5, <2>2, <2>5
  <2> QED
    BY <1>1, <2>1, <2>6 DEF Promise!Produced
<1>8. logical_len' > logical_len
  BY <1>1, <1>3
<1>9. \A i \in 1..logical_len' : i <= logical_len => i \in 1..logical_len
  BY <1>1
<1> QED
  BY <1>4, <1>6, <1>7, <1>8, <1>9

(* While a chunk is in scratch and the output does not change, scratch     *)
(* holds what it held.                                                     *)
LEMMA StagedKept ==
  ASSUME Staged, Output' = Output, UNCHANGED <<scratch, op, copied>>,
         \/ Stage' = Stage
         \/ Stage' \notin {"sourceRead", "read", "emit", "repeat"}
         \/ Stage = "sourceRead" /\ Stage' = "emit"
  PROVE  Staged'
<1>1. \A i : Wanted(i)' = Wanted(i)
  BY DEF Wanted
<1>2. distance' = distance
  BY DEF distance
<1> QED
  BY <1>1, <1>2 DEF Staged

(* The steps that do not touch scratch between its filling and its         *)
(* emission.                                                               *)
LEMMA StagedDrainStep ==
  ASSUME IInv, Staged,
         MakeRoom \/ NothingToDrain \/ StartDrain \/ Write \/ Drained \/ SourceChunkRead
           \/ Interrupted
  PROVE  Staged'
<1>1. Output' = Output
  <2>1. Next /\ ~Emit /\ ~EmitRepeated
    BY DEF Next, Step, MakeRoom, NothingToDrain, StartDrain, Write, Drained,
           SourceChunkRead, Interrupted, Emit, EmitRepeated
  <2> QED
    BY <2>1, OutputKept
<1>2. UNCHANGED <<scratch, op, copied>>
  BY DEF MakeRoom, NothingToDrain, StartDrain, Write, Drained, SourceChunkRead,
         Interrupted, SeekUnlessAt, SeekTarget, Fail
<1>3. \/ Stage' = Stage
      \/ Stage' = "failed"
      \/ Stage = "sourceRead" /\ Stage' = "emit"
  BY DEF Stage, MakeRoom, NothingToDrain, StartDrain, Write, Drained, SourceChunkRead,
         Interrupted, SeekUnlessAt, SeekTarget, Fail, IInv, TypeOK
<1> QED
  BY <1>1, <1>2, <1>3, StagedKept

(* The steps after which nothing is staged: the calls, the beginnings and  *)
(* the ends of a chunk.                                                    *)
LEMMA StagedEmptyStep ==
  ASSUME IInv, Decoder \/ SourceChunk \/ TargetChunk \/ Return \/ SourceSeek
                 \/ Emitted \/ Flush \/ ReadSeek \/ FinalFlush \/ FinalSeek
  PROVE  Staged'
<1>1. CASE Decoder
  <2>1. ASSUME NEW o, NEW first \in {"emit", "chunk", "sourceSeek"}, Call(o, first),
               o.kind = "add" \/ first # "emit"
        PROVE  Staged'
    BY <2>1 DEF Call, Staged, Stage
  <2>2. CASE Add
    BY <2>1, <2>2 DEF Add, Args
  <2>3. CASE Run
    BY <2>1, <2>3 DEF Run, Args
  <2>4. CASE CopyFromSource
    BY <2>1, <2>4 DEF CopyFromSource, Args
  <2>5. CASE CopyFromTarget
    BY <2>1, <2>5 DEF CopyFromTarget, Args
  <2>6. CASE CopyFromCurrent
    BY <2>1, <2>6 DEF CopyFromCurrent, Args
  <2>7. CASE BeginWindow \/ FinishWindow \/ Finish \/ Reject
    BY <2>7 DEF BeginWindow, FinishWindow, Finish, Reject, Staged, Stage
  <2> QED
    BY <1>1, <2>2, <2>3, <2>4, <2>5, <2>6, <2>7 DEF Decoder
<1>2. CASE SourceChunk
  BY <1>2, EmptySequence DEF SourceChunk, Staged, Stage
<1>3. CASE TargetChunk \/ Return \/ SourceSeek \/ Emitted \/ Flush \/ FinalFlush \/ FinalSeek
  BY <1>3 DEF TargetChunk, Return, SourceSeek, Emitted, Flush, FinalFlush, FinalSeek,
              FlushTarget, SeekTarget, Fail, Staged, Stage
<1>4. CASE ReadSeek
  <2>1. scratch = << >> /\ scratch' = scratch
    BY <1>4 DEF ReadSeek, IInv, Loops, Stage
  <2>2. Stage' \in {"read", "failed"}
    BY <1>4 DEF ReadSeek, SeekUnlessAt, SeekTarget, Fail, Stage
  <2> QED
    BY <2>1, <2>2, EmptySequence DEF Staged
<1> QED
  BY <1>1, <1>2, <1>3, <1>4

(* A chunk of a RUN is its byte over and over.                             *)
LEMMA StagedRunStep == ASSUME IInv, RunChunk PROVE Staged'
<1>1. ReadLen \in 1..IO_BUFFER_SIZE
  BY ChunkBounds DEF IInv, RunChunk, ChunkOf, Busy, Stage
<1>2. scratch' = [i \in 1..ReadLen |-> op.data[1]] /\ Len(scratch') = ReadLen
  BY <1>1 DEF RunChunk
<1>3. \A i : Wanted(i)' = op.data[1]
  BY DEF RunChunk, ChunkOf, Wanted
<1>4. Stage' = "emit"
  BY DEF RunChunk, Stage
<1> QED
  BY <1>2, <1>3, <1>4 DEF Staged

(* A chunk of the source is read in its place, whatever the reads return.  *)
LEMMA StagedSourceReadStep == ASSUME IInv, Staged, SourceRead PROVE Staged'
<1>1. CASE pc' = "failed"
  BY <1>1 DEF Staged, Stage
<1>2. CASE pc' # "failed"
  <2>1. PICK count \in 1..(ReadLen - Len(scratch)) :
          /\ source_pos + count <= Len(Source)
          /\ scratch' = scratch \o SubSeq(Source, source_pos + 1, source_pos + count)
          /\ UNCHANGED locals
    BY <1>2 DEF SourceRead, Fail
  <2>2. Stage = "sourceRead" /\ Stage' = "sourceRead"
    BY <2>1 DEF SourceRead, Stage
  <2>3. op.kind = "source" /\ source_pos = ReadStart + Len(scratch)
    BY <2>2 DEF IInv, Loops
  <2>4. /\ Len(scratch) \in Nat /\ source_pos \in Nat /\ copied \in Nat /\ op.start \in Nat
        /\ ReadLen \in Nat /\ count \in Nat
    <3>1. ReadLen \in Nat
      BY <2>2, <2>3, ChunkBounds DEF IInv, Loops, Busy
    <3> QED
      BY <3>1 DEF IInv, TypeOK, Operation
  <2>5. scratch \in Seq(Byte)
    BY DEF IInv, TypeOK
  <2> DEFINE bytes == SubSeq(Source, source_pos + 1, source_pos + count)
  <2>6. /\ bytes \in Seq(Byte) /\ Len(bytes) = count
        /\ \A k \in 1..count : bytes[k] = Source[source_pos + k]
    BY <2>1, <2>4, SliceBytes
  <2>7. scratch' = scratch \o bytes
    BY <2>1
  <2> HIDE DEF bytes
  <2>8. \A i : Wanted(i) = Source[op.start + i] /\ Wanted(i)' = Source[op.start + i]
    BY <2>1, <2>3 DEF Wanted
  <2>9. \A i \in 1..Len(scratch) : scratch[i] = Source[op.start + (copied + i)]
    BY <2>2, <2>3, <2>8 DEF Staged
  <2>10. ASSUME NEW i \in 1..(Len(scratch) + count)
         PROVE  scratch'[i] = Source[op.start + (copied + i)]
    <3>1. CASE i <= Len(scratch)
      <4>1. i \in 1..Len(scratch)
        BY <2>4, <3>1
      <4>2. (scratch \o bytes)[i] = scratch[i]
        BY <2>5, <2>6, <4>1, ConcatBytes
      <4> QED
        BY <2>7, <2>9, <4>1, <4>2
    <3>2. CASE ~(i <= Len(scratch))
      <4> DEFINE k == i - Len(scratch)
      <4>1. k \in 1..count /\ i = Len(scratch) + k
        BY <2>4, <3>2
      <4>2. source_pos + k = op.start + (copied + i)
        BY <2>3, <2>4, SMTT(20) DEF ReadStart
      <4> HIDE DEF k
      <4>3. scratch'[i] = bytes[k]
        BY <2>5, <2>6, <2>7, <4>1, ConcatTail
      <4> QED
        BY <2>6, <4>1, <4>2, <4>3
    <3> QED
      BY <3>1, <3>2
  <2>11. Len(scratch') = Len(scratch) + count
    BY <2>5, <2>6, <2>7, ConcatBytes
  <2> QED
    BY <2>1, <2>2, <2>8, <2>10, <2>11 DEF Staged
<1> QED
  BY <1>1, <1>2

(* A read-back finds what was decoded: nothing is pending, and what was    *)
(* drained has been flushed.                                               *)
LEMMA StagedReadStep == ASSUME IInv, Staged, Read PROVE Staged'
<1>1. CASE pc' = "failed"
  BY <1>1 DEF Staged, Stage
<1>2. CASE pc' # "failed"
  <2>1. PICK count \in 1..(ReadLen - Len(scratch)) :
          /\ scratch' = scratch \o [i \in 1..count |-> Visible(file_pos + i - 1)]
          /\ \A i \in 0..(count - 1) : Visible(file_pos + i) # NoByte
          /\ UNCHANGED locals
    BY <1>2 DEF Read, Fail
  <2>2. Stage = "read" /\ Stage' = "read" /\ pc = "read" /\ Fetching
    BY <2>1 DEF Read, Stage, Fetching
  <2>3. /\ op.kind \in {"target", "current"} /\ file_pos = ReadStart + Len(scratch)
        /\ pending = << >> /\ synced = file
    BY <2>2 DEF IInv, Loops, Positions
  <2>4. /\ Len(scratch) \in Nat /\ file_pos \in Nat /\ copied \in Nat /\ op.start \in Nat
        /\ ReadLen \in Nat /\ count \in Nat /\ logical_len \in Nat
        /\ ReadStart + ReadLen <= logical_len /\ logical_len <= MaxTarget
        /\ ReadStart = op.start + copied
    <3>1. ReadLen \in Nat /\ ReadStart + ReadLen <= logical_len
      BY <2>2, ReadBounds DEF IInv
    <3> QED
      BY <3>1 DEF IInv, TypeOK, Operation, Position, ReadStart
  <2>5. scratch \in Seq(Byte)
    BY DEF IInv, TypeOK
  <2>6. drained = logical_len
    BY <2>3, <2>4, EmptySequence DEF drained
  <2>7. \A i \in 1..logical_len : Output[i] = file[i - 1]
    BY <2>4, <2>6 DEF Output
  <2>8. Output' = Output
    <3>1. UNCHANGED <<pending, logical_len, file>>
      BY DEF Read
    <3> QED
      BY <3>1 DEF Output, drained
  <2>9. ASSUME NEW k \in 1..count
        PROVE  /\ Visible(file_pos + k - 1) = Output[op.start + (copied + (Len(scratch) + k))]
               /\ Visible(file_pos + k - 1) \in Byte
    <3>1. k \in Nat /\ k >= 1 /\ Len(scratch) + k <= ReadLen
      BY <2>4
    <3>2. file_pos + k = op.start + (copied + (Len(scratch) + k))
      <4>1. file_pos = op.start + copied + Len(scratch)
        BY <2>3, <2>4
      <4> QED
        BY <2>4, <3>1, <4>1, SMTT(60)
    <3>3. file_pos + k \in 1..logical_len
      <4>1. file_pos + k <= ReadStart + ReadLen /\ file_pos + k \in Nat /\ file_pos + k >= 1
        BY <2>4, <3>1, <3>2, SMTT(20)
      <4> QED
        BY <2>4, <4>1
    <3>4. file_pos + k - 1 \in Offset
      BY <2>4, <3>3 DEF Offset
    <3>5. Visible(file_pos + k - 1) = file[file_pos + k - 1]
      <4>1. synced = file
        BY <2>3
      <4> QED
        BY <3>4, <4>1, Zenon DEF Visible
    <3>6. Visible(file_pos + k - 1) = Output[file_pos + k]
      BY <2>4, <2>7, <3>1, <3>3, <3>5
    <3>7. Output[file_pos + k] \in Byte
      BY <3>3, OutputBytes
    <3> QED
      BY <3>2, <3>6, <3>7
  <2> DEFINE bytes == [i \in 1..count |-> Visible(file_pos + i - 1)]
  <2>10. /\ bytes \in Seq(Byte) /\ Len(bytes) = count
         /\ \A k \in 1..count : bytes[k] = Output[op.start + (copied + (Len(scratch) + k))]
    <3>1. bytes \in [1..count -> Byte]
      BY <2>9
    <3>2. \A k \in 1..count : bytes[k] = Output[op.start + (copied + (Len(scratch) + k))]
      BY <2>9
    <3> HIDE DEF bytes
    <3> QED
      BY <2>4, <3>1, <3>2, TableBytes
  <2>11. scratch' = scratch \o bytes
    BY <2>1
  <2> HIDE DEF bytes
  <2>12. \A i : Wanted(i) = Output[op.start + i] /\ Wanted(i)' = Output[op.start + i]
    BY <2>1, <2>3, <2>8 DEF Wanted
  <2>13. \A i \in 1..Len(scratch) : scratch[i] = Output[op.start + (copied + i)]
    BY <2>2, <2>3, <2>12 DEF Staged
  <2>14. ASSUME NEW i \in 1..(Len(scratch) + count)
         PROVE  scratch'[i] = Output[op.start + (copied + i)]
    <3>1. CASE i <= Len(scratch)
      BY <2>4, <2>5, <2>10, <2>11, <2>13, <3>1, ConcatBytes
    <3>2. CASE ~(i <= Len(scratch))
      <4> DEFINE k == i - Len(scratch)
      <4>1. k \in 1..count /\ i = Len(scratch) + k
        BY <2>4, <3>2
      <4> HIDE DEF k
      <4>2. scratch'[i] = bytes[k]
        BY <2>5, <2>10, <2>11, <4>1, ConcatTail
      <4> QED
        BY <2>10, <4>1, <4>2
    <3> QED
      BY <3>1, <3>2
  <2>15. Len(scratch') = Len(scratch) + count
    BY <2>5, <2>10, <2>11, ConcatBytes
  <2> QED
    BY <2>1, <2>2, <2>12, <2>14, <2>15 DEF Staged
<1> QED
  BY <1>1, <1>2

(* The chunk read back goes to emit, or becomes the seed of a repetition:  *)
(* the distance bytes before the copy, which end the output.               *)
LEMMA StagedSeekBackStep == ASSUME IInv, Staged, SeekBack PROVE Staged'
<1>1. /\ Stage = "read" /\ Len(scratch) = ReadLen
      /\ UNCHANGED <<scratch, op, copied, pending, logical_len, file>>
      /\ Stage' \in {AfterRead, "failed"}
  BY DEF SeekBack, SeekUnlessAt, SeekTarget, Fail, Stage, AfterRead
<1>2. op.kind \in {"target", "current"} /\ copied < op.size
  BY <1>1 DEF IInv, Loops, Fetching
<1>3. Output' = Output
  BY <1>1 DEF Output, drained
<1>4. \A i : Wanted(i) = Output[op.start + i] /\ Wanted(i)' = Output[op.start + i]
  BY <1>1, <1>2, <1>3 DEF Wanted
<1>5. \A i \in 1..Len(scratch) : scratch[i] = Output[op.start + (copied + i)]
  BY <1>1, <1>2, <1>4 DEF Staged
<1>6. CASE Stage' = "failed"
  BY <1>6 DEF Staged
<1>7. CASE Stage' = AfterRead /\ Repeats
  <2>1. copied = 0 /\ Len(scratch) = distance /\ distance' = distance
    BY <1>1, <1>2, <1>7, ChunkBounds DEF IInv, Busy, distance
  <2>2. distance \in Nat
    BY <2>1 DEF IInv, TypeOK
  <2>3. ASSUME NEW j \in 1..(copied + distance)
        PROVE  Output[op.start + j] = scratch[((j - 1) % distance) + 1]
    <3>1. j \in 1..distance /\ distance \in Nat \ {0} /\ copied + j = j
      BY <2>1, <2>2
    <3>2. (j - 1) % distance = j - 1
      <4>1. j - 1 \in 0..(distance - 1)
        BY <2>2, <3>1
      <4> QED
        BY <3>1, <4>1
    <3>3. ((j - 1) % distance) + 1 = j
      BY <3>1, <3>2
    <3> QED
      BY <1>5, <2>1, <3>1, <3>3
  <2>4. Stage' = "repeat"
    BY <1>7 DEF AfterRead
  <2> QED
    BY <1>1, <1>3, <2>1, <2>3, <2>4 DEF Staged
<1>8. CASE Stage' = AfterRead /\ ~Repeats
  <2>1. Stage' = "emit"
    BY <1>8 DEF AfterRead
  <2> QED
    BY <1>1, <1>4, <1>5, <2>1 DEF Staged
<1> QED
  BY <1>1, <1>6, <1>7, <1>8

(* emit leaves scratch alone, and appends behind what scratch was filled   *)
(* from.                                                                   *)
LEMMA StagedEmitStep == ASSUME IInv, Staged, Emit PROVE Staged'
<1>1. /\ Stage = "emit" /\ Stage' = "emit" /\ Busy
      /\ UNCHANGED <<scratch, op, copied, file>>
  BY DEF Emit, Stage, Busy
<1>2. CASE op.kind \notin {"target", "current"}
  <2>1. ASSUME op.kind # "add"
        PROVE  \A i : Wanted(i)' = Wanted(i)
    BY <1>1, <1>2, <2>1 DEF Wanted, IInv, TypeOK, Operation, Kind, Arguments
  <2> QED
    BY <1>1, <2>1 DEF Staged
<1>3. CASE op.kind \in {"target", "current"}
  <2>1. /\ op.start + copied + ReadLen <= op.base + copied
        /\ Len(scratch) = ReadLen /\ ReadLen \in Nat
    <3>1. copied < op.size /\ Len(scratch) = ReadLen
      BY <1>1, <1>3 DEF IInv, Loops
    <3> QED
      BY <1>1, <1>3, <3>1, SourceBefore, ChunkBounds DEF IInv
  <2>2. /\ op.start \in Nat /\ op.base \in Nat /\ copied \in Nat /\ sent \in Nat
        /\ logical_len = op.base + copied + sent /\ logical_len \in Nat
    BY <1>1 DEF IInv, TypeOK, Operation, Arguments, Position
  <2>3. ASSUME NEW i \in 1..Len(scratch)
        PROVE  Output'[op.start + (copied + i)] = Output[op.start + (copied + i)]
    <3>1. \A j \in 1..logical_len : Output'[j] = Output[j]
      BY <1>1, EmitTurn, BufferAppends
    <3>2. op.start + (copied + i) \in 1..logical_len
      <4>1. i \in Nat /\ i >= 1 /\ i <= ReadLen
        BY <2>1
      <4>2. op.start + (copied + i) <= op.base + copied
        BY <2>1, <2>2, <4>1, SMTT(20)
      <4> QED
        BY <2>2, <4>1, <4>2
    <3> QED
      BY <3>1, <3>2
  <2>4. \A i : /\ Wanted(i) = Output[op.start + i]
               /\ Wanted(i)' = Output'[op.start + i]
    BY <1>1, <1>3 DEF Wanted
  <2> QED
    BY <1>1, <1>3, <2>3, <2>4 DEF Staged
<1> QED
  BY <1>2, <1>3

(* The seed stays in scratch while it is repeated.                         *)
LEMMA StagedRepeatStep == ASSUME IInv, Staged, EmitRepeated PROVE Staged'
<1>1. /\ Stage' = "repeat" /\ scratch' = scratch /\ op' = op
  BY DEF EmitRepeated, Stage
<1>2. distance' = distance
  BY <1>1 DEF distance
<1>3. \A j \in 1..(copied' + distance) :
        Output'[op.start + j] = scratch[((j - 1) % distance) + 1]
  BY RepeatProduces
<1> QED
  BY <1>1, <1>2, <1>3 DEF Staged

(* Whatever is in scratch is what the instruction asks for.                *)
LEMMA StagedNext == ASSUME IInv, Staged, [Next]_vars PROVE Staged'
<1>1. CASE UNCHANGED vars
  <2>1. Output' = Output /\ Stage' = Stage /\ UNCHANGED <<scratch, op, copied>>
    BY <1>1 DEF vars, Output, drained, Stage
  <2> QED
    BY <2>1, StagedKept
<1>2. CASE Next
  BY <1>2, StagedEmptyStep, StagedDrainStep, StagedRunStep, StagedSourceReadStep,
     StagedReadStep, StagedSeekBackStep, StagedEmitStep, StagedRepeatStep
     DEF Next, Step
<1> QED
  BY <1>1, <1>2

(* The checksum absorbs what emit appends, and nothing else.               *)
LEMMA ChecksumNext ==
  ASSUME IInv, ChecksumCoversWindow, [Next]_vars
  PROVE  ChecksumCoversWindow'
<1>1. /\ window_start \in Nat /\ logical_len \in Nat /\ window_start <= logical_len
      /\ adler \in Seq(Byte) /\ Output \in Seq(Byte) /\ Len(Output) = logical_len
  BY OutputBytes DEF IInv, TypeOK, Position, Positions
<1>2. CASE Emit \/ EmitRepeated
  <2>1. \E bytes \in Seq(Byte) : Buffer(bytes)
    BY <1>2, EmitTurn, RepeatTurn
  <2>2. PICK bytes \in Seq(Byte) : Buffer(bytes)
    BY <2>1
  <2>3. UNCHANGED <<in_window, window_start, file>>
    BY <1>2 DEF Emit, EmitRepeated
  <2>4. /\ Output' = Output \o bytes /\ adler' = adler \o bytes
        /\ logical_len' = logical_len + Len(bytes)
    BY <2>2, <2>3, BufferAppends DEF Buffer
  <2>5. SubSeq(Output \o bytes, window_start + 1, logical_len + Len(bytes))
          = SubSeq(Output, window_start + 1, logical_len) \o bytes
    BY <1>1, SliceExtends
  <2> QED
    BY <2>3, <2>4, <2>5 DEF ChecksumCoversWindow
<1>3. CASE BeginWindow
  <2>1. window_start' = logical_len /\ adler' = << >> /\ logical_len' = logical_len
    BY <1>3 DEF BeginWindow
  <2>2. SubSeq(Output', logical_len + 1, logical_len) = << >>
    <3>1. Output' = Output
      BY <1>3 DEF BeginWindow, Output, drained
    <3> QED
      BY <1>1, <3>1
  <2> QED
    BY <2>1, <2>2 DEF ChecksumCoversWindow
<1>4. CASE Next /\ ~Emit /\ ~EmitRepeated /\ ~BeginWindow
  <2>1. Output' = Output /\ logical_len' = logical_len
    BY <1>4, OutputKept
  <2>2. CASE Decoder
    <3>1. /\ UNCHANGED <<adler, window_start>>
          /\ in_window' = in_window \/ in_window' = FALSE
      BY <1>4, <2>2 DEF Decoder, Add, Run, CopyFromSource, CopyFromTarget,
                        CopyFromCurrent, Call, FinishWindow, Finish, Reject
    <3> QED
      BY <2>1, <3>1 DEF ChecksumCoversWindow
  <2>3. CASE Step \/ Interrupted
    <3>1. UNCHANGED <<adler, window_start, in_window>>
      BY <1>4, <2>3
      DEF Step, Interrupted, RunChunk, SourceChunk, TargetChunk, Return, SourceSeek,
          SourceRead, SourceChunkRead, Emitted, MakeRoom, NothingToDrain,
          StartDrain, Write, Drained, Flush, ReadSeek, Read, SeekBack,
          FinalFlush, FinalSeek
    <3> QED
      BY <2>1, <3>1 DEF ChecksumCoversWindow
  <2> QED
    BY <1>4, <2>2, <2>3 DEF Next
<1>5. CASE UNCHANGED vars
  BY <1>5 DEF vars, ChecksumCoversWindow, Output, drained
<1> QED
  BY <1>2, <1>3, <1>4, <1>5

(* Whatever is in pending was emitted by the running window.               *)
PendingIsOfWindow == window_start <= drained

LEMMA PersistedNext ==
  ASSUME IInv, PendingIsOfWindow, [Next]_vars
  PROVE  PendingIsOfWindow'
<1>1. /\ window_start \in Nat /\ logical_len \in Nat /\ window_start <= logical_len
      /\ pending \in Seq(Byte) /\ Len(pending) \in Nat
  BY DEF IInv, TypeOK, Position, Positions
<1>2. CASE Emit \/ EmitRepeated
  <2>1. \E bytes \in Seq(Byte) : Buffer(bytes)
    BY <1>2, EmitTurn, RepeatTurn
  <2>2. PICK bytes \in Seq(Byte) : Buffer(bytes)
    BY <2>1
  <2>3. pending' = pending \o bytes /\ logical_len' = logical_len + Len(bytes)
    BY <2>2 DEF Buffer
  <2>4. Len(pending') = Len(pending) + Len(bytes) /\ Len(bytes) \in Nat
    BY <1>1, <2>3, ConcatBytes
  <2>5. drained' = drained
    BY <1>1, <2>3, <2>4 DEF drained
  <2>6. window_start' = window_start
    BY <1>2 DEF Emit, EmitRepeated
  <2> QED
    BY <2>5, <2>6 DEF PendingIsOfWindow
<1>3. CASE BeginWindow
  <2>1. /\ window_start' = logical_len /\ logical_len' = logical_len
        /\ pending' = << >>
    BY <1>3 DEF BeginWindow, IInv, Positions
  <2> QED
    BY <1>1, <2>1, EmptySequence DEF PendingIsOfWindow, drained
<1>4. CASE Drained
  <2>1. window_start' = window_start /\ logical_len' = logical_len /\ pending' = << >>
    BY <1>4 DEF Drained
  <2> QED
    BY <1>1, <2>1, EmptySequence DEF PendingIsOfWindow, drained
<1>5. CASE Next /\ ~Emit /\ ~EmitRepeated /\ ~BeginWindow /\ ~Drained
  <2>1. UNCHANGED <<window_start, logical_len, pending>>
    BY <1>5
    DEF Next, Decoder, Add, Run, CopyFromSource, CopyFromTarget, CopyFromCurrent,
        Call, FinishWindow, Finish, Reject, Step, Interrupted, RunChunk, SourceChunk,
        TargetChunk, Return, SourceSeek, SourceRead, SourceChunkRead, Emitted,
        MakeRoom, NothingToDrain, StartDrain, Write, Flush, ReadSeek, Read, SeekBack,
        FinalFlush, FinalSeek
  <2> QED
    BY <2>1 DEF PendingIsOfWindow, drained
<1>6. CASE UNCHANGED vars
  BY <1>6 DEF vars, PendingIsOfWindow, drained
<1> QED
  BY <1>2, <1>3, <1>4, <1>5, <1>6

(* The place in the code tells how the decode stands.                      *)
LEMMA StatusValues ==
  /\ pc \notin {"done", "failed", "rejected"} <=> Status = "running"
  /\ pc = "done" <=> Status = "delivered"
  /\ pc \in {"failed", "rejected"} <=> Status = "failed"
  BY DEF Status

(* Both specifications mean the same by no instruction.                    *)
LEMMA NoOpIsNone == Promise!NoOp = NoOp
  BY DEF Promise!NoOp, NoOp

(* emit and emit_repeated_scratch are the abstract Emit.                   *)
LEMMA EmitImplements ==
  ASSUME IInv, Staged, Emit \/ EmitRepeated
  PROVE  Promise!Emit
<1>1. /\ logical_len' > logical_len
      /\ \A i \in 1..logical_len' :
           Output'[i] = IF i <= logical_len THEN Output[i]
                        ELSE Promise!Produced(op, i, Output')
  BY EmitProduces, RepeatProduces
<1>2. PICK bytes \in Seq(Byte) : Buffer(bytes)
  BY EmitTurn, RepeatTurn
<1>3. /\ Output \in Seq(Byte) /\ Len(Output) = logical_len
  BY OutputBytes
<1>4. Len(Output') = logical_len'
  <2>1. Output' = Output \o bytes
    <3>1. UNCHANGED file
      BY DEF Emit, EmitRepeated
    <3> QED
      BY <1>2, <3>1, BufferAppends
  <2>2. Len(Output \o bytes) = logical_len + Len(bytes)
    BY <1>2, <1>3, ConcatBytes
  <2> QED
    BY <1>2, <2>1, <2>2 DEF Buffer
<1>5. logical_len' <= op.base + op.size
  <2>0. op.base \in Nat /\ op.size \in Nat /\ copied \in Nat /\ sent \in Nat /\ logical_len \in Nat
    BY DEF IInv, TypeOK, Operation, Position
  <2>1. CASE Emit
    <3>1. PICK count \in Nat \ {0} :
            /\ sent + count <= Len(slice)
            /\ Len(SubSeq(slice, sent + 1, sent + count)) = count
            /\ Buffer(SubSeq(slice, sent + 1, sent + count))
      BY <2>1, EmitTurn
    <3>2. logical_len' = logical_len + count
      BY <3>1 DEF Buffer
    <3>3. /\ Len(slice) \in Nat /\ copied + Len(slice) <= op.size
          /\ logical_len = op.base + copied + sent
      BY <2>1, EmitBounds DEF IInv, Emit, Stage
    <3>4. copied + sent + count <= op.size
      BY <2>0, <3>1, <3>3
    <3>5. logical_len' = op.base + (copied + sent + count)
      BY <2>0, <3>2, <3>3, SMTT(20)
    <3> QED
      BY <2>0, <3>4, <3>5
  <2>2. CASE EmitRepeated
    <3>1. /\ logical_len = op.base + copied
          /\ \E count \in Nat, s \in Seq(Byte) :
               Len(s) = count /\ Buffer(s) /\ copied + count <= op.size
      BY <2>2, RepeatTurn
    <3>2. PICK count \in Nat, s \in Seq(Byte) :
            Len(s) = count /\ Buffer(s) /\ copied + count <= op.size
      BY <3>1
    <3>3. logical_len' = op.base + (copied + count)
      <4>1. logical_len' = logical_len + count
        BY <3>2 DEF Buffer
      <4> QED
        BY <2>0, <3>1, <4>1, SMTT(20)
    <3> QED
      BY <2>0, <3>2, <3>3
  <2> QED
    BY <2>1, <2>2
<1>6. op # Promise!NoOp
  <2>1. Busy
    BY DEF Emit, EmitRepeated, Busy, Stage
  <2>2. op.kind # "none"
    BY <2>1 DEF IInv, Arguments
  <2> QED
    BY <2>2, NoOpIsNone, NoOpProperties
<1>7. Status = "running" /\ Status' = Status /\ UNCHANGED <<op, window_start>>
  BY DEF Emit, EmitRepeated, Status
<1> QED
  BY <1>1, <1>3, <1>4, <1>5, <1>6, <1>7 DEF Promise!Emit

(* An instruction the decoder has validated is one the promise allows.     *)
LEMMA CallImplements ==
  ASSUME IInv, NEW o \in Operation, NEW first \in {"emit", "chunk", "sourceSeek"},
         Call(o, first),
         o.base = logical_len,
         o.kind # "none",
         o.kind = "add"     => o.size = Len(o.data),
         o.kind = "run"     => Len(o.data) = 1,
         o.kind = "source"  => o.start + o.size <= Len(Source),
         o.kind = "target"  => o.start + o.size <= window_start,
         o.kind = "current" => window_start <= o.start /\ o.start < logical_len
  PROVE  Promise!Start(op')
<1>1. op' = o /\ pc = "idle" /\ pc' = first /\ logical_len + o.size <= MaxTarget
  BY DEF Call
<1>2. Status = "running" /\ Status' = "running"
  BY <1>1 DEF Status
<1>3. op = Promise!NoOp
  <2>1. op = NoOp
    BY <1>1 DEF IInv, Quiet, Stage
  <2> QED
    BY <2>1, NoOpIsNone
<1>4. Output' = Output /\ window_start' = window_start
  BY DEF Call, Output, drained
<1>5. Len(Output) = logical_len
  BY OutputBytes
<1>6. Promise!Valid(o, Len(Output))
  BY <1>1, <1>5 DEF Promise!Valid
<1> QED
  BY <1>1, <1>2, <1>3, <1>4, <1>6 DEF Promise!Start

(* The five kinds of instruction are called with validated arguments.      *)
LEMMA CallsImplement ==
  ASSUME IInv, Add \/ Run \/ CopyFromSource \/ CopyFromTarget \/ CopyFromCurrent
  PROVE  Promise!Start(op')
<1>0. logical_len \in Nat
  BY DEF IInv, TypeOK, Position
<1>1. CASE Add
  <2>1. PICK bytes \in Literal : Call(Args("add", bytes, 0, Len(bytes)), "emit")
    BY <1>1 DEF Add
  <2>2. bytes \in Seq(Byte) /\ Len(bytes) \in Nat
    OBVIOUS
  <2> DEFINE o == Args("add", bytes, 0, Len(bytes))
  <2>3. /\ o \in Operation /\ o.kind = "add" /\ o.size = Len(o.data)
        /\ o.base = logical_len
    BY <1>0, <2>2 DEF Args, Operation, Kind
  <2>4. Call(o, "emit")
    BY <2>1
  <2> HIDE DEF o
  <2> QED
    BY <2>3, <2>4, CallImplements
<1>2. CASE Run
  <2>1. PICK byte \in Byte, size \in Position :
          Call(Args("run", <<byte>>, 0, size), "chunk")
    BY <1>2 DEF Run
  <2>2. <<byte>> \in Seq(Byte) /\ Len(<<byte>>) = 1 /\ size \in Nat
    BY DEF Position
  <2> DEFINE o == Args("run", <<byte>>, 0, size)
  <2>3. /\ o \in Operation /\ o.kind = "run" /\ Len(o.data) = 1
        /\ o.base = logical_len
    BY <1>0, <2>2 DEF Args, Operation, Kind
  <2>4. Call(o, "chunk")
    BY <2>1
  <2> HIDE DEF o
  <2> QED
    BY <2>3, <2>4, CallImplements
<1>3. CASE CopyFromSource
  <2>1. PICK start \in 0..Len(Source), size \in 0..Len(Source) :
          /\ start + size <= Len(Source)
          /\ Call(Args("source", << >>, start, size), "sourceSeek")
    BY <1>3 DEF CopyFromSource
  <2>2. start \in Nat /\ size \in Nat
    OBVIOUS
  <2> DEFINE o == Args("source", << >>, start, size)
  <2>3. /\ o \in Operation /\ o.kind = "source" /\ o.start + o.size <= Len(Source)
        /\ o.base = logical_len
    BY <1>0, <2>1, <2>2, EmptySequence DEF Args, Operation, Kind
  <2>4. Call(o, "sourceSeek")
    BY <2>1
  <2> HIDE DEF o
  <2> QED
    BY <2>3, <2>4, CallImplements
<1>4. CASE CopyFromTarget
  <2>1. PICK start \in Position, size \in Position :
          /\ start + size <= window_start
          /\ Call(Args("target", << >>, start, size), "chunk")
    BY <1>4 DEF CopyFromTarget
  <2>2. start \in Nat /\ size \in Nat
    BY DEF Position
  <2> DEFINE o == Args("target", << >>, start, size)
  <2>3. /\ o \in Operation /\ o.kind = "target" /\ o.start + o.size <= window_start
        /\ o.base = logical_len
    BY <1>0, <2>1, <2>2, EmptySequence DEF Args, Operation, Kind
  <2>4. Call(o, "chunk")
    BY <2>1
  <2> HIDE DEF o
  <2> QED
    BY <2>3, <2>4, CallImplements
<1>5. CASE CopyFromCurrent
  <2>1. PICK start \in Position, size \in Position :
          /\ window_start <= start /\ start < logical_len
          /\ Call(Args("current", << >>, start, size), "chunk")
    BY <1>5 DEF CopyFromCurrent
  <2>2. start \in Nat /\ size \in Nat
    BY DEF Position
  <2> DEFINE o == Args("current", << >>, start, size)
  <2>3. /\ o \in Operation /\ o.kind = "current" /\ o.base = logical_len
        /\ window_start <= o.start /\ o.start < logical_len
    BY <1>0, <2>1, <2>2, EmptySequence DEF Args, Operation, Kind
  <2>4. Call(o, "chunk")
    BY <2>1
  <2> HIDE DEF o
  <2> QED
    BY <2>3, <2>4, CallImplements
<1> QED
  BY <1>1, <1>2, <1>3, <1>4, <1>5

(* A window begins at the length decoded so far.                           *)
LEMMA BeginWindowImplements == ASSUME IInv, BeginWindow PROVE Promise!BeginWindow
<1>1. op = Promise!NoOp
  <2>1. op = NoOp
    BY DEF BeginWindow, IInv, Quiet, Stage
  <2> QED
    BY <2>1, NoOpIsNone
<1>2. Output' = Output /\ window_start' = Len(Output) /\ op' = op
  BY OutputBytes DEF BeginWindow, Output, drained
<1>3. Status = "running" /\ Status' = "running"
  BY DEF BeginWindow, Status
<1> QED
  BY <1>1, <1>2, <1>3 DEF Promise!BeginWindow

(* An instruction returns when its last byte has been emitted.             *)
LEMMA ReturnImplements == ASSUME IInv, Return PROVE Promise!Return
<1>1. Busy /\ sent = 0 /\ copied = op.size /\ logical_len = op.base + copied + sent
  BY DEF Return, IInv, Busy, Stage, Arguments
<1>2. op # Promise!NoOp
  <2>1. op.kind # "none"
    BY <1>1 DEF IInv, Arguments
  <2> QED
    BY <2>1, NoOpIsNone, NoOpProperties
<1>3. Len(Output) = op.base + op.size
  <2>1. op.base \in Nat /\ op.size \in Nat
    BY DEF IInv, TypeOK, Operation
  <2> QED
    BY <1>1, <2>1, OutputBytes
<1>4. op' = Promise!NoOp
  BY NoOpIsNone DEF Return
<1>5. Output' = Output /\ window_start' = window_start
  BY DEF Return, Output, drained
<1>6. Status = "running" /\ Status' = "running"
  BY DEF Return, Status
<1> QED
  BY <1>2, <1>3, <1>4, <1>5, <1>6 DEF Promise!Return

(* Every other step leaves the promise where it is, or ends it.            *)
LEMMA OtherImplements ==
  ASSUME IInv, IInv', Next, ~Emit, ~EmitRepeated, ~BeginWindow, ~Return,
         ~(Add \/ Run \/ CopyFromSource \/ CopyFromTarget \/ CopyFromCurrent)
  PROVE  Promise!Stop \/ UNCHANGED Promise!vars
<1>1. Output' = Output
  BY OutputKept
<1>2. UNCHANGED <<op, window_start>> /\ pc \notin {"done", "failed", "rejected"}
  <2>1. CASE Decoder
    BY <2>1 DEF Decoder, FinishWindow, Finish, Reject
  <2>2. CASE Interrupted
    BY <2>2 DEF Interrupted
  <2>3. CASE Step
    BY <2>3
    DEF Step, RunChunk, SourceChunk, TargetChunk, ChunkOf, SourceSeek, SourceRead,
        SourceChunkRead, Emitted, MakeRoom, NothingToDrain, StartDrain,
        SeekUnlessAt, SeekTarget, Fail, Write, Drained, Flush, FlushTarget,
        ReadSeek, Read, SeekBack, FinalFlush, FinalSeek
  <2> QED
    BY <2>1, <2>2, <2>3 DEF Next
<1>3. Status = "running" /\ Status' \in {"running", "delivered", "failed"}
  BY <1>2 DEF Status
<1>4. Status' = "delivered" => op = Promise!NoOp
  <2>1. Status' = "delivered" => pc' = "done"
    BY DEF Status
  <2>2. pc' = "done" => op' = NoOp
    BY DEF IInv, Quiet, Stage
  <2> QED
    BY <1>2, <2>1, <2>2, NoOpIsNone
<1> QED
  BY <1>1, <1>2, <1>3, <1>4 DEF Promise!Stop, Promise!vars

(* Step by step, the writer does what DecodedOutput allows.                *)
LEMMA StepImplements ==
  ASSUME IInv, IInv', Staged, [Next]_vars
  PROVE  [Promise!Next]_(Promise!vars)
<1>1. CASE UNCHANGED vars
  BY <1>1 DEF vars, Promise!vars, Output, drained, Status
<1>2. CASE Next
  BY <1>2, EmitImplements, CallsImplement, BeginWindowImplements,
     ReturnImplements, OtherImplements DEF Promise!Next
<1> QED
  BY <1>1, <1>2

(* Nothing is decoded at the start.                                        *)
LEMMA InitImplements == ASSUME Init PROVE Promise!Init
<1>1. Output = << >>
  BY EmptySequence DEF Init, Output
<1>2. Status = "running"
  BY DEF Init, Status
<1> QED
  BY <1>1, <1>2, NoOpIsNone DEF Init, Promise!Init
-----------------------------------------------------------------------------
(***************************************************************************)
(* The theorems.                                                           *)
(***************************************************************************)

(* Whatever the delta asks for and however the streams answer, pending and *)
(* scratch never hold more than IO_BUFFER_SIZE bytes, the output never     *)
(* passes max_target_size, and every field keeps its type.                 *)
THEOREM TypeCorrect == Spec => []TypeOK
<1>1. IInv => TypeOK
  BY DEF IInv
<1> QED
  BY <1>1, Invariant, PTL

(* With streams that keep their contract no decode fails: a read-back is   *)
(* never answered by the end of the target, nor a source read by the end   *)
(* of the source.                                                          *)
THEOREM FailureNeedsFault == Spec => []NoSpuriousFailure
<1>1. IInv => NoSpuriousFailure
  BY DEF IInv
<1> QED
  BY <1>1, Invariant, PTL

(* The remembered position is the target's position, so that no seek the   *)
(* writer skips was needed.                                                *)
THEOREM PositionCorrect == Spec => []PositionKnown
<1>1. IInv => PositionKnown
  BY DEF IInv, Positions, PositionKnown
<1> QED
  BY <1>1, Invariant, PTL

(* A window that passed its checks is in the target before the next one    *)
(* begins, and stays there when that one fails.                            *)
THEOREM WindowsArePersisted == Spec => []WindowsPersisted
<1>1. Init => PendingIsOfWindow
  BY EmptySequence DEF Init, PendingIsOfWindow, drained
<1>2. IInv /\ PendingIsOfWindow /\ [Next]_vars => PendingIsOfWindow'
  BY PersistedNext
<1>3. ASSUME IInv, PendingIsOfWindow
      PROVE  WindowsPersisted
  <2>1. (pc = "idle" /\ ~in_window) => pending = << >>
    BY <1>3 DEF IInv, Positions
  <2>2. ASSUME NEW o \in Offset, o < window_start
        PROVE  file[o] # NoByte
    <3>1. /\ window_start \in Nat /\ drained \in Int /\ written \in Nat
          /\ window_start <= drained
      BY <1>3 DEF IInv, TypeOK, Position, drained, PendingIsOfWindow
    <3>2. o \in Int
      BY TargetAssumption DEF Offset
    <3>3. o < drained + written
      BY <2>2, <3>1, <3>2
    <3> QED
      BY <1>3, <3>3 DEF IInv, Contents
  <2> QED
    BY <2>1, <2>2 DEF WindowsPersisted
<1> QED
  BY <1>1, <1>2, <1>3, Invariant, PTL DEF Spec

(* A decode that succeeds leaves exactly the decoded length in the target, *)
(* flushed, and the target positioned at its end.                          *)
THEOREM DeliveryIsWhole == Spec => []DeliveredWhole
<1>1. IInv => DeliveredWhole
  <2> SUFFICES ASSUME IInv, pc = "done"
               PROVE  /\ pending = << >>
                      /\ \A o \in Offset : file[o] # NoByte <=> o < logical_len
                      /\ synced = file
                      /\ file_pos = logical_len
    BY DEF DeliveredWhole
  <2>1. pending = << >> /\ written = 0 /\ synced = file /\ file_pos = logical_len
    BY DEF IInv, Positions
  <2>2. drained + written = logical_len
    BY <2>1, EmptySequence DEF drained, IInv, TypeOK, Position
  <2> QED
    BY <2>1, <2>2 DEF IInv, Contents
<1> QED
  BY <1>1, Invariant, PTL

(* No byte given to the target is ever written again.                      *)
THEOREM TargetWrittenOnce == Spec => WrittenOnce
<1>1. ASSUME IInv, [Next]_vars
      PROVE  [\A o \in Offset : file[o] # NoByte => file'[o] = file[o]]_file
  <2>1. CASE Write
    <3>1. file_pos = drained + written
      BY <1>1, <2>1 DEF IInv, Positions, Write
    <3>2. \A o \in Offset : file[o] # NoByte => ~(file_pos <= o)
      BY <1>1, <3>1 DEF IInv, Contents, TypeOK, Position, Offset
    <3>3. ASSUME NEW count \in 1..(Len(pending) - written),
                 file' = Stored(SubSeq(pending, written + 1, written + count))
          PROVE  \A o \in Offset : file[o] # NoByte => file'[o] = file[o]
      BY <3>2, <3>3 DEF Stored
    <3>4. \/ UNCHANGED file
          \/ \E count \in 1..(Len(pending) - written) :
               file' = Stored(SubSeq(pending, written + 1, written + count))
      BY <2>1 DEF Write
    <3> QED
      BY <3>3, <3>4
  <2>2. CASE ~Write
    BY <1>1, <2>2
    DEF Next, Decoder, Step, Interrupted, vars, BeginWindow, Add, Run,
        CopyFromSource, CopyFromTarget, CopyFromCurrent, Call, FinishWindow,
        Finish, Reject, RunChunk, SourceChunk, TargetChunk, Return, SourceSeek,
        SourceRead, SourceChunkRead, Emit, Emitted, EmitRepeated, MakeRoom,
        NothingToDrain, StartDrain, SeekUnlessAt, Drained, Flush, 
        ReadSeek, Read, SeekBack, FinalFlush, FinalSeek
  <2> QED
    BY <2>1, <2>2
<1> QED
  BY <1>1, Invariant, PTL DEF Spec, WrittenOnce

(* Short writes, drains, seeks and read-backs included, the writer         *)
(* implements DecodedOutput: for every alphabet, buffer size and source,   *)
(* the bytes of target and pending together are what RFC 3284 says.        *)
THEOREM WriterImplementsOutput == Spec => ImplementsDecodedOutput
<1>1. Init => Staged
  BY DEF Init, Staged, Stage
<1>2. IInv /\ Staged /\ [Next]_vars => Staged'
  BY StagedNext
<1>3. Init => Promise!Init
  BY InitImplements
<1>4. IInv /\ IInv' /\ Staged /\ [Next]_vars => [Promise!Next]_(Promise!vars)
  BY StepImplements
<1> QED
  BY <1>1, <1>2, <1>3, <1>4, Invariant, PTL
     DEF Spec, ImplementsDecodedOutput, Promise!Spec

(* The checksum of a window has absorbed exactly the window's bytes.       *)
THEOREM ChecksumCorrect == Spec => []ChecksumCoversWindow
<1>1. Init => ChecksumCoversWindow
  BY DEF Init, ChecksumCoversWindow
<1>2. IInv /\ ChecksumCoversWindow /\ [Next]_vars => ChecksumCoversWindow'
  BY ChecksumNext
<1> QED
  BY <1>1, <1>2, Invariant, PTL DEF Spec
-----------------------------------------------------------------------------
(* The checksum.  Pairs of sums that were not reduced after every chunk    *)
(* differ from those that were by multiples of MODULUS.                    *)
Pair == [s1: Nat, s2: Nat]

AbsorbAll(sums, bytes) == Checksum!FoldLeft(Checksum!Absorb, sums, bytes)
AddAll(terms) == Checksum!FoldLeft(LAMBDA x, y : x + y, 0, terms)

(* P are the sums after every beginning of the bytes.                      *)
Absorbs(P, sums, bytes) ==
  /\ P \in [0..Len(bytes) -> Pair] /\ P[0] = sums
  /\ \A k \in 1..Len(bytes) : P[k] = Checksum!Absorb(P[k - 1], bytes[k])

LEMMA AbsorbType ==
  ASSUME NEW sums \in Pair, NEW byte \in Nat
  PROVE  Checksum!Absorb(sums, byte) \in Pair
  BY DEF Pair, Checksum!Absorb

LEMMA MaxIsLargest == \A r : Checksum!Max(r) = Largest(r)
  BY DEF Checksum!Max, Largest

LEMMA AbsorbFolds ==
  ASSUME NEW sums \in Pair, NEW bytes \in Seq(Nat)
  PROVE  \E P : /\ Absorbs(P, sums, bytes)
               /\ AbsorbAll(sums, bytes) = P[Len(bytes)]
  <1> DEFINE n == Len(bytes)
             D == DOMAIN bytes
             step == [y \in (1..n) \X Pair |->
                        Checksum!Absorb(y[2], bytes[y[1]])]
             Turn(f) == [s \in SUBSET D |->
               IF s = {} THEN sums
               ELSE Checksum!Absorb(f[s \ {Checksum!Max(s)}],
                                    bytes[Checksum!Max(s)])]
             g == CHOOSE f : f = Turn(f)
  <1>1. D = 1..n /\ n \in Nat /\ \A i \in 1..n : bytes[i] \in Nat
    OBVIOUS
  <1>2. AbsorbAll(sums, bytes) = g[D]
    BY DEF AbsorbAll, Checksum!FoldLeft, Checksum!MapThenFoldSet
  <1> HIDE DEF D, n
  <1>3. step \in [(1..n) \X Pair -> Pair]
    BY <1>1, AbsorbType
  <1>4. \A x \in 1..n, v \in Pair :
          step[<<x, v>>] = Checksum!Absorb(v, bytes[x])
    OBVIOUS
  <1> HIDE DEF step
  <1>5. PICK f \in [SUBSET (1..n) -> Pair] : FoldsUp(f, n, sums, step)
    BY <1>1, <1>3, FoldUpExists
  <1>6. f = Turn(f)
    <2> DEFINE left(r) == step[<<Largest(r), f[r \ {Largest(r)}]>>]
               right(r) == Checksum!Absorb(f[r \ {Checksum!Max(r)}],
                                           bytes[Checksum!Max(r)])
    <2>1. ASSUME NEW r \in SUBSET (1..n), r # {}
          PROVE  left(r) = right(r)
      <3>1. Largest(r) \in 1..n /\ f[r \ {Largest(r)}] \in Pair
        BY <1>1, <2>1, HasLargest
      <3> QED
        BY <1>4, <3>1, MaxIsLargest
    <2> HIDE DEF left, right
    <2>2. [r \in SUBSET (1..n) |-> IF r = {} THEN sums ELSE left(r)]
          = [r \in SUBSET (1..n) |-> IF r = {} THEN sums ELSE right(r)]
      BY <2>1
    <2> QED
      BY <1>1, <1>5, <2>2, Zenon DEF FoldsUp, left, right
  <1>7. g = Turn(g)
    <2> HIDE DEF Turn
    <2> QED
      BY <1>6
  <1> HIDE DEF g
  <1>8. FoldsWithin(g, Pair, n, sums, step)
    <2>1. g[{}] = sums
      BY <1>7, Zenon
    <2>2. ASSUME NEW s \in SUBSET (1..n), s # {}, g[s \ {Largest(s)}] \in Pair
          PROVE  g[s] = step[<<Largest(s), g[s \ {Largest(s)}]>>]
      <3>1. Largest(s) \in 1..n
        BY <1>1, <2>2, HasLargest
      <3>2. g[s] = Checksum!Absorb(g[s \ {Checksum!Max(s)}],
                                   bytes[Checksum!Max(s)])
        BY <1>1, <1>7, <2>2, Zenon
      <3> QED
        BY <1>4, <2>2, <3>1, <3>2, MaxIsLargest
    <2> QED
      BY <2>1, <2>2 DEF FoldsWithin
  <1>9. PICK P : Climbs(P, Pair, n, sums, step) /\ P[n] = g[1..n]
    <2>1. ClimbsTo(g, Pair, n, sums, step)
      BY <1>1, <1>3, <1>8, FoldClimbs
    <2> QED
      BY <2>1 DEF ClimbsTo
  <1>10. ASSUME NEW k \in 1..n
         PROVE  P[k] = Checksum!Absorb(P[k - 1], bytes[k])
    <2>1. k - 1 \in 0..n
      BY <1>1
    <2> QED
      BY <1>4, <1>9, <2>1 DEF Climbs
  <1> QED
    BY <1>1, <1>2, <1>9, <1>10 DEF Climbs, Absorbs, n

LEMMA AddFolds ==
  ASSUME NEW n \in Nat, NEW terms \in [1..n -> Nat]
  PROVE  \E P : RunningSum(P, terms, n) /\ AddAll(terms) = P[n]
  <1> DEFINE step == [y \in (1..n) \X Nat |-> y[2] + terms[y[1]]]
             Turn(f) == [s \in SUBSET (1..n) |->
               IF s = {} THEN 0
               ELSE f[s \ {Checksum!Max(s)}] + terms[Checksum!Max(s)]]
             g == CHOOSE f : f = Turn(f)
  <1>1. DOMAIN terms = 1..n /\ \A i \in 1..n : terms[i] \in Nat
    OBVIOUS
  <1>2. AddAll(terms) = g[1..n]
    <2>1. DOMAIN terms = 1..n
      OBVIOUS
    <2> QED
      BY <2>1 DEF AddAll, Checksum!FoldLeft, Checksum!MapThenFoldSet
  <1>3. step \in [(1..n) \X Nat -> Nat]
    BY <1>1
  <1>4. \A x \in 1..n, v \in Nat : step[<<x, v>>] = v + terms[x]
    OBVIOUS
  <1> HIDE DEF step
  <1>5. PICK f \in [SUBSET (1..n) -> Nat] : FoldsUp(f, n, 0, step)
    BY <1>3, FoldUpExists
  <1>6. f = Turn(f)
    <2> DEFINE left(r) == step[<<Largest(r), f[r \ {Largest(r)}]>>]
               right(r) == f[r \ {Checksum!Max(r)}] + terms[Checksum!Max(r)]
    <2>1. ASSUME NEW r \in SUBSET (1..n), r # {}
          PROVE  left(r) = right(r)
      <3>1. Largest(r) \in 1..n /\ f[r \ {Largest(r)}] \in Nat
        BY <2>1, HasLargest
      <3> QED
        BY <1>4, <3>1, MaxIsLargest
    <2> HIDE DEF left, right
    <2>2. [r \in SUBSET (1..n) |-> IF r = {} THEN 0 ELSE left(r)]
          = [r \in SUBSET (1..n) |-> IF r = {} THEN 0 ELSE right(r)]
      BY <2>1
    <2> QED
      BY <1>5, <2>2, Zenon DEF FoldsUp, left, right
  <1>7. g = Turn(g)
    <2> HIDE DEF Turn
    <2> QED
      BY <1>6
  <1> HIDE DEF g
  <1>8. FoldsWithin(g, Nat, n, 0, step)
    <2>1. g[{}] = 0
      BY <1>7, Zenon
    <2>2. ASSUME NEW s \in SUBSET (1..n), s # {}, g[s \ {Largest(s)}] \in Nat
          PROVE  g[s] = step[<<Largest(s), g[s \ {Largest(s)}]>>]
      <3>1. Largest(s) \in 1..n
        BY <2>2, HasLargest
      <3>2. g[s] = g[s \ {Checksum!Max(s)}] + terms[Checksum!Max(s)]
        BY <1>7, <2>2, Zenon
      <3> QED
        BY <1>4, <2>2, <3>1, <3>2, MaxIsLargest
    <2> QED
      BY <2>1, <2>2 DEF FoldsWithin
  <1>9. PICK P : Climbs(P, Nat, n, 0, step) /\ P[n] = g[1..n]
    <2>1. ClimbsTo(g, Nat, n, 0, step)
      BY <1>3, <1>8, FoldClimbs
    <2> QED
      BY <2>1 DEF ClimbsTo
  <1>10. ASSUME NEW k \in 1..n
         PROVE  P[k] = terms[k] + P[k - 1]
    <2>1. k - 1 \in 0..n /\ P[k - 1] \in Nat /\ terms[k] \in Nat
      BY <1>9 DEF Climbs
    <2>2. P[k] = P[k - 1] + terms[k]
      BY <1>4, <1>9, <2>1 DEF Climbs
    <2> QED
      BY <2>1, <2>2
  <1> QED
    BY <1>2, <1>9, <1>10 DEF Climbs, RunningSum
-----------------------------------------------------------------------------
(* Two numbers, or two pairs of sums, that differ by multiples of MODULUS. *)
Same(x, y) == x % MODULUS = y % MODULUS
Agree(s, t) == Same(s.s1, t.s1) /\ Same(s.s2, t.s2)
Reduced(s) == s.s1 \in 0..(MODULUS - 1) /\ s.s2 \in 0..(MODULUS - 1)

LEMMA SameAdds ==
  ASSUME NEW x \in Nat, NEW y \in Nat, Same(x, y),
         NEW u \in Nat, NEW v \in Nat, Same(u, v)
  PROVE  Same(x + u, y + v)
  <1> DEFINE d == MODULUS
  <1>1. d \in Nat \ {0}
    BY ModulusAssumption
  <1> HIDE DEF d
  <1>2. ASSUME NEW p \in Nat, NEW q \in Nat
        PROVE  ((p % d) + q) % d = (p + q) % d
    BY <1>1, PhaseAdds
  <1>3. x % d = y % d /\ u % d = v % d
    BY DEF Same, d
  <1>4. (x + u) % d = (y + u) % d
    BY <1>2, <1>3
  <1>5. (u + y) % d = (v + y) % d
    BY <1>2, <1>3
  <1>6. u + y = y + u /\ v + y = y + v
    OBVIOUS
  <1> QED
    BY <1>4, <1>5, <1>6 DEF Same, d

LEMMA AbsorbAgrees ==
  ASSUME NEW s \in Pair, NEW t \in Pair, Agree(s, t), NEW byte \in Nat
  PROVE  Agree(Checksum!Absorb(s, byte), Checksum!Absorb(t, byte))
  <1> DEFINE x == s.s1 + byte
             y == t.s1 + byte
  <1>1. /\ s.s1 \in Nat /\ s.s2 \in Nat /\ t.s1 \in Nat /\ t.s2 \in Nat
        /\ Same(s.s1, t.s1) /\ Same(s.s2, t.s2) /\ Same(byte, byte)
    <2>1. s.s1 \in Nat /\ s.s2 \in Nat /\ t.s1 \in Nat /\ t.s2 \in Nat
      BY DEF Pair
    <2>2. Same(s.s1, t.s1) /\ Same(s.s2, t.s2)
      BY DEF Agree
    <2>3. Same(byte, byte)
      BY DEF Same
    <2> QED
      BY <2>1, <2>2, <2>3
  <1>2. Same(x, y) /\ x \in Nat /\ y \in Nat
    <2> DEFINE p == s.s1
               q == t.s1
    <2>1. p \in Nat /\ q \in Nat /\ Same(p, q) /\ Same(byte, byte)
      BY <1>1
    <2> HIDE DEF p, q
    <2>2. Same(p + byte, q + byte) /\ p + byte \in Nat /\ q + byte \in Nat
      BY <2>1, SameAdds
    <2> QED
      BY <2>2 DEF p, q
  <1> HIDE DEF x, y
  <1>3. Same(s.s2 + x, t.s2 + y)
    <2> DEFINE p == s.s2
               q == t.s2
    <2>1. p \in Nat /\ q \in Nat /\ Same(p, q)
      BY <1>1
    <2> HIDE DEF p, q
    <2>2. Same(p + x, q + y)
      BY <1>2, <2>1, SameAdds
    <2> QED
      BY <2>2 DEF p, q
  <1>4. s.s2 + x = s.s2 + s.s1 + byte /\ t.s2 + y = t.s2 + t.s1 + byte
    BY <1>1 DEF x, y
  <1> QED
    BY <1>2, <1>3, <1>4 DEF Agree, Checksum!Absorb, x, y

LEMMA ReduceAgrees ==
  ASSUME NEW s \in Pair, NEW t \in Pair, Agree(s, t)
  PROVE  /\ Checksum!Reduce(s) \in Pair /\ Reduced(Checksum!Reduce(s))
         /\ Agree(Checksum!Reduce(s), t)
  <1>1. s.s1 \in Nat /\ s.s2 \in Nat /\ MODULUS \in Nat \ {0}
    BY ModulusAssumption DEF Pair
  <1>2. /\ s.s1 % MODULUS \in 0..(MODULUS - 1)
        /\ s.s2 % MODULUS \in 0..(MODULUS - 1)
    BY <1>1, ModRange
  <1>3. /\ (s.s1 % MODULUS) % MODULUS = s.s1 % MODULUS
        /\ (s.s2 % MODULUS) % MODULUS = s.s2 % MODULUS
    BY <1>1, <1>2, ModSmall
  <1> DEFINE a == s.s1 % MODULUS
             b == s.s2 % MODULUS
  <1>4. a \in Nat /\ b \in Nat
    BY <1>1, <1>2
  <1> HIDE DEF a, b
  <1>5. Checksum!Reduce(s) = [s1 |-> a, s2 |-> b]
    BY DEF Checksum!Reduce, a, b
  <1>6. Checksum!Reduce(s) \in Pair
    BY <1>4, <1>5 DEF Pair
  <1>7. Reduced(Checksum!Reduce(s))
    BY <1>2, <1>5 DEF Reduced, a, b
  <1>8. Agree(Checksum!Reduce(s), t)
    BY <1>3, <1>5 DEF Agree, Same, a, b
  <1> QED
    BY <1>6, <1>7, <1>8

(* What agrees and is reduced is the remainder.                            *)
LEMMA ReducedIsReduce ==
  ASSUME NEW s \in Pair, NEW t \in Pair, Agree(s, t), Reduced(s)
  PROVE  s = Checksum!Reduce(t)
  <1>1. MODULUS \in Nat \ {0}
    BY ModulusAssumption
  <1>2. s.s1 % MODULUS = s.s1 /\ s.s2 % MODULUS = s.s2
    BY <1>1, ModSmall DEF Reduced
  <1>3. s.s1 = t.s1 % MODULUS /\ s.s2 = t.s2 % MODULUS
    BY <1>2 DEF Agree, Same
  <1>4. s = [s1 |-> s.s1, s2 |-> s.s2]
    BY DEF Pair
  <1> QED
    BY <1>3, <1>4 DEF Checksum!Reduce
-----------------------------------------------------------------------------
(* The bytes of the part are those of the whole from i on.                 *)
Slice(part, whole, i) ==
  /\ part \in Seq(Nat) /\ i \in Nat /\ i + Len(part) <= Len(whole)
  /\ \A k \in 1..Len(part) : part[k] = whole[i + k]

(* U are the unreduced sums of the beginnings of the whole.  Sums stand at *)
(* i if they are those of the first i bytes but for multiples of MODULUS.  *)
StandAt(sums, U, i) == sums \in Pair /\ Reduced(sums) /\ Agree(sums, U[i])

LEMMA AbsorbSlice ==
  ASSUME NEW whole \in Seq(Nat), NEW U, Absorbs(U, Checksum!new, whole),
         NEW i, NEW part, Slice(part, whole, i),
         NEW sums \in Pair, Agree(sums, U[i]), NEW j, j = i + Len(part)
  PROVE  AbsorbAll(sums, part) \in Pair /\ Agree(AbsorbAll(sums, part), U[j])
  <1> DEFINE n == Len(part)
  <1>1. /\ part \in Seq(Nat) /\ n \in Nat /\ i \in Nat /\ i + n <= Len(whole)
        /\ Len(whole) \in Nat /\ j = i + n
        /\ \A k \in 1..n : part[k] = whole[i + k] /\ part[k] \in Nat
    <2>1. /\ part \in Seq(Nat) /\ i \in Nat /\ i + n <= Len(whole)
          /\ \A k \in 1..n : part[k] = whole[i + k]
      BY DEF Slice
    <2>2. n \in Nat /\ \A k \in 1..n : part[k] \in Nat
      BY <2>1
    <2> QED
      BY <2>1, <2>2
  <1>2. PICK P : Absorbs(P, sums, part) /\ AbsorbAll(sums, part) = P[n]
    BY <1>1, AbsorbFolds
  <1>3. /\ P \in [0..n -> Pair] /\ P[0] = sums
        /\ \A k \in 1..n : P[k] = Checksum!Absorb(P[k - 1], part[k])
    BY <1>2 DEF Absorbs
  <1>4. /\ U \in [0..Len(whole) -> Pair]
        /\ \A k \in 1..Len(whole) : U[k] = Checksum!Absorb(U[k - 1], whole[k])
    BY DEF Absorbs
  <1> HIDE DEF n
  <1> DEFINE W == {k \in 0..n : Agree(P[k], U[i + k])}
  <1>5. 0 \in W
    <2>1. i + 0 = i
      BY <1>1
    <2> QED
      BY <1>1, <1>3, <2>1
  <1>6. ASSUME NEW k \in 0..(n - 1), k \in W
        PROVE  k + 1 \in W
    <2> DEFINE l == i + k
    <2>1. /\ k + 1 \in 1..n /\ (k + 1) - 1 = k /\ k \in 0..n /\ k + 1 \in 0..n
          /\ l + 1 \in 1..Len(whole) /\ (l + 1) - 1 = l /\ l \in 0..Len(whole)
          /\ i + (k + 1) = l + 1
      BY <1>1
    <2>2. Agree(P[k], U[l])
      BY <1>6
    <2> HIDE DEF l
    <2>3. P[k + 1] = Checksum!Absorb(P[k], part[k + 1])
      BY <1>3, <2>1
    <2>4. U[l + 1] = Checksum!Absorb(U[l], whole[l + 1])
      BY <1>4, <2>1
    <2>5. part[k + 1] = whole[l + 1] /\ part[k + 1] \in Nat
      <3>1. \A m \in 1..n : part[m] = whole[i + m] /\ part[m] \in Nat
        BY <1>1
      <3>2. part[k + 1] = whole[i + (k + 1)] /\ part[k + 1] \in Nat
        BY <2>1, <3>1
      <3> QED
        BY <2>1, <3>2
    <2>6. P[k] \in Pair /\ U[l] \in Pair
      BY <1>3, <1>4, <2>1
    <2>7. Agree(P[k + 1], U[l + 1])
      BY <2>2, <2>3, <2>4, <2>5, <2>6, AbsorbAgrees
    <2> QED
      BY <2>1, <2>7
  <1> HIDE DEF W
  <1>7. 0..n \subseteq W
    BY <1>1, <1>5, <1>6, InductionUpTo
  <1>8. n \in 0..n
    BY <1>1
  <1>9. Agree(P[n], U[j]) /\ P[n] \in Pair
    BY <1>1, <1>3, <1>7, <1>8 DEF W
  <1> QED
    BY <1>2, <1>9

(* The chunks of a part end at E[1], E[2] and so on, the last at its end.  *)
Cuts(E, K, chunks, part) ==
  /\ K \in Nat /\ DOMAIN chunks = 1..K
  /\ E \in [0..K -> Nat] /\ E[0] = 0 /\ E[K] = Len(part)
  /\ \A k \in 1..K : Slice(chunks[k], part, E[k - 1])
                     /\ E[k] = E[k - 1] + Len(chunks[k])

(* A slice of a sequence of numbers.                                       *)
LEMMA SliceOf ==
  ASSUME NEW part \in Seq(Nat), NEW i \in Nat, NEW j \in Nat,
         i <= j, j <= Len(part)
  PROVE  /\ Slice(SubSeq(part, i + 1, j), part, i)
         /\ Len(SubSeq(part, i + 1, j)) = j - i
  <1> DEFINE n == j - i
             t == SubSeq(part, i + 1, j)
  <1>1. n \in Nat /\ i + n = j /\ i + n <= Len(part)
    OBVIOUS
  <1> HIDE DEF n
  <1>2. /\ SubSeq(part, i + 1, i + n) \in Seq(Nat)
        /\ Len(SubSeq(part, i + 1, i + n)) = n
        /\ \A k \in 1..n : SubSeq(part, i + 1, i + n)[k] = part[i + k]
    BY <1>1
  <1> HIDE DEF t
  <1>3. t \in Seq(Nat) /\ Len(t) = n /\ \A k \in 1..n : t[k] = part[i + k]
    BY <1>1, <1>2 DEF t
  <1>4. Slice(t, part, i) /\ Len(t) = j - i
    BY <1>1, <1>3 DEF Slice, n
  <1> QED
    BY <1>4 DEF t

LEMMA ChunksCut ==
  ASSUME NEW part \in Seq(Nat)
  PROVE  \E E, K : Cuts(E, K, Checksum!chunks(part), part)
  <1> DEFINE n == Len(part)
             C == REDUCTION_CHUNK
             K == (n + C - 1) \div C
             c == Checksum!chunks(part)
             End(k) == IF k * C < n THEN k * C ELSE n
             E == [k \in 0..K |-> End(k)]
  <1>1. n \in Nat /\ C \in Nat \ {0}
    BY ReductionAssumption
  <1>2. c = [k \in 1..K |-> SubSeq(part, (k - 1) * C + 1, End(k))]
    BY DEF Checksum!chunks
  <1> HIDE DEF n, C, c
  <1>3. K \in Nat /\ n <= C * K /\ C * K <= n + C - 1
    <2> DEFINE a == n + C - 1
               r == a % C
    <2>1. a \in Nat
      BY <1>1
    <2>2. a = C * K + r /\ r \in 0..(C - 1) /\ K \in Int
      <3> HIDE DEF a
      <3>1. /\ a = C * (a \div C) + (a % C)
            /\ a \div C \in Int /\ a % C \in 0..(C - 1)
        BY <1>1, <2>1, ModDivision, ModRange
      <3> QED
        BY <3>1 DEF a
    <2>3. K \in Nat
      <3> DEFINE big == a
      <3>1. a <= C * a
        <4> HIDE DEF a
        <4> QED
          BY <1>1, <2>1
      <3> HIDE DEF a
      <3>2. a \div C \in Nat
        BY <1>1, <2>1, <3>1, DivAtMost
      <3> QED
        BY <3>2 DEF a
    <2> DEFINE p == C * K
    <2>4. p \in Int
      BY <1>1, <2>3
    <2> HIDE DEF K, p, r
    <2>5. n + C - 1 = p + r
      BY <2>2 DEF a, p
    <2>6. n <= p /\ p <= n + C - 1
      BY <1>1, <2>2, <2>4, <2>5
    <2> QED
      BY <2>3, <2>6 DEF p
  <1> HIDE DEF K
  <1>4. ASSUME NEW k \in 0..K
        PROVE  k * C \in Nat /\ (k < K => k * C <= n)
    <2>1. k * C \in Nat
      BY <1>1, <1>3
    <2>2. ASSUME k < K
          PROVE  k * C <= n
      <3>1. PICK e \in Nat : K = k + 1 + e
        <4>1. K - k - 1 \in Nat /\ K = k + 1 + (K - k - 1)
          BY <1>3, <2>2
        <4> QED
          BY <4>1
      <3>2. C * K = k * C + C + C * e /\ C * e \in Nat
        BY <1>1, <3>1
      <3> HIDE DEF C
      <3> QED
        BY <1>1, <1>3, <2>1, <3>2
    <2> QED
      BY <2>1, <2>2
  <1>5. ASSUME NEW k \in 0..K
        PROVE  End(k) \in Nat /\ End(k) <= n /\ (k < K => End(k) = k * C)
    BY <1>1, <1>3, <1>4
  <1>6. E \in [0..K -> Nat] /\ \A k \in 0..K : E[k] = End(k)
    BY <1>5
  <1>7. E[0] = 0 /\ E[K] = n
    <2>1. 0 * C = 0 /\ K * C = C * K /\ 0 \in 0..K /\ K \in 0..K
      BY <1>1, <1>3
    <2> QED
      BY <1>1, <1>3, <1>6, <2>1
  <1>8. ASSUME NEW k \in 1..K
        PROVE  Slice(c[k], part, E[k - 1]) /\ E[k] = E[k - 1] + Len(c[k])
    <2> DEFINE i == (k - 1) * C
               j == End(k)
    <2>1. /\ k - 1 \in 0..K /\ k - 1 < K /\ k \in 0..K
          /\ k * C = (k - 1) * C + C /\ k * C \in Nat
      BY <1>1, <1>3, <1>4
    <2>2. E[k - 1] = i /\ E[k] = j /\ i \in Nat /\ j \in Nat /\ j <= n /\ i <= n
      BY <1>4, <1>5, <1>6, <2>1
    <2>3. i <= j
      BY <1>1, <2>1, <2>2
    <2>4. c[k] = SubSeq(part, i + 1, j)
      BY <1>2
    <2> HIDE DEF i, j, E
    <2>5. /\ Slice(SubSeq(part, i + 1, j), part, i)
          /\ Len(SubSeq(part, i + 1, j)) = j - i
      BY <2>2, <2>3, SliceOf DEF n
    <2> QED
      BY <2>2, <2>4, <2>5
  <1>9. DOMAIN c = 1..K
    BY <1>2
  <1> HIDE DEF E
  <1>10. Cuts(E, K, c, part)
    BY <1>3, <1>6, <1>7, <1>8, <1>9 DEF Cuts, n
  <1> QED
    BY <1>10 DEF c

UpdateWith(sums, chunks) ==
  Checksum!FoldLeft(LAMBDA s, chunk :
                      Checksum!Reduce(
                        Checksum!FoldLeft(Checksum!Absorb, s, chunk)),
                    sums, chunks)

(* Chunk by chunk the sums go from standing at E[0] to standing at E[K].   *)
Updates(P, K, chunks, V, sums) ==
  /\ P \in [0..K -> V] /\ P[0] = sums
  /\ \A k \in 1..K : P[k] = Checksum!Reduce(AbsorbAll(P[k - 1], chunks[k]))
UpdatesTo(x, K, chunks, V, sums) ==
  \E P : Updates(P, K, chunks, V, sums) /\ x = P[K]

LEMMA UpdateSteps ==
  ASSUME NEW K \in Nat, NEW chunks, DOMAIN chunks = 1..K, NEW V, NEW sums \in V,
         \A k \in 1..K, v \in V : Checksum!Reduce(AbsorbAll(v, chunks[k])) \in V
  PROVE  UpdatesTo(UpdateWith(sums, chunks), K, chunks, V, sums)
  <1> DEFINE D == DOMAIN chunks
             step == [y \in (1..K) \X V |->
                        Checksum!Reduce(AbsorbAll(y[2], chunks[y[1]]))]
             Turn(f) == [s \in SUBSET D |->
               IF s = {} THEN sums
               ELSE Checksum!Reduce(AbsorbAll(f[s \ {Checksum!Max(s)}],
                                              chunks[Checksum!Max(s)]))]
             g == CHOOSE f : f = Turn(f)
  <1>1. D = 1..K
    OBVIOUS
  <1>2. UpdateWith(sums, chunks) = g[D]
    BY DEF UpdateWith, AbsorbAll, Checksum!FoldLeft, Checksum!MapThenFoldSet
  <1> HIDE DEF D
  <1>3. step \in [(1..K) \X V -> V]
    OBVIOUS
  <1>4. \A x \in 1..K, v \in V :
          step[<<x, v>>] = Checksum!Reduce(AbsorbAll(v, chunks[x]))
    OBVIOUS
  <1> HIDE DEF step
  <1>5. PICK f \in [SUBSET (1..K) -> V] : FoldsUp(f, K, sums, step)
    BY <1>3, FoldUpExists
  <1>6. f = Turn(f)
    <2> DEFINE left(r) == step[<<Largest(r), f[r \ {Largest(r)}]>>]
               right(r) == Checksum!Reduce(AbsorbAll(f[r \ {Checksum!Max(r)}],
                                                     chunks[Checksum!Max(r)]))
    <2>1. ASSUME NEW r \in SUBSET (1..K), r # {}
          PROVE  left(r) = right(r)
      <3>1. Largest(r) \in 1..K /\ f[r \ {Largest(r)}] \in V
        BY <2>1, HasLargest
      <3> QED
        BY <1>4, <3>1, MaxIsLargest
    <2> HIDE DEF left, right
    <2>2. [r \in SUBSET (1..K) |-> IF r = {} THEN sums ELSE left(r)]
          = [r \in SUBSET (1..K) |-> IF r = {} THEN sums ELSE right(r)]
      BY <2>1
    <2> QED
      BY <1>1, <1>5, <2>2, Zenon DEF FoldsUp, left, right
  <1>7. g = Turn(g)
    <2> HIDE DEF Turn
    <2> QED
      BY <1>6
  <1> HIDE DEF g
  <1>8. FoldsWithin(g, V, K, sums, step)
    <2>1. g[{}] = sums
      BY <1>7, Zenon
    <2>2. ASSUME NEW s \in SUBSET (1..K), s # {}, g[s \ {Largest(s)}] \in V
          PROVE  g[s] = step[<<Largest(s), g[s \ {Largest(s)}]>>]
      <3>1. Largest(s) \in 1..K
        BY <2>2, HasLargest
      <3>2. g[s] = Checksum!Reduce(AbsorbAll(g[s \ {Checksum!Max(s)}],
                                             chunks[Checksum!Max(s)]))
        BY <1>1, <1>7, <2>2, Zenon
      <3> QED
        BY <1>4, <2>2, <3>1, <3>2, MaxIsLargest
    <2> QED
      BY <2>1, <2>2 DEF FoldsWithin
  <1>9. PICK P : Climbs(P, V, K, sums, step) /\ P[K] = g[1..K]
    <2>1. ClimbsTo(g, V, K, sums, step)
      BY <1>3, <1>8, FoldClimbs
    <2> QED
      BY <2>1 DEF ClimbsTo
  <1>10. ASSUME NEW k \in 1..K
         PROVE  P[k] = Checksum!Reduce(AbsorbAll(P[k - 1], chunks[k]))
    <2>1. k - 1 \in 0..K
      OBVIOUS
    <2> QED
      BY <1>4, <1>9, <2>1 DEF Climbs
  <1> QED
    BY <1>1, <1>2, <1>9, <1>10 DEF Climbs, UpdatesTo, Updates

LEMMA UpdateIsWith ==
  ASSUME NEW sums, NEW part
  PROVE  Checksum!update(sums, part) = UpdateWith(sums, Checksum!chunks(part))
  BY DEF Checksum!update, UpdateWith

LEMMA ReduceType ==
  ASSUME NEW s \in Pair
  PROVE  Checksum!Reduce(s) \in Pair
  <1>1. Agree(s, s)
    BY DEF Agree, Same
  <1> QED
    BY <1>1, ReduceAgrees

(* Wherever the sums stand, an update takes them on by the slice's length. *)
LEMMA UpdateStands ==
  ASSUME NEW whole \in Seq(Nat), NEW U, Absorbs(U, Checksum!new, whole),
         NEW i, NEW part, Slice(part, whole, i),
         NEW sums, StandAt(sums, U, i), NEW j, j = i + Len(part)
  PROVE  StandAt(Checksum!update(sums, part), U, j)
  <1> DEFINE c == Checksum!chunks(part)
  <1>1. /\ part \in Seq(Nat) /\ i \in Nat /\ i + Len(part) <= Len(whole)
        /\ Len(part) \in Nat /\ Len(whole) \in Nat
        /\ \A k \in 1..Len(part) : part[k] = whole[i + k]
    <2>1. /\ part \in Seq(Nat) /\ i \in Nat /\ i + Len(part) <= Len(whole)
          /\ \A k \in 1..Len(part) : part[k] = whole[i + k]
      BY DEF Slice
    <2>2. Len(part) \in Nat /\ Len(whole) \in Nat
      BY <2>1
    <2> QED
      BY <2>1, <2>2
  <1>2. PICK E, K : Cuts(E, K, c, part)
    BY <1>1, ChunksCut
  <1> HIDE DEF c
  <1>3. /\ K \in Nat /\ DOMAIN c = 1..K
        /\ E \in [0..K -> Nat] /\ E[0] = 0 /\ E[K] = Len(part)
        /\ \A k \in 1..K : Slice(c[k], part, E[k - 1])
                           /\ E[k] = E[k - 1] + Len(c[k])
    BY <1>2 DEF Cuts
  <1>4. ASSUME NEW k \in 1..K, NEW v \in Pair
        PROVE  /\ AbsorbAll(v, c[k]) \in Pair
               /\ Checksum!Reduce(AbsorbAll(v, c[k])) \in Pair
    <2> DEFINE t == c[k]
    <2>1. t \in Seq(Nat) /\ Len(t) \in Nat
      BY <1>3 DEF Slice
    <2> HIDE DEF t
    <2>2. PICK P : Absorbs(P, v, t) /\ AbsorbAll(v, t) = P[Len(t)]
      BY <2>1, AbsorbFolds
    <2>3. AbsorbAll(v, t) \in Pair
      <3>1. P \in [0..Len(t) -> Pair]
        BY <2>2 DEF Absorbs
      <3>2. Len(t) \in 0..Len(t)
        BY <2>1
      <3>3. P[Len(t)] \in Pair
        BY <3>1, <3>2, Zenon
      <3> QED
        BY <2>2, <3>3
    <2>4. Checksum!Reduce(AbsorbAll(v, t)) \in Pair
      BY <2>3, ReduceType
    <2> QED
      BY <2>3, <2>4 DEF t
  <1>5. PICK P : /\ P \in [0..K -> Pair] /\ P[0] = sums
                 /\ \A k \in 1..K :
                      P[k] = Checksum!Reduce(AbsorbAll(P[k - 1], c[k]))
                 /\ UpdateWith(sums, c) = P[K]
    <2>1. sums \in Pair
      BY DEF StandAt
    <2>2. UpdatesTo(UpdateWith(sums, c), K, c, Pair, sums)
      BY <1>3, <1>4, <2>1, UpdateSteps
    <2> QED
      BY <2>2 DEF UpdatesTo, Updates
  <1> DEFINE W == {k \in 0..K : StandAt(P[k], U, i + E[k])}
  <1>6. 0 \in W
    <2>1. i + E[0] = i /\ P[0] = sums /\ 0 \in 0..K
      BY <1>1, <1>3, <1>5
    <2> QED
      BY <2>1
  <1>7. ASSUME NEW k \in 0..(K - 1), k \in W
        PROVE  k + 1 \in W
    <2> DEFINE l == k + 1
               t == c[l]
               at == i + E[k]
               to == i + E[l]
    <2>1. l \in 1..K /\ l - 1 = k /\ k \in 0..K /\ l \in 0..K /\ l \in 1..K
      BY <1>3
    <2> HIDE DEF l
    <2>2. /\ Slice(t, part, E[k]) /\ E[l] = E[k] + Len(t)
          /\ E[k] \in Nat /\ E[l] \in Nat
      BY <1>3, <2>1
    <2>3. P[k] \in Pair /\ Agree(P[k], U[at])
      BY <1>7 DEF StandAt
    <2>4. P[l] = Checksum!Reduce(AbsorbAll(P[k], t))
      BY <1>5, <2>1
    <2> HIDE DEF t
    <2>5. at \in Nat /\ to = at + Len(t) /\ Len(t) \in Nat /\ to <= Len(whole)
      <3>1. t \in Seq(Nat) /\ E[k] + Len(t) <= Len(part)
        BY <2>2 DEF Slice
      <3> DEFINE e == E[k]
                 f == E[l]
                 size == Len(t)
      <3>2. /\ e \in Nat /\ f \in Nat /\ size \in Nat /\ f = e + size
            /\ e + size <= Len(part)
        BY <2>2, <3>1
      <3> HIDE DEF e, f, size
      <3>3. i + e \in Nat /\ i + f = (i + e) + size /\ i + f <= Len(whole)
        BY <1>1, <3>2
      <3> QED
        BY <3>2, <3>3 DEF e, f, size
    <2>6. Slice(t, whole, at)
      <3>1. /\ t \in Seq(Nat) /\ E[k] + Len(t) <= Len(part)
            /\ \A m \in 1..Len(t) : t[m] = part[E[k] + m]
        BY <2>2 DEF Slice
      <3>2. ASSUME NEW m \in 1..Len(t)
            PROVE  t[m] = whole[at + m]
        <4> DEFINE p == E[k] + m
        <4>1. p \in 1..Len(part) /\ i + p = at + m
          <5> DEFINE e == E[k]
                     size == Len(t)
          <5>1. /\ e \in Nat /\ size \in Nat
                /\ e + size <= Len(part) /\ m \in 1..size
            BY <2>2, <2>5, <3>1
          <5> HIDE DEF e, size
          <5>2. e + m \in 1..Len(part) /\ i + (e + m) = i + e + m
            BY <1>1, <5>1
          <5> QED
            BY <5>2 DEF e
        <4>2. t[m] = part[p]
          BY <3>1
        <4> HIDE DEF p, at
        <4>3. part[p] = whole[i + p]
          BY <1>1, <4>1
        <4> QED
          BY <4>1, <4>2, <4>3
      <3> QED
        BY <2>5, <3>1, <3>2 DEF Slice
    <2> HIDE DEF at, to
    <2>7. AbsorbAll(P[k], t) \in Pair /\ Agree(AbsorbAll(P[k], t), U[to])
      BY <2>3, <2>5, <2>6, AbsorbSlice
    <2>8. U[to] \in Pair
      BY <2>5 DEF Absorbs
    <2>9. /\ P[l] \in Pair /\ Reduced(P[l]) /\ Agree(P[l], U[to])
      BY <2>4, <2>7, <2>8, ReduceAgrees
    <2>10. l \in W
      BY <2>1, <2>9 DEF StandAt, to
    <2> QED
      BY <2>10 DEF l
  <1> HIDE DEF W
  <1>8. 0..K \subseteq W
    BY <1>3, <1>6, <1>7, InductionUpTo
  <1>9. K \in W /\ i + E[K] = j
    BY <1>3, <1>8
  <1>10. StandAt(P[K], U, j)
    BY <1>9 DEF W
  <1> QED
    BY <1>5, <1>10, UpdateIsWith DEF c
-----------------------------------------------------------------------------
(* The two sums of RFC 1950 are the unreduced ones of the whole.           *)
LEMMA DefinedIsReduced ==
  ASSUME NEW whole \in Seq(Nat), NEW U, Absorbs(U, Checksum!new, whole)
  PROVE  Checksum!Defined(whole) = Checksum!Reduce(U[Len(whole)])
  <1> DEFINE n == Len(whole)
             terms == [i \in 1..n |-> (n - i + 1) * whole[i]]
  <1>1. n \in Nat /\ whole \in [1..n -> Nat]
    OBVIOUS
  <1>2. Checksum!Defined(whole) = [s1 |-> (1 + AddAll(whole)) % MODULUS,
                                   s2 |-> (n + AddAll(terms)) % MODULUS]
    BY DEF Checksum!Defined, AddAll
  <1>3. /\ U \in [0..n -> Pair] /\ U[0] = Checksum!new
        /\ \A k \in 1..n : U[k] = Checksum!Absorb(U[k - 1], whole[k])
    BY DEF Absorbs
  <1> HIDE DEF n
  <1>4. terms \in [1..n -> Nat]
    <2>1. ASSUME NEW i \in 1..n
          PROVE  (n - i + 1) * whole[i] \in Nat
      <3> DEFINE a == n - i + 1
      <3>1. a \in Nat /\ whole[i] \in Nat
        BY <1>1
      <3> HIDE DEF a
      <3>2. a * whole[i] \in Nat
        BY <3>1
      <3> QED
        BY <3>2 DEF a
    <2> QED
      BY <2>1
  <1>5. \A i \in 1..n : terms[i] = (n - i + 1) * whole[i]
    OBVIOUS
  <1> HIDE DEF terms
  <1>6. PICK P : RunningSum(P, whole, n) /\ AddAll(whole) = P[n]
    BY <1>1, AddFolds
  <1>7. PICK R : RunningSum(R, terms, n) /\ AddAll(terms) = R[n]
    BY <1>1, <1>4, AddFolds
  <1>8. /\ P \in [0..n -> Nat] /\ P[0] = 0
        /\ \A k \in 1..n : P[k] = whole[k] + P[k - 1]
        /\ R \in [0..n -> Nat] /\ R[0] = 0
        /\ \A k \in 1..n : R[k] = terms[k] + R[k - 1]
    BY <1>6, <1>7 DEF RunningSum
  <1> DEFINE W == {k \in 0..n : /\ U[k].s1 = 1 + P[k]
                               /\ U[k].s2 + (n - k) * P[k] = k + R[k]}
  <1>9. 0 \in W
    <2>1. U[0].s1 = 1 /\ U[0].s2 = 0
      BY <1>3 DEF Checksum!new
    <2>2. (n - 0) * 0 = 0
      BY <1>1
    <2> QED
      BY <1>1, <1>8, <2>1, <2>2
  <1>10. ASSUME NEW k \in 0..(n - 1), k \in W
         PROVE  k + 1 \in W
    <2> DEFINE l == k + 1
               m == n - l
               p == P[k]
               b == whole[l]
               u == U[k].s2
               r == R[k]
    <2>1. l \in 1..n /\ l - 1 = k /\ k \in 0..n /\ l \in 0..n /\ k \in Nat
          /\ n - l + 1 = m + 1 /\ n - k = m + 1 /\ m \in Nat
      BY <1>1
    <2>2. U[k].s1 = 1 + p /\ u + (m + 1) * p = k + r
      BY <1>10, <2>1
    <2>3. p \in Nat /\ b \in Nat /\ u \in Nat /\ r \in Nat
      BY <1>1, <1>3, <1>8, <2>1 DEF Pair
    <2>4. U[l] = Checksum!Absorb(U[k], b) /\ P[l] = b + p /\ R[l] = terms[l] + r
      BY <1>3, <1>8, <2>1
    <2>5. terms[l] = (m + 1) * b
      BY <1>5, <2>1
    <2>6. U[l].s1 = 1 + p + b /\ U[l].s2 = u + (1 + p) + b
      BY <2>2, <2>4 DEF Checksum!Absorb
    <2> HIDE DEF l, m, p, b, u, r
    <2>7. (m + 1) * p = m * p + p /\ (m + 1) * b = m * b + b
          /\ m * (b + p) = m * b + m * p /\ m * p \in Nat /\ m * b \in Nat
      BY <2>1, <2>3
    <2>8. U[l].s1 = 1 + P[l]
      BY <2>3, <2>4, <2>6
    <2>9. U[l].s2 + m * P[l] = l + R[l]
      <3> DEFINE x == m * p
                 y == m * b
      <3>1. /\ u + (x + p) = k + r /\ P[l] = b + p /\ m * P[l] = y + x
            /\ R[l] = (y + b) + r /\ x \in Nat /\ y \in Nat
        BY <2>2, <2>4, <2>5, <2>7
      <3>2. l = k + 1
        BY DEF l
      <3> DEFINE z == m * P[l]
                 v == U[l].s2
                 w == R[l]
      <3>3. /\ z = y + x /\ v = u + (1 + p) + b /\ w = (y + b) + r
            /\ u + (x + p) = k + r
        BY <2>6, <3>1
      <3> HIDE DEF x, y, z, v, w
      <3>4. v + z = l + w
        BY <2>1, <2>3, <3>1, <3>2, <3>3
      <3> QED
        BY <3>4 DEF v, w, z
    <2>10. l \in W
      BY <2>1, <2>8, <2>9 DEF m
    <2> QED
      BY <2>10 DEF l
  <1> HIDE DEF W
  <1>11. 0..n \subseteq W
    BY <1>1, <1>9, <1>10, InductionUpTo
  <1>12. U[n].s1 = 1 + P[n] /\ U[n].s2 = n + R[n]
    <2>1. n \in W
      BY <1>1, <1>11
    <2>2. U[n].s1 = 1 + P[n] /\ U[n].s2 + (n - n) * P[n] = n + R[n]
      BY <2>1 DEF W
    <2>3. n \in 0..n /\ n - n = 0
      BY <1>1
    <2>4. P[n] \in Nat /\ U[n].s2 \in Nat
      BY <1>3, <1>8, <2>3 DEF Pair
    <2>5. (n - n) * P[n] = 0
      BY <2>3, <2>4
    <2> QED
      BY <2>2, <2>4, <2>5
  <1> QED
    BY <1>2, <1>6, <1>7, <1>12 DEF Checksum!Reduce, n

(* However a sequence of numbers is cut in two, its sums are Adler-32's.   *)
LEMMA SplitsOfAll ==
  ASSUME NEW whole \in Seq(Nat)
  PROVE  Checksum!SplitsAgree(whole)
  <1> DEFINE n == Len(whole)
  <1>1. n \in Nat
    OBVIOUS
  <1>2. Checksum!new \in Pair
    BY DEF Checksum!new, Pair
  <1>3. PICK U : Absorbs(U, Checksum!new, whole)
    BY <1>2, AbsorbFolds
  <1>4. StandAt(Checksum!new, U, 0)
    <2>1. U[0] = Checksum!new
      BY <1>3 DEF Absorbs
    <2>2. Reduced(Checksum!new)
      BY ModulusAssumption DEF Reduced, Checksum!new
    <2> QED
      BY <1>2, <2>1, <2>2 DEF StandAt, Agree, Same
  <1>5. ASSUME NEW i \in 0..n
        PROVE  Checksum!update(
                 Checksum!update(Checksum!new, SubSeq(whole, 1, i)),
                 SubSeq(whole, i + 1, n))
               = Checksum!Defined(whole)
    <2> DEFINE first == SubSeq(whole, 1, i)
               second == SubSeq(whole, i + 1, n)
    <2>1. Slice(first, whole, 0) /\ Len(first) = i
      <3>1. /\ 0 \in Nat /\ i \in Nat /\ 0 <= i /\ i <= Len(whole)
            /\ 0 + 1 = 1 /\ i - 0 = i
        BY <1>1
      <3>2. /\ Slice(SubSeq(whole, 0 + 1, i), whole, 0)
            /\ Len(SubSeq(whole, 0 + 1, i)) = i - 0
        BY <3>1, SliceOf
      <3> QED
        BY <3>1, <3>2
    <2>2. Slice(second, whole, i) /\ Len(second) = n - i
      BY <1>1, SliceOf
    <2> HIDE DEF first, second
    <2>3. i = 0 + Len(first) /\ n = i + Len(second)
      BY <1>1, <2>1, <2>2
    <2> HIDE DEF n
    <2>4. StandAt(Checksum!update(Checksum!new, first), U, i)
      BY <1>3, <1>4, <2>1, <2>3, UpdateStands
    <2> DEFINE sums == Checksum!update(Checksum!new, first)
    <2> HIDE DEF sums
    <2>5. StandAt(Checksum!update(sums, second), U, n)
      <3>1. StandAt(sums, U, i)
        BY <2>4 DEF sums
      <3> QED
        BY <1>3, <2>2, <2>3, <3>1, UpdateStands
    <2>6. U[n] \in Pair
      BY <1>1, <1>3 DEF Absorbs, n
    <2>7. Checksum!update(sums, second) = Checksum!Reduce(U[n])
      BY <2>5, <2>6, ReducedIsReduce DEF StandAt
    <2>8. Checksum!Defined(whole) = Checksum!Reduce(U[n])
      BY <1>3, DefinedIsReduced DEF n
    <2> QED
      BY <2>7, <2>8 DEF first, second, sums
  <1> QED
    BY <1>5 DEF Checksum!SplitsAgree

LEMMA ChecksumOfBytes == TypeOK => ChecksumIsAdler
  <1> SUFFICES ASSUME TypeOK
               PROVE  ChecksumIsAdler
    OBVIOUS
  <1> DEFINE n == Len(adler)
             whole == [i \in DOMAIN adler |-> Value[adler[i]]]
  <1>1. n \in Nat /\ DOMAIN adler = 1..n /\ \A i \in 1..n : adler[i] \in Byte
    BY DEF TypeOK
  <1>2. \A i \in 1..n : Value[adler[i]] \in Nat
    BY <1>1, ValueAssumption
  <1> HIDE DEF n
  <1>3. whole \in [1..n -> Nat]
    BY <1>1, <1>2
  <1>4. whole \in Seq(Nat)
    BY <1>1, <1>3
  <1> HIDE DEF whole
  <1>5. Checksum!SplitsAgree(whole)
    BY <1>4, SplitsOfAll
  <1> QED
    BY <1>5 DEF ChecksumIsAdler, whole

(* Adler32::update, given whatever slices of a window, keeps the sums that *)
(* RFC 1950 defines, for every value of the bytes, modulus and chunk.      *)
THEOREM ChecksumDefined == Spec => []ChecksumIsAdler
<1>1. IInv => ChecksumIsAdler
  BY ChecksumOfBytes DEF IInv
<1> QED
  BY <1>1, Invariant, PTL

=============================================================================
