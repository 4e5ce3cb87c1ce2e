----------------------- MODULE SecondaryStreamProofs -----------------------
(* Theorems about SecondaryStream.                                         *)
EXTENDS SecondaryStream, DataLemmas, SequenceTheorems

USE StagingAssumption, KindsAssumption, BoundsAssumption

(* Cursors and the bytes they are about: what the steps of decode_fragment *)
(* keep.                                                                   *)
IInv == TypeOK /\ StagedInOrder

LEMMA KindOfSection ==
  ASSUME sections \in Nat
  PROVE  kind \in KindSet
  <1>1. \A n, m \in Nat : m > 0 => n % m \in 0..(m - 1)
    OBVIOUS
  <1>2. Len(Kinds) \in Nat /\ DOMAIN Kinds = 1..Len(Kinds)
    OBVIOUS
  <1>3. sections % Len(Kinds) \in 0..(Len(Kinds) - 1)
    BY <1>1, <1>2
  <1> DEFINE index == (sections % Len(Kinds)) + 1
  <1>4. index \in DOMAIN Kinds
    BY <1>2, <1>3
  <1>5. kind = Kinds[index]
    BY Zenon DEF kind
  <1> HIDE DEF index
  <1> QED
    BY <1>4, <1>5 DEF KindSet

LEMMA InitInv == Init => IInv
  <1> SUFFICES ASSUME Init PROVE IInv
    OBVIOUS
  <1>1. decoders \in [KindSet -> Int] /\ written \in [KindSet -> Nat]
        /\ staging \in [0..(STAGING_SIZE - 1) -> Nat]
    BY DEF Init
  <1>2. TypeOK
    <2>1. /\ staging_end \in 0..STAGING_SIZE /\ staging_start \in 0..staging_end
          /\ produced \in 0..decoded_size
      BY DEF Init
    <2>2. /\ position \in Nat /\ section_end \in Nat /\ sections \in Nat
          /\ fragment_start \in Nat /\ decoded_size \in Nat /\ consumed \in Nat
      BY DEF Init
    <2>3. /\ header_checked \in BOOLEAN /\ inside \in BOOLEAN
          /\ advanced \in BOOLEAN /\ bad_check \in BOOLEAN /\ sound \in BOOLEAN /\ pc = "idle"
      BY DEF Init
    <2> QED
      BY <1>1, <2>1, <2>2, <2>3 DEF TypeOK
  <1>3. StagedInOrder
    BY DEF Init, StagedInOrder
  <1> QED
    BY <1>2, <1>3 DEF IInv

(* A step that ends the decode, or that only moves pc within the loop.     *)
LEMMA RefusedKeepsInv == IInv /\ Refused => IInv'
  <1> SUFFICES ASSUME IInv, Refused PROVE IInv'
    OBVIOUS
  <1>1. TypeOK'
    BY DEF IInv, TypeOK, Refused, input, buffer, progress, section, codec
  <1>2. StagedInOrder'
    BY DEF Refused, StagedInOrder
  <1> QED
    BY <1>1, <1>2 DEF IInv

LEMMA RawSectionKeepsInv == IInv /\ RawSection => IInv'
  <1> SUFFICES ASSUME IInv, RawSection PROVE IInv'
    OBVIOUS
  <1>1. TypeOK'
    BY DEF IInv, TypeOK, RawSection, buffer, progress, section, codec
  <1>2. StagedInOrder'
    BY DEF RawSection, StagedInOrder
  <1> QED
    BY <1>1, <1>2 DEF IInv

(* Whatever the encoder wrote, a fragment begins with nothing staged.      *)
LEMMA CompressedSectionKeepsInv == IInv /\ CompressedSection => IInv'
  <1> SUFFICES ASSUME IInv, CompressedSection PROVE IInv'
    OBVIOUS
  <1>1. PICK encoded_len \in 0..MaxEncoded, size_bytes \in 1..(VARINT_BYTES + 1),
             size \in 0..MaxDecoded, bad \in BOOLEAN :
          /\ sound' \in BOOLEAN
          /\ written' = [written EXCEPT ![kind] = @ + 1]
          /\ bad_check' = bad
          /\ section_end' = position + encoded_len
          /\ UNCHANGED <<sections, staging>>
          /\ \/ /\ pc' = "refused"
                /\ UNCHANGED <<position, decoders, staging_start, staging_end,
                               fragment_start, decoded_size, progress,
                               header_checked, codec>>
             \/ /\ size_bytes <= encoded_len
                /\ position' = position + size_bytes
                /\ fragment_start' = position'
                /\ decoded_size' = size
                /\ header_checked' = ~FirstFragment
                /\ decoders' = IF FirstFragment THEN [decoders EXCEPT ![kind] = 0]
                                                ELSE decoders
                /\ staging_start' = 0 /\ staging_end' = 0
                /\ consumed' = 0 /\ produced' = 0 /\ inside' = FALSE
                /\ advanced' = FALSE /\ pc' = "loop"
    BY DEF CompressedSection
  <1>2. kind \in KindSet
    BY KindOfSection DEF IInv, TypeOK
  <1>3. /\ position \in Nat /\ encoded_len \in Nat /\ size_bytes \in Nat
        /\ size \in Nat /\ position + encoded_len \in Nat
        /\ position + size_bytes \in Nat
    BY <1>1 DEF IInv, TypeOK
  <1>4. written' \in [KindSet -> Nat]
    <2>1. written \in [KindSet -> Nat]
      BY DEF IInv, TypeOK
    <2> HIDE DEF kind, KindSet
    <2> QED
      BY <1>1, <1>2, <2>1
  <1>5. decoders' \in [KindSet -> Int]
    <2>1. decoders \in [KindSet -> Int]
      BY DEF IInv, TypeOK
    <2>2. \A S, T, f, i, v : f \in [S -> T] /\ v \in T => [f EXCEPT ![i] = v] \in [S -> T]
      OBVIOUS
    <2>3. [decoders EXCEPT ![kind] = 0] \in [KindSet -> Int]
      <3>1. 0 \in Int
        OBVIOUS
      <3> QED
        BY <2>1, <2>2, <3>1, Zenon
    <2> QED
      BY <1>1, <2>1, <2>3
  <1>6. CASE pc' = "refused" /\ UNCHANGED <<position, decoders, staging_start,
                 staging_end, fragment_start, decoded_size, progress,
                 header_checked, codec>>
    <2>1. TypeOK'
      BY <1>1, <1>3, <1>4, <1>5, <1>6 DEF IInv, TypeOK, progress, codec
    <2>2. StagedInOrder'
      BY <1>6 DEF StagedInOrder
    <2> QED
      BY <2>1, <2>2 DEF IInv
  <1>7. CASE /\ size_bytes <= encoded_len
             /\ position' = position + size_bytes /\ fragment_start' = position'
             /\ decoded_size' = size /\ header_checked' \in BOOLEAN
             /\ staging_start' = 0 /\ staging_end' = 0
             /\ consumed' = 0 /\ produced' = 0 /\ inside' = FALSE
             /\ advanced' = FALSE /\ pc' = "loop"
    <2>1. /\ position' \in Nat /\ section_end' \in Nat /\ sections' \in Nat
          /\ fragment_start' \in Nat /\ decoded_size' \in Nat
          /\ staging' \in [0..(STAGING_SIZE - 1) -> Nat]
          /\ bad_check' \in BOOLEAN /\ sound' \in BOOLEAN
      BY <1>1, <1>3, <1>7 DEF IInv, TypeOK
    <2>2. /\ staging_end' \in 0..STAGING_SIZE /\ staging_start' \in 0..staging_end'
          /\ consumed' \in Nat /\ produced' \in 0..decoded_size'
      BY <1>7, <2>1
    <2>3. TypeOK'
      BY <1>4, <1>5, <1>7, <2>1, <2>2 DEF TypeOK
    <2>4. StagedInOrder'
      BY <1>1, <1>3, <1>7 DEF StagedInOrder, staged
    <2> QED
      BY <2>3, <2>4 DEF IInv
  <1> QED
    BY <1>1, <1>6, <1>7

(* refill_staging keeps the order: what was staged moves to the front and  *)
(* the section's next bytes follow it.                                     *)
LEMMA RefillKeepsOrder ==
  ASSUME IInv, NEW start \in Nat, NEW end \in Nat, start <= end,
         end - start = staged, end <= STAGING_SIZE,
         start = staging_start \/ staged = 0,
         pc \in {"loop", "decode"}, pc' = "loop",
         RefillStaging(start, end),
         UNCHANGED <<section_end, sections, decoders, progress,
                     header_checked, section, codec>>
  PROVE  IInv'
  <1> DEFINE kept == end - start
             remaining == section_end - position
             count == IF remaining < Room(kept) THEN remaining ELSE Room(kept)
  <1>1. /\ count # 0 /\ staging_start' = 0 /\ staging_end' = kept + count
        /\ position' = position + count
        /\ staging' = [i \in 0..(STAGING_SIZE - 1) |->
                         IF i \in kept..(kept + count - 1)
                         THEN position + (i - kept) ELSE Moved(start)[i]]
    BY DEF RefillStaging
  <1>2. /\ position \in Nat /\ section_end \in Nat /\ position <= section_end
        /\ fragment_start \in Nat /\ consumed \in Nat
        /\ position = fragment_start + consumed + kept
        /\ staging_start \in Nat /\ staging_end \in Nat /\ staging_end <= STAGING_SIZE
        /\ staging_start <= staging_end /\ kept = staging_end - staging_start
        /\ staging \in [0..(STAGING_SIZE - 1) -> Nat]
    BY DEF IInv, TypeOK, StagedInOrder, staged
  <1>3. /\ kept \in Nat /\ count \in Nat /\ kept + count <= STAGING_SIZE
        /\ position + count <= section_end
    BY <1>2 DEF Room
  <1>4. \A i \in 0..(STAGING_SIZE - 1) : Moved(start)[i] \in Nat
    BY <1>2 DEF Moved
  <1>5. \A i \in 0..(kept - 1) : Moved(start)[i] = fragment_start + consumed + i
    <2> SUFFICES ASSUME NEW i \in 0..(kept - 1)
                 PROVE  Moved(start)[i] = fragment_start + consumed + i
      OBVIOUS
    <2>1. start = staging_start
      BY <1>3, <1>2 DEF staged
    <2>2. i \in 0..(STAGING_SIZE - 1) /\ i + start \in staging_start..(staging_end - 1)
      BY <1>2, <1>3, <2>1
    <2>3. Moved(start)[i] = staging[i + start]
      BY <2>2, <1>2 DEF Moved
    <2>4. staging[i + start] = fragment_start + consumed + ((i + start) - staging_start)
      BY <2>2 DEF IInv, StagedInOrder
    <2> QED
      BY <1>2, <2>1, <2>3, <2>4
  <1> HIDE DEF kept, remaining, count
  <1>6. staging' \in [0..(STAGING_SIZE - 1) -> Nat]
    BY <1>1, <1>2, <1>3, <1>4
  <1>7. \A i \in 0..(kept + count - 1) : staging'[i] = fragment_start + consumed + i
    <2> SUFFICES ASSUME NEW i \in 0..(kept + count - 1)
                 PROVE  staging'[i] = fragment_start + consumed + i
      OBVIOUS
    <2>1. i \in 0..(STAGING_SIZE - 1)
      BY <1>3
    <2>2. CASE i < kept
      BY <1>1, <1>2, <1>3, <1>5, <2>1, <2>2
    <2>3. CASE i >= kept
      BY <1>1, <1>2, <1>3, <2>1, <2>3
    <2> QED
      BY <1>3, <2>2, <2>3
  <1>8. fragment_start' = fragment_start /\ consumed' = consumed
        /\ section_end' = section_end /\ produced' = produced
        /\ decoded_size' = decoded_size
    BY DEF section, progress
  <1>9. TypeOK'
    BY <1>1, <1>2, <1>3, <1>6 DEF IInv, TypeOK, progress, section, codec
  <1>10. StagedInOrder'
    <2>1. position' = fragment_start' + consumed' + (staging_end' - staging_start')
          /\ position' <= section_end'
      BY <1>1, <1>2, <1>3, <1>8
    <2>2. \A i \in staging_start'..(staging_end' - 1) :
            staging'[i] = fragment_start' + consumed' + (i - staging_start')
      <3> SUFFICES ASSUME NEW i \in staging_start'..(staging_end' - 1)
                   PROVE  staging'[i] = fragment_start' + consumed' + (i - staging_start')
        OBVIOUS
      <3>1. i \in 0..(kept + count - 1) /\ i - staging_start' = i
        BY <1>1, <1>3
      <3> QED
        BY <1>7, <1>8, <3>1
    <2> QED
      BY <2>1, <2>2 DEF StagedInOrder, staged
  <1> QED
    BY <1>9, <1>10 DEF IInv

LEMMA RefillKeepsInv == IInv /\ Refill => IInv'
  <1> SUFFICES ASSUME IInv, Refill PROVE IInv'
    OBVIOUS
  <1>1. 0 \in Nat /\ 0 <= STAGING_SIZE
    OBVIOUS
  <1> QED
    BY <1>1, RefillKeepsOrder DEF Refill

LEMMA CheckHeaderKeepsInv == IInv /\ CheckHeader => IInv'
  <1> SUFFICES ASSUME IInv, CheckHeader PROVE IInv'
    OBVIOUS
  <1>1. CASE Refused
    BY <1>1, RefusedKeepsInv
  <1>2. CASE ~Refused
    <2>1. /\ pc = "loop" /\ pc' = "decode" /\ header_checked' \in BOOLEAN
          /\ UNCHANGED <<input, decoders, buffer, progress, section, codec>>
      BY <1>2 DEF CheckHeader, IInv, TypeOK
    <2>2. TypeOK'
      BY <2>1 DEF IInv, TypeOK, input, buffer, progress, section, codec
    <2>3. StagedInOrder'
      BY <2>1 DEF IInv, StagedInOrder, staged, input, buffer, progress, section
    <2> QED
      BY <2>2, <2>3 DEF IInv
  <1> QED
    BY <1>1, <1>2

LEMMA NeedsLargerKeepsInv == IInv /\ NeedsLarger => IInv'
  <1> SUFFICES ASSUME IInv, NeedsLarger PROVE IInv'
    OBVIOUS
  <1>1. CASE Refused
    BY <1>1, RefusedKeepsInv
  <1>2. CASE ~Refused
    <2>1. /\ pc = "decode" /\ pc' = "loop"
          /\ RefillStaging(staging_start, staging_end)
          /\ UNCHANGED <<section_end, sections, decoders, progress,
                         header_checked, section, codec>>
      BY <1>2 DEF NeedsLarger
    <2>2. /\ staging_start \in Nat /\ staging_end \in Nat
          /\ staging_start <= staging_end /\ staging_end <= STAGING_SIZE
      BY DEF IInv, TypeOK
    <2> QED
      BY <2>1, <2>2, RefillKeepsOrder DEF staged
  <1> QED
    BY <1>1, <1>2

(* The codec takes bytes from the front of what is staged.                 *)
LEMMA MovesKeepsInv ==
  ASSUME IInv, pc = "decode", inside' \in BOOLEAN, NEW bytes \in 0..staged,
         NEW out \in 0..(decoded_size - produced), Moves(bytes, out)
  PROVE  IInv'
  <1>1. /\ staging_start' = staging_start + bytes
        /\ consumed' = consumed + bytes
        /\ produced' = produced + out
        /\ advanced' = TRUE /\ pc' = pc
        /\ UNCHANGED <<input, decoders, staging, staging_end, header_checked,
                       section>>
    BY DEF Moves
  <1>2. /\ staging_start \in Nat /\ staging_end \in Nat /\ consumed \in Nat
        /\ produced \in Nat /\ decoded_size \in Nat /\ produced <= decoded_size
        /\ staging_start <= staging_end /\ staging_end <= STAGING_SIZE
        /\ fragment_start \in Nat /\ position \in Nat
    BY DEF IInv, TypeOK
  <1>3. /\ bytes \in Nat /\ staging_start + bytes <= staging_end
        /\ out \in Nat /\ produced + out <= decoded_size
    BY <1>2 DEF staged
  <1>4. TypeOK'
    BY <1>1, <1>2, <1>3 DEF IInv, TypeOK, input, section
  <1>5. /\ position' = position /\ section_end' = section_end
        /\ fragment_start' = fragment_start /\ staging' = staging
        /\ staging_end' = staging_end
    BY <1>1 DEF input, section
  <1>6. /\ position = fragment_start + consumed + (staging_end - staging_start)
        /\ position <= section_end
        /\ \A i \in staging_start..(staging_end - 1) :
             staging[i] = fragment_start + consumed + (i - staging_start)
    BY DEF IInv, StagedInOrder, staged
  <1>7. \A i \in (staging_start + bytes)..(staging_end - 1) :
          staging[i] = fragment_start + (consumed + bytes)
                       + (i - (staging_start + bytes))
    BY <1>2, <1>3, <1>6
  <1>8. position = fragment_start + (consumed + bytes)
                   + (staging_end - (staging_start + bytes))
    BY <1>2, <1>3, <1>6
  <1>9. StagedInOrder'
    BY <1>1, <1>5, <1>6, <1>7, <1>8 DEF StagedInOrder, staged
  <1> QED
    BY <1>4, <1>9 DEF IInv

LEMMA CodecAdvancesKeepsInv == IInv /\ CodecAdvances => IInv'
  <1> SUFFICES ASSUME IInv, CodecAdvances PROVE IInv'
    OBVIOUS
  <1>1. PICK bytes \in 0..staged, out \in 0..(decoded_size - produced) :
          inside' \in BOOLEAN /\ Moves(bytes, out)
    BY DEF CodecAdvances
  <1>2. pc = "decode"
    BY DEF CodecAdvances
  <1> QED
    BY <1>1, <1>2, MovesKeepsInv

LEMMA CodecSwallowsKeepsInv == IInv /\ CodecSwallows => IInv'
  <1> SUFFICES ASSUME IInv, CodecSwallows PROVE IInv'
    OBVIOUS
  <1>1. PICK bytes \in 0..staged, out \in 0..(decoded_size - produced) :
          Moves(bytes, out)
    BY DEF CodecSwallows
  <1>2. pc = "decode" /\ inside' \in BOOLEAN
    BY DEF CodecSwallows, Astray
  <1> QED
    BY <1>1, <1>2, MovesKeepsInv

LEMMA CodecReturnsKeepsInv == IInv /\ CodecReturns => IInv'
  <1> SUFFICES ASSUME IInv, CodecReturns PROVE IInv'
    OBVIOUS
  <1>1. CASE Refused
    BY <1>1, RefusedKeepsInv
  <1>2. CASE ~Refused
    <2>1. /\ pc = "decode" /\ pc' = "loop" /\ advanced' = FALSE
          /\ UNCHANGED <<input, decoders, buffer, progress, header_checked,
                         section, units, inside>>
      BY <1>2 DEF CodecReturns
    <2>2. TypeOK'
      BY <2>1 DEF IInv, TypeOK, input, buffer, progress, section
    <2>3. StagedInOrder'
      BY <2>1 DEF IInv, StagedInOrder, staged, input, buffer, progress, section
    <2> QED
      BY <2>2, <2>3 DEF IInv
  <1> QED
    BY <1>1, <1>2

LEMMA FinishFragmentKeepsInv == IInv /\ FinishFragment => IInv'
  <1> SUFFICES ASSUME IInv, FinishFragment PROVE IInv'
    OBVIOUS
  <1>1. CASE Refused
    BY <1>1, RefusedKeepsInv
  <1>2. CASE ~Refused
    <2>1. /\ pc' = "idle" /\ sections' = sections + 1
          /\ decoders' = [decoders EXCEPT ![kind] = @ + 1]
          /\ UNCHANGED <<position, section_end, buffer, progress, header_checked,
                         section, codec>>
      BY <1>2 DEF FinishFragment
    <2>2. decoders' \in [KindSet -> Int]
      BY <2>1, KindOfSection DEF IInv, TypeOK
    <2>3. TypeOK'
      BY <2>1, <2>2 DEF IInv, TypeOK, buffer, progress, section, codec
    <2>4. StagedInOrder'
      BY <2>1 DEF StagedInOrder
    <2> QED
      BY <2>3, <2>4 DEF IInv
  <1> QED
    BY <1>1, <1>2

LEMMA DeltaFailsKeepsInv == IInv /\ DeltaFails => IInv'
  <1> SUFFICES ASSUME IInv, DeltaFails PROVE IInv'
    OBVIOUS
  <1>1. TypeOK'
    BY DEF IInv, TypeOK, DeltaFails, input, buffer, progress, section, codec
  <1>2. StagedInOrder'
    BY DEF DeltaFails, StagedInOrder
  <1> QED
    BY <1>1, <1>2 DEF IInv

LEMMA NextKeepsInv == IInv /\ [Next]_vars => IInv'
  <1> SUFFICES ASSUME IInv, [Next]_vars PROVE IInv'
    OBVIOUS
  <1>1. ASSUME UNCHANGED vars PROVE IInv'
    <2>1. TypeOK'
      BY <1>1 DEF vars, IInv, TypeOK, input, buffer, progress, section, codec
    <2>2. StagedInOrder'
      BY <1>1 DEF vars, IInv, StagedInOrder, staged, input, buffer, progress, section
    <2> QED
      BY <2>1, <2>2 DEF IInv
  <1>2. ASSUME CodecRefuses PROVE IInv'
    BY <1>2, RefusedKeepsInv DEF CodecRefuses
  <1> QED
    BY <1>1, <1>2, RawSectionKeepsInv, CompressedSectionKeepsInv, RefillKeepsInv,
       CheckHeaderKeepsInv, NeedsLargerKeepsInv, CodecAdvancesKeepsInv,
       CodecSwallowsKeepsInv, CodecReturnsKeepsInv, FinishFragmentKeepsInv, DeltaFailsKeepsInv DEF Next, Step

LEMMA Invariance == Spec => []IInv
  BY InitInv, NextKeepsInv, PTL DEF Spec

(* The cursors of prepare and decode_fragment stay within the staging      *)
(* buffer and the output, whatever the delta holds.                        *)
THEOREM TypeCorrect == Spec => []TypeOK
  <1>1. IInv => TypeOK
    BY DEF IInv
  <1> QED
    BY <1>1, Invariance, PTL

(* For every size of the staging buffer, decode_fragment offers the codec  *)
(* each byte of a section once and in order.                               *)
THEOREM FragmentsInOrder == Spec => []StagedInOrder
  <1>1. IInv => StagedInOrder
    BY DEF IInv
  <1> QED
    BY <1>1, Invariance, PTL
-----------------------------------------------------------------------------
Bytes(t) == [i \in 1..Len(t) |-> t[i].head + t[i].body]
Yields(t) == [i \in 1..Len(t) |-> t[i].out]

(* In adds the bytes of the units, Out what they yield.                    *)
InAdds(t, f) == Sums(f, 1..Len(t), Bytes(t)) /\ In(t) = f[1..Len(t)]
OutAdds(t, f) == Sums(f, 1..Len(t), Yields(t)) /\ Out(t) = f[1..Len(t)]

LEMMA UnitFields ==
  ASSUME NEW t \in Seq(Unit), NEW i \in 1..Len(t)
  PROVE  t[i].head \in Nat /\ t[i].body \in Nat /\ t[i].out \in Nat
  <1>1. t[i] \in Unit
    OBVIOUS
  <1> QED
    BY <1>1 DEF Unit

LEMMA InIsSum ==
  ASSUME NEW t \in Seq(Unit)
  PROVE  \E f : InAdds(t, f)
  <1> DEFINE D == DOMAIN t
             v == Bytes(t)
  <1>1. D = 1..Len(t) /\ Len(t) \in Nat
    OBVIOUS
  <1>2. v \in [D -> Nat] /\ \A i \in D : v[i] = t[i].head + t[i].body
    <2>1. \A i \in D : t[i].head \in Nat /\ t[i].body \in Nat
      BY <1>1, UnitFields
    <2> QED
      BY <1>1, <2>1 DEF Bytes
  <1>3. IsFiniteSet(D)
    BY <1>1, FS_Interval
  <1> DEFINE Turn(f) == [s \in SUBSET D |->
                IF s = {} THEN 0
                ELSE t[CHOOSE x \in s : TRUE].head + t[CHOOSE x \in s : TRUE].body
                     + f[s \ {CHOOSE x \in s : TRUE}]]
             g == CHOOSE f : f = Turn(f)
  <1>4. In(t) = g[D]
    BY DEF In, FoldFunction, FoldFunctionOnSet, MapThenFoldSet
  <1> HIDE DEF v, D
  <1>5. \A f : Sums(f, D, v) <=> f = Turn(f)
    <2> SUFFICES ASSUME NEW f
                 PROVE  Sums(f, D, v) <=> f = Turn(f)
      OBVIOUS
    <2> DEFINE pick(s) == CHOOSE x \in s : TRUE
               left(s) == t[pick(s)].head + t[pick(s)].body + f[s \ {pick(s)}]
               right(s) == v[pick(s)] + f[s \ {pick(s)}]
    <2>1. ASSUME NEW s \in SUBSET D, s # {}
          PROVE  left(s) = right(s)
      <3>1. pick(s) \in D
        BY <2>1
      <3> HIDE DEF pick
      <3> QED
        BY <1>2, <3>1
    <2> HIDE DEF left, right
    <2>2. [s \in SUBSET D |-> IF s = {} THEN 0 ELSE left(s)]
          = [s \in SUBSET D |-> IF s = {} THEN 0 ELSE right(s)]
      BY <2>1
    <2> QED
      BY <2>2 DEF Sums, left, right
  <1>6. PICK f : Sums(f, D, v)
    BY <1>2, <1>3, SumExists
  <1>7. f = Turn(f)
    BY <1>5, <1>6
  <1>8. g = Turn(g)
    <2> HIDE DEF Turn
    <2> QED
      BY <1>7
  <1> HIDE DEF g, Turn
  <1>9. Sums(g, D, v)
    BY <1>5, <1>8
  <1> QED
    BY <1>1, <1>4, <1>9 DEF D, v, InAdds

LEMMA OutIsSum ==
  ASSUME NEW t \in Seq(Unit)
  PROVE  \E f : OutAdds(t, f)
  <1> DEFINE D == DOMAIN t
             v == Yields(t)
  <1>1. D = 1..Len(t) /\ Len(t) \in Nat
    OBVIOUS
  <1>2. v \in [D -> Nat] /\ \A i \in D : v[i] = t[i].out
    <2>1. \A i \in D : t[i].out \in Nat
      BY <1>1, UnitFields
    <2> QED
      BY <1>1, <2>1 DEF Yields
  <1>3. IsFiniteSet(D)
    BY <1>1, FS_Interval
  <1> DEFINE Turn(f) == [s \in SUBSET D |->
                IF s = {} THEN 0
                ELSE t[CHOOSE x \in s : TRUE].out
                     + f[s \ {CHOOSE x \in s : TRUE}]]
             g == CHOOSE f : f = Turn(f)
  <1>4. Out(t) = g[D]
    BY DEF Out, FoldFunction, FoldFunctionOnSet, MapThenFoldSet
  <1> HIDE DEF v, D
  <1>5. \A f : Sums(f, D, v) <=> f = Turn(f)
    <2> SUFFICES ASSUME NEW f
                 PROVE  Sums(f, D, v) <=> f = Turn(f)
      OBVIOUS
    <2> DEFINE pick(s) == CHOOSE x \in s : TRUE
               left(s) == t[pick(s)].out + f[s \ {pick(s)}]
               right(s) == v[pick(s)] + f[s \ {pick(s)}]
    <2>1. ASSUME NEW s \in SUBSET D, s # {}
          PROVE  left(s) = right(s)
      <3>1. pick(s) \in D
        BY <2>1
      <3> HIDE DEF pick
      <3> QED
        BY <1>2, <3>1
    <2> HIDE DEF left, right
    <2>2. [s \in SUBSET D |-> IF s = {} THEN 0 ELSE left(s)]
          = [s \in SUBSET D |-> IF s = {} THEN 0 ELSE right(s)]
      BY <2>1
    <2> QED
      BY <2>2 DEF Sums, left, right
  <1>6. PICK f : Sums(f, D, v)
    BY <1>2, <1>3, SumExists
  <1>7. f = Turn(f)
    BY <1>5, <1>6
  <1>8. g = Turn(g)
    <2> HIDE DEF Turn
    <2> QED
      BY <1>7
  <1> HIDE DEF g, Turn
  <1>9. Sums(g, D, v)
    BY <1>5, <1>8
  <1> QED
    BY <1>1, <1>4, <1>9 DEF D, v, OutAdds

PrefixIn(u) == [n \in 0..Len(u) |-> In(SubSeq(u, 1, n))]
PrefixOut(u) == [n \in 0..Len(u) |-> Out(SubSeq(u, 1, n))]

LEMMA Prefix ==
  ASSUME NEW u \in Seq(Unit), NEW n \in 0..Len(u)
  PROVE  /\ SubSeq(u, 1, n) \in Seq(Unit) /\ Len(SubSeq(u, 1, n)) = n
         /\ \A i \in 1..n : SubSeq(u, 1, n)[i] = u[i]
  <1> HIDE DEF Unit
  <1>1. Len(u) \in Nat /\ n \in Nat /\ 1 <= n + 1 /\ n <= Len(u)
    OBVIOUS
  <1> QED
    BY <1>1, SubSeqProperties

(* Of a longer beginning, the sum has one unit more.                       *)
LEMMA InRuns ==
  ASSUME NEW u \in Seq(Unit)
  PROVE  RunningSum(PrefixIn(u), Bytes(u), Len(u))
  <1> DEFINE P == PrefixIn(u)
  <1>1. ASSUME NEW n \in 0..Len(u)
        PROVE  \E f \in [SUBSET (1..n) -> Nat] :
                 Grows(f, Bytes(u), n) /\ P[n] = f[1..n]
    <2> DEFINE t == SubSeq(u, 1, n)
    <2>1. t \in Seq(Unit) /\ Len(t) = n
      BY Prefix
    <2>2. PICK f : InAdds(t, f)
      BY <2>1, InIsSum
    <2>3. Bytes(t) \in [1..n -> Nat]
      BY <2>1, UnitFields DEF Bytes
    <2>4. IsFiniteSet(1..n) /\ n \in Nat
      BY FS_Interval
    <2>5. P[n] = In(t)
      BY DEF PrefixIn
    <2>6. \A i \in 1..n : Bytes(t)[i] = Bytes(u)[i]
      <3>1. \A i \in 1..n : t[i] = u[i] /\ i \in 1..Len(u)
        BY Prefix
      <3> QED
        BY <2>1, <3>1 DEF Bytes
    <2> HIDE DEF t
    <2>7. Sums(f, 1..n, Bytes(t))
      BY <2>1, <2>2 DEF InAdds
    <2>8. Grows(f, Bytes(t), n)
      BY <2>3, <2>4, <2>7, PrefixSums
    <2>9. Grows(f, Bytes(u), n)
      BY <2>6, <2>8 DEF Grows
    <2>10. f \in [SUBSET (1..n) -> Nat]
      BY <2>3, <2>4, <2>7, SumType
    <2> QED
      BY <2>1, <2>2, <2>5, <2>9, <2>10 DEF InAdds
  <1>2. P = [n \in 0..Len(u) |-> P[n]] /\ Len(u) \in Nat
    BY DEF PrefixIn
  <1> HIDE DEF P
  <1>3. SumsBeginnings(P, Bytes(u), Len(u))
    BY <1>1, <1>2 DEF SumsBeginnings
  <1> QED
    BY <1>2, <1>3, BeginningsRun DEF P

LEMMA OutRuns ==
  ASSUME NEW u \in Seq(Unit)
  PROVE  RunningSum(PrefixOut(u), Yields(u), Len(u))
  <1> DEFINE P == PrefixOut(u)
  <1>1. ASSUME NEW n \in 0..Len(u)
        PROVE  \E f \in [SUBSET (1..n) -> Nat] :
                 Grows(f, Yields(u), n) /\ P[n] = f[1..n]
    <2> DEFINE t == SubSeq(u, 1, n)
    <2>1. t \in Seq(Unit) /\ Len(t) = n
      BY Prefix
    <2>2. PICK f : OutAdds(t, f)
      BY <2>1, OutIsSum
    <2>3. Yields(t) \in [1..n -> Nat]
      BY <2>1, UnitFields DEF Yields
    <2>4. IsFiniteSet(1..n) /\ n \in Nat
      BY FS_Interval
    <2>5. P[n] = Out(t)
      BY DEF PrefixOut
    <2>6. \A i \in 1..n : Yields(t)[i] = Yields(u)[i]
      <3>1. \A i \in 1..n : t[i] = u[i] /\ i \in 1..Len(u)
        BY Prefix
      <3> QED
        BY <2>1, <3>1 DEF Yields
    <2> HIDE DEF t
    <2>7. Sums(f, 1..n, Yields(t))
      BY <2>1, <2>2 DEF OutAdds
    <2>8. Grows(f, Yields(t), n)
      BY <2>3, <2>4, <2>7, PrefixSums
    <2>9. Grows(f, Yields(u), n)
      BY <2>6, <2>8 DEF Grows
    <2>10. f \in [SUBSET (1..n) -> Nat]
      BY <2>3, <2>4, <2>7, SumType
    <2> QED
      BY <2>1, <2>2, <2>5, <2>9, <2>10 DEF OutAdds
  <1>2. P = [n \in 0..Len(u) |-> P[n]] /\ Len(u) \in Nat
    BY DEF PrefixOut
  <1> HIDE DEF P
  <1>3. SumsBeginnings(P, Yields(u), Len(u))
    BY <1>1, <1>2 DEF SumsBeginnings
  <1> QED
    BY <1>2, <1>3, BeginningsRun DEF P


InSection == pc \in {"loop", "decode"}

(* The codec of each stream has seen the fragments written of it, all of   *)
(* them or all but the one it is reading.                                  *)
Seen(k) == IF written[k] = 0 THEN -1 ELSE written[k]
StreamsInStep ==
  /\ pc = "idle" => \A k \in KindSet : decoders[k] = Seen(k)
  /\ InSection => /\ written[kind] > 0 /\ decoders[kind] = written[kind] - 1
                  /\ \A k \in KindSet : k # kind => decoders[k] = Seen(k)

(* What the codec has not finished begins with the unit it is in, of which *)
(* something is left, unless it swallows what is no unit of the fragment.  *)
(* Only the header of a stream is read before there is output.             *)
InUnit == /\ units # << >>
          /\ units[1].head + units[1].body = 0 =>
               units[1].out > 0 /\ (InSection => produced = decoded_size)
BeforeUnit == units # << >> => /\ units[1].head > 0
                               /\ InSection => units[1] \in Chunks \/ produced = 0
UnitsLeft ==
  /\ units \in Seq(Unit)
  /\ \A i \in 2..Len(units) : units[i] \in Chunks
  /\ units # << >> => units[1].head <= STAGING_SIZE
  /\ IF inside THEN units # << >> /\ units[1].kind = "sound" => InUnit
               ELSE BeforeUnit

(* Until it is checked, the header of a stream lies at the front of the    *)
(* staging buffer, or the section ends inside it.                          *)
HeaderUnread ==
  /\ written[kind] = 1 /\ produced = 0 /\ units # << >>
  /\ units[1].kind = "sound" /\ units[1].body = 0 /\ units[1].out = 0
  /\ units[1].head + consumed = HEADER_SIZE
  /\ \/ /\ pc = "loop" /\ consumed = 0
        /\ staged = 0 \/ staged > CHECK_BYTE
     \/ position = section_end /\ consumed + staged <= CHECK_BYTE
HeaderInv ==
  InSection => /\ decoded_size > 0
               /\ header_checked /\ written[kind] = 1 => ~bad_check
               /\ ~header_checked => HeaderUnread

(* A section is sound if what is left of it is made of what is left of its *)
(* stream.                                                                 *)
Consists(u, n, bytes, size) ==
  /\ bytes = In(SubSeq(u, 1, n)) /\ size = Out(SubSeq(u, 1, n))
  /\ \A i \in 1..n : u[i].kind = "sound"
Rest(u, within, bytes, size) ==
  \E n \in 0..Len(u) : (within => n > 0) /\ Consists(u, n, bytes, size)
RestSound ==
  /\ Rest(units, inside, fragment_len - consumed, decoded_size - produced)
  /\ ~(bad_check /\ written[kind] = 1)
SoundSoFar ==
  /\ InSection => (sound <=> RestSound)
  /\ pc = "decode" /\ ~advanced => staged > 0
SoundInv == /\ StreamsInStep /\ UnitsLeft /\ HeaderInv /\ SoundSoFar
            /\ NoSoundSectionRefused /\ OnlySoundAccepted
-----------------------------------------------------------------------------
LEMMA ReadsNothing ==
  ASSUME NEW u \in Seq(Unit), NEW bytes, NEW size
  PROVE  Consists(u, 0, bytes, size) <=> bytes = 0 /\ size = 0
  <1>1. 0 \in 0..Len(u) /\ 1..0 = {}
    OBVIOUS
  <1>2. PrefixIn(u)[0] = 0 /\ PrefixOut(u)[0] = 0
    BY InRuns, OutRuns DEF RunningSum
  <1> QED
    BY <1>1, <1>2 DEF PrefixIn, PrefixOut, Consists

LEMMA ReadsNumbers ==
  ASSUME NEW u \in Seq(Unit), NEW n \in 0..Len(u), NEW bytes, NEW size,
         Consists(u, n, bytes, size)
  PROVE  bytes \in Nat /\ size \in Nat
  <1>1. PrefixIn(u)[n] \in Nat /\ PrefixOut(u)[n] \in Nat
    BY InRuns, OutRuns DEF RunningSum
  <1> QED
    BY <1>1 DEF PrefixIn, PrefixOut, Consists

(* Reading the first unit leaves the others to be read.                    *)
LEMMA ReadsFirst ==
  ASSUME NEW u \in Seq(Unit), NEW n \in 1..Len(u), NEW bytes \in Int, NEW size \in Int
  PROVE  Consists(u, n, bytes, size)
         <=> /\ u[1].kind = "sound"
             /\ Consists(Tail(u), n - 1, bytes - (u[1].head + u[1].body), size - u[1].out)
  <1> DEFINE v == Tail(u)
             m == n - 1
  <1>1. /\ v \in Seq(Unit) /\ Len(v) = Len(u) - 1 /\ Len(u) \in Nat \ {0}
        /\ m \in 0..Len(v) /\ n \in 0..Len(u) /\ 1 \in 1..Len(u)
        /\ \A k \in 1..Len(v) : v[k] = u[k + 1] /\ k + 1 \in 1..Len(u)
    <2> HIDE DEF Unit
    <2>1. u # << >>
      OBVIOUS
    <2> QED
      BY <2>1, HeadTailProperties
  <1> HIDE DEF v
  <1>2. /\ \A k \in 1..(Len(u) - 1) : Bytes(v)[k] = Bytes(u)[k + 1]
        /\ \A k \in 1..(Len(u) - 1) : Yields(v)[k] = Yields(u)[k + 1]
    BY <1>1 DEF Bytes, Yields
  <1>3. Bytes(u) \in [1..Len(u) -> Nat] /\ Yields(u) \in [1..Len(u) -> Nat]
    BY UnitFields DEF Bytes, Yields
  <1>4. Shifts(PrefixIn(u), Bytes(u), Len(u), PrefixIn(v))
    <2>1. RunningSum(PrefixIn(u), Bytes(u), Len(u)) /\ RunningSum(PrefixIn(v), Bytes(v), Len(u) - 1)
      BY <1>1, InRuns
    <2> QED
      BY <1>1, <1>2, <1>3, <2>1, RunningShifts
  <1>5. Shifts(PrefixOut(u), Yields(u), Len(u), PrefixOut(v))
    <2>1. RunningSum(PrefixOut(u), Yields(u), Len(u)) /\ RunningSum(PrefixOut(v), Yields(v), Len(u) - 1)
      BY <1>1, OutRuns
    <2> QED
      BY <1>1, <1>2, <1>3, <2>1, RunningShifts
  <1>6. /\ PrefixIn(u)[n] = In(SubSeq(u, 1, n)) /\ PrefixOut(u)[n] = Out(SubSeq(u, 1, n))
        /\ PrefixIn(v)[m] = In(SubSeq(v, 1, m)) /\ PrefixOut(v)[m] = Out(SubSeq(v, 1, m))
    BY <1>1 DEF PrefixIn, PrefixOut
  <1>7. /\ PrefixIn(u)[n] = (u[1].head + u[1].body) + PrefixIn(v)[m]
        /\ PrefixOut(u)[n] = u[1].out + PrefixOut(v)[m]
    BY <1>1, <1>4, <1>5 DEF Shifts, Bytes, Yields
  <1>8. /\ PrefixIn(v)[m] \in Nat /\ PrefixOut(v)[m] \in Nat
        /\ u[1].head \in Nat /\ u[1].body \in Nat /\ u[1].out \in Nat
    <2>1. PrefixIn(v)[m] \in Nat /\ PrefixOut(v)[m] \in Nat
      BY <1>1, InRuns, OutRuns DEF RunningSum
    <2> QED
      BY <1>1, <2>1, UnitFields
  <1>9. (\A i \in 1..n : u[i].kind = "sound")
        <=> u[1].kind = "sound" /\ \A i \in 1..m : v[i].kind = "sound"
    <2>1. ASSUME NEW i \in 1..n, i # 1
          PROVE  i - 1 \in 1..m /\ v[i - 1] = u[i]
      BY <1>1, <2>1
    <2>2. ASSUME NEW i \in 1..m
          PROVE  i + 1 \in 1..n /\ v[i] = u[i + 1]
      BY <1>1
    <2>3. 1 \in 1..n
      OBVIOUS
    <2> HIDE DEF m
    <2>4. ASSUME \A i \in 1..n : u[i].kind = "sound"
          PROVE  \A i \in 1..m : v[i].kind = "sound"
      BY <2>2, <2>4
    <2>5. ASSUME u[1].kind = "sound", \A i \in 1..m : v[i].kind = "sound",
                 NEW i \in 1..n
          PROVE  u[i].kind = "sound"
      BY <2>1, <2>5
    <2> QED
      BY <2>3, <2>4, <2>5
  <1> HIDE DEF m
  <1>10. bytes = In(SubSeq(u, 1, n))
         <=> bytes - (u[1].head + u[1].body) = In(SubSeq(v, 1, m))
    BY <1>6, <1>7, <1>8
  <1>11. size = Out(SubSeq(u, 1, n)) <=> size - u[1].out = Out(SubSeq(v, 1, m))
    BY <1>6, <1>7, <1>8
  <1> QED
    BY <1>9, <1>10, <1>11 DEF Consists, v, m

LEMMA RestBegins ==
  ASSUME NEW u \in Seq(Unit), NEW within \in BOOLEAN, NEW bytes \in Int,
         NEW size \in Int, Rest(u, within, bytes, size), within \/ bytes # 0
  PROVE  /\ u # << >> /\ u[1].kind = "sound"
         /\ bytes >= u[1].head + u[1].body /\ size >= u[1].out
         /\ Rest(Tail(u), FALSE, bytes - (u[1].head + u[1].body), size - u[1].out)
  <1>1. PICK n \in 0..Len(u) : (within => n > 0) /\ Consists(u, n, bytes, size)
    BY DEF Rest
  <1>2. n # 0
    BY <1>1, ReadsNothing
  <1>3. n \in 1..Len(u) /\ u # << >> /\ 1 \in 1..Len(u)
    BY <1>2
  <1>4. /\ u[1].kind = "sound"
        /\ Consists(Tail(u), n - 1, bytes - (u[1].head + u[1].body), size - u[1].out)
    BY <1>1, <1>3, ReadsFirst
  <1>5. Tail(u) \in Seq(Unit) /\ n - 1 \in 0..Len(Tail(u))
    <2> HIDE DEF Unit
    <2>1. Tail(u) \in Seq(Unit) /\ Len(Tail(u)) = Len(u) - 1 /\ Len(u) \in Nat
      BY <1>3, HeadTailProperties
    <2> QED
      BY <1>3, <2>1
  <1>6. bytes - (u[1].head + u[1].body) \in Nat /\ size - u[1].out \in Nat
    BY <1>4, <1>5, ReadsNumbers
  <1>7. u[1].head \in Nat /\ u[1].body \in Nat /\ u[1].out \in Nat
    BY <1>3, UnitFields
  <1>8. bytes >= u[1].head + u[1].body /\ size >= u[1].out
    <2>1. \A a, b, x \in Int : x - (a + b) \in Nat => x >= a + b
      OBVIOUS
    <2>2. \A a, x \in Int : x - a \in Nat => x >= a
      OBVIOUS
    <2>3. /\ u[1].head \in Int /\ u[1].body \in Int /\ u[1].out \in Int
          /\ bytes \in Int /\ size \in Int
      BY <1>7
    <2>4. bytes >= u[1].head + u[1].body
      BY <1>6, <2>1, <2>3, Zenon
    <2> QED
      BY <1>6, <2>2, <2>3, <2>4, Zenon
  <1>9. Rest(Tail(u), FALSE, bytes - (u[1].head + u[1].body), size - u[1].out)
    BY <1>4, <1>5 DEF Rest
  <1> QED
    BY <1>3, <1>4, <1>8, <1>9

LEMMA RestContinues ==
  ASSUME NEW u \in Seq(Unit), NEW within \in BOOLEAN, NEW bytes \in Int,
         NEW size \in Int, u # << >>, u[1].kind = "sound",
         Rest(Tail(u), FALSE, bytes - (u[1].head + u[1].body), size - u[1].out)
  PROVE  Rest(u, within, bytes, size)
  <1>1. PICK m \in 0..Len(Tail(u)) :
          Consists(Tail(u), m, bytes - (u[1].head + u[1].body), size - u[1].out)
    BY DEF Rest
  <1> DEFINE n == m + 1
  <1>2. n \in 1..Len(u) /\ n \in 0..Len(u) /\ n - 1 = m /\ n > 0
    <2> HIDE DEF Unit
    <2>1. Len(Tail(u)) = Len(u) - 1 /\ Len(u) \in Nat
      BY HeadTailProperties
    <2> QED
      BY <2>1
  <1> HIDE DEF n
  <1>3. Consists(u, n, bytes, size)
    BY <1>1, <1>2, ReadsFirst
  <1> QED
    BY <1>2, <1>3 DEF Rest

(* The codec has read k bytes of the unit, which have yielded o: the same  *)
(* is left of the section as of the units.                                 *)
Leaves(u, within, bytes, size, r, k, o) ==
  Rest(u, within, bytes, size) <=> Rest(<<r>> \o Tail(u), TRUE, bytes - k, size - o)

LEMMA PartRead ==
  ASSUME NEW u \in Seq(Unit), NEW within \in BOOLEAN, NEW bytes \in Int,
         NEW size \in Int, u # << >>, within \/ bytes # 0,
         NEW k \in Nat, NEW o \in Nat, NEW r \in Unit, r.kind = u[1].kind,
         r.head + r.body = (u[1].head + u[1].body) - k, r.out = u[1].out - o
  PROVE  Leaves(u, within, bytes, size, r, k, o)
  <1> DEFINE v == <<r>> \o Tail(u)
  <1>1. /\ v \in Seq(Unit) /\ v # << >> /\ v[1] = r /\ Tail(v) = Tail(u)
    OBVIOUS
  <1>2. /\ u[1].head \in Nat /\ u[1].body \in Nat /\ u[1].out \in Nat
    BY UnitFields, 1 \in 1..Len(u)
  <1>3. r.head \in Nat /\ r.body \in Nat /\ r.out \in Nat
    BY DEF Unit
  <1> HIDE DEF v
  <1>4. /\ (bytes - k) - (v[1].head + v[1].body) = bytes - (u[1].head + u[1].body)
        /\ (size - o) - v[1].out = size - u[1].out
        /\ bytes - k \in Int /\ size - o \in Int /\ v[1].kind = u[1].kind
    <2>1. \A b, x, y \in Int : (b - y) - (x - y) = b - x
      OBVIOUS
    <2>2. (bytes - k) - (r.head + r.body) = bytes - (u[1].head + u[1].body)
      BY <1>2, <2>1, u[1].head + u[1].body \in Int, k \in Int
    <2>3. (size - o) - r.out = size - u[1].out
      BY <1>2, <2>1, u[1].out \in Int, o \in Int
    <2> QED
      BY <1>1, <2>2, <2>3
  <1>5. ASSUME Rest(u, within, bytes, size)
        PROVE  Rest(v, TRUE, bytes - k, size - o)
    <2>1. u[1].kind = "sound"
          /\ Rest(Tail(u), FALSE, bytes - (u[1].head + u[1].body), size - u[1].out)
      BY <1>5, RestBegins
    <2> QED
      BY <1>1, <1>4, <2>1, RestContinues
  <1>6. ASSUME Rest(v, TRUE, bytes - k, size - o)
        PROVE  Rest(u, within, bytes, size)
    <2>1. v[1].kind = "sound"
          /\ Rest(Tail(v), FALSE, (bytes - k) - (v[1].head + v[1].body), (size - o) - v[1].out)
      BY <1>1, <1>4, <1>6, RestBegins
    <2> QED
      BY <1>1, <1>4, <2>1, RestContinues
  <1> QED
    BY <1>5, <1>6 DEF v, Leaves

LEMMA UnitRead ==
  ASSUME NEW u \in Seq(Unit), NEW within \in BOOLEAN, NEW bytes \in Int,
         NEW size \in Int, u # << >>, within \/ bytes # 0, u[1].kind = "sound"
  PROVE  Rest(u, within, bytes, size)
         <=> Rest(Tail(u), FALSE, bytes - (u[1].head + u[1].body), size - u[1].out)
  BY RestBegins, RestContinues

(* Nothing is left of a section when nothing is left of either.            *)
LEMMA NothingLeft ==
  ASSUME NEW u \in Seq(Unit)
  PROVE  Rest(u, FALSE, 0, 0)
  <1>1. Consists(u, 0, 0, 0) /\ 0 \in 0..Len(u)
    BY ReadsNothing
  <1> QED
    BY <1>1 DEF Rest

LEMMA Remaining ==
  ASSUME IInv, InSection
  PROVE  /\ fragment_len - consumed = (section_end - position) + staged
         /\ fragment_len - consumed \in Nat /\ staged \in Nat
         /\ position <= section_end /\ position \in Nat /\ section_end \in Nat
         /\ decoded_size - produced \in Nat /\ consumed \in Nat
         /\ staged <= STAGING_SIZE /\ inside \in BOOLEAN
  <1>1. /\ position \in Nat /\ section_end \in Nat /\ fragment_start \in Nat
        /\ consumed \in Nat /\ produced \in 0..decoded_size /\ decoded_size \in Nat
        /\ staging_end \in 0..STAGING_SIZE /\ staging_start \in 0..staging_end
        /\ inside \in BOOLEAN
    BY DEF IInv, TypeOK
  <1>2. position = fragment_start + consumed + staged /\ position <= section_end
    BY DEF IInv, StagedInOrder, InSection
  <1>3. staged \in Nat /\ staged <= STAGING_SIZE
    BY <1>1 DEF staged
  <1> QED
    BY <1>1, <1>2, <1>3 DEF fragment_len

LEMMA InitSound == Init => SoundInv
  <1> SUFFICES ASSUME Init PROVE SoundInv
    OBVIOUS
  <1>1. /\ decoders = [k \in KindSet |-> -1] /\ written = [k \in KindSet |-> 0]
        /\ units = << >> /\ inside = FALSE /\ pc = "idle" /\ sound = TRUE
    BY DEF Init
  <1>2. StreamsInStep
    BY <1>1 DEF StreamsInStep, InSection, Seen
  <1>3. UnitsLeft
    BY <1>1 DEF UnitsLeft, BeforeUnit
  <1>4. HeaderInv /\ SoundSoFar /\ NoSoundSectionRefused /\ OnlySoundAccepted
    BY <1>1 DEF HeaderInv, SoundSoFar, NoSoundSectionRefused, OnlySoundAccepted,
                InSection
  <1> QED
    BY <1>2, <1>3, <1>4 DEF SoundInv

(* Where the decode ends, only that an end with an error is right is left  *)
(* to be shown.                                                            *)
LEMMA EndIsSound ==
  ASSUME pc' \in {"refused", "io"}, UnitsLeft', pc' = "refused" => ~sound'
  PROVE  SoundInv'
  BY DEF SoundInv, StreamsInStep, HeaderInv, SoundSoFar, NoSoundSectionRefused,
         OnlySoundAccepted, InSection

LEMMA UnitsKept ==
  ASSUME UnitsLeft, UNCHANGED codec, InSection' => InSection /\ UNCHANGED progress /\ UNCHANGED section
  PROVE  UnitsLeft'
  <1>1. units' = units /\ inside' = inside
    BY DEF codec
  <1>2. InUnit => InUnit'
    BY <1>1 DEF InUnit, progress, section
  <1>3. BeforeUnit => BeforeUnit'
    BY <1>1 DEF BeforeUnit, progress, section
  <1> QED
    BY <1>1, <1>2, <1>3 DEF UnitsLeft

LEMMA RefusedIsSound ==
  ASSUME SoundInv, Refused, ~sound
  PROVE  SoundInv'
  <1>1. pc' = "refused" /\ UNCHANGED codec /\ sound' = sound /\ ~InSection'
    BY DEF Refused, section, InSection
  <1>2. UnitsLeft'
    BY <1>1, UnitsKept DEF SoundInv
  <1> QED
    BY <1>1, <1>2, EndIsSound

LEMMA RawSectionSound ==
  ASSUME SoundInv, RawSection
  PROVE  SoundInv'
  <1>1. /\ pc = "idle" /\ pc' = "idle" /\ UNCHANGED <<decoders, codec, section>>
        /\ ~InSection' /\ sound' = sound /\ written' = written
    BY DEF RawSection, InSection, section
  <1>2. UnitsLeft'
    BY <1>1, UnitsKept DEF SoundInv
  <1>3. StreamsInStep'
    BY <1>1 DEF SoundInv, StreamsInStep, Seen
  <1> QED
    BY <1>1, <1>2, <1>3 DEF SoundInv, HeaderInv, SoundSoFar, NoSoundSectionRefused,
                            OnlySoundAccepted

LEMMA DeltaFailsSound ==
  ASSUME SoundInv, DeltaFails
  PROVE  SoundInv'
  <1>1. pc' = "io" /\ UNCHANGED codec /\ ~InSection'
    BY DEF DeltaFails, InSection
  <1>2. UnitsLeft'
    BY <1>1, UnitsKept DEF SoundInv
  <1> QED
    BY <1>1, <1>2, EndIsSound

(* A refill changes neither what is left nor how it is to be read.         *)
LEMMA RefillSound ==
  ASSUME IInv, SoundInv, InSection, pc' = "loop",
         UNCHANGED <<section_end, sections, decoders, progress, header_checked,
                     section, codec>>,
         ~header_checked => HeaderUnread'
  PROVE  SoundInv'
  <1>1. /\ written' = written /\ decoders' = decoders /\ sections' = sections
        /\ units' = units /\ inside' = inside /\ sound' = sound
        /\ bad_check' = bad_check /\ consumed' = consumed /\ produced' = produced
        /\ decoded_size' = decoded_size /\ fragment_start' = fragment_start
        /\ section_end' = section_end /\ header_checked' = header_checked
    BY DEF section, codec, progress
  <1>2. InSection' /\ kind' = kind
    BY <1>1 DEF InSection, kind
  <1>3. StreamsInStep'
    BY <1>1, <1>2 DEF SoundInv, StreamsInStep, InSection, Seen
  <1>4. UnitsLeft'
    BY UnitsKept DEF SoundInv
  <1>5. HeaderInv'
    BY <1>1, <1>2 DEF SoundInv, HeaderInv
  <1>6. SoundSoFar'
    <2>1. RestSound' = RestSound
      BY <1>1, <1>2 DEF RestSound, fragment_len
    <2> QED
      BY <1>1, <1>2, <2>1 DEF SoundInv, SoundSoFar
  <1> QED
    BY <1>3, <1>4, <1>5, <1>6 DEF SoundInv, NoSoundSectionRefused, OnlySoundAccepted

LEMMA RefillIsSound ==
  ASSUME IInv, SoundInv, Refill
  PROVE  SoundInv'
  <1>1. InSection /\ pc = "loop" /\ staged = 0 /\ position # section_end
    BY DEF Refill, InSection
  <1>2. /\ pc' = "loop" /\ RefillStaging(0, 0)
        /\ UNCHANGED <<section_end, sections, decoders, progress, header_checked,
                       section, codec>>
    BY <1>1 DEF Refill
  <1>3. ASSUME ~header_checked
        PROVE  HeaderUnread'
    <2>1. HeaderUnread
      BY <1>1, <1>3 DEF SoundInv, HeaderInv
    <2>2. consumed = 0
      BY <1>1, <2>1 DEF HeaderUnread
    <2>3. /\ section_end - position \in Nat /\ section_end \in Nat /\ position \in Nat
      BY <1>1, Remaining
    <2> DEFINE count == IF section_end - position < STAGING_SIZE
                        THEN section_end - position ELSE STAGING_SIZE
    <2>4. /\ staging_start' = 0 /\ staging_end' = count /\ position' = position + count
      BY <1>2, <2>3 DEF RefillStaging, Room
    <2>5. staged' = count
      BY <2>3, <2>4 DEF staged
    <2>6. \/ count > CHECK_BYTE
          \/ position + count = section_end /\ count <= CHECK_BYTE
      BY <2>3
    <2>7. /\ written' = written /\ units' = units /\ consumed' = consumed
          /\ produced' = produced /\ section_end' = section_end /\ kind' = kind
      BY <1>2 DEF section, codec, progress, kind
    <2> QED
      BY <1>2, <2>1, <2>2, <2>3, <2>4, <2>5, <2>6, <2>7 DEF HeaderUnread
  <1> QED
    BY <1>1, <1>2, <1>3, RefillSound

LEMMA CheckHeaderSound ==
  ASSUME IInv, SoundInv, CheckHeader
  PROVE  SoundInv'
  <1>1. InSection /\ pc = "loop" /\ staged > 0
    BY DEF CheckHeader, InSection
  <1>2. CASE header_checked \/ staged <= CHECK_BYTE
    <2>1. /\ pc' = "decode" /\ InSection'
          /\ UNCHANGED <<input, decoders, buffer, progress, header_checked,
                         section, codec>>
      BY <1>2 DEF CheckHeader, InSection
    <2>2. HeaderInv'
      <3>1. ASSUME ~header_checked
            PROVE  HeaderUnread'
        <4>1. HeaderUnread
          BY <1>1, <3>1 DEF SoundInv, HeaderInv
        <4>2. staged <= CHECK_BYTE /\ staged \in Nat
          BY <1>1, <1>2, <3>1, Remaining
        <4>3. position = section_end /\ consumed + staged <= CHECK_BYTE
          BY <1>1, <4>1, <4>2 DEF HeaderUnread
        <4> QED
          BY <2>1, <4>1, <4>3 DEF HeaderUnread, input, buffer, progress, section,
                                  codec, staged, kind
      <3> QED
        BY <1>1, <2>1, <3>1 DEF SoundInv, HeaderInv, section, kind, input
    <2>3. UnitsLeft'
      BY <1>1, <2>1, UnitsKept DEF SoundInv
    <2>4. StreamsInStep'
      BY <1>1, <2>1 DEF SoundInv, StreamsInStep, InSection, Seen, section, kind, input
    <2>5. SoundSoFar'
      <3>1. RestSound' = RestSound
        BY <2>1 DEF RestSound, fragment_len, section, codec, progress, input, kind
      <3> QED
        BY <1>1, <2>1, <3>1 DEF SoundInv, SoundSoFar, section, staged, buffer
    <2> QED
      BY <2>1, <2>2, <2>3, <2>4, <2>5
      DEF SoundInv, NoSoundSectionRefused, OnlySoundAccepted
  <1>3. CASE ~header_checked /\ staged > CHECK_BYTE
    <2>1. HeaderUnread
      BY <1>1, <1>3 DEF SoundInv, HeaderInv
    <2>2. staged \in Nat /\ consumed \in Nat
      BY <1>1, Remaining
    <2>3. consumed = 0 /\ written[kind] = 1
      BY <1>3, <2>1, <2>2 DEF HeaderUnread
    <2>4. staging[staging_start + CHECK_BYTE] = fragment_start + CHECK_BYTE
      <3>1. staging_start \in Nat /\ staging_end \in Nat /\ fragment_start \in Nat
        BY DEF IInv, TypeOK
      <3> DEFINE i == staging_start + CHECK_BYTE
      <3>2. i \in staging_start..(staging_end - 1)
        BY <1>3, <3>1 DEF staged
      <3>3. staging[i] = fragment_start + consumed + (i - staging_start)
        BY <1>1, <3>2 DEF IInv, StagedInOrder
      <3> QED
        BY <2>3, <3>1, <3>3
    <2>5. IsZero(staging[staging_start + CHECK_BYTE]) <=> ~bad_check
      BY <2>4 DEF IsZero
    <2>8. ~(header_checked \/ staged <= CHECK_BYTE)
      BY <1>3, <2>2
    <2>6. CASE bad_check
      <3>1. Refused
        BY <2>5, <2>6, <2>8 DEF CheckHeader
      <3>2. ~sound
        BY <1>1, <2>3, <2>6 DEF SoundInv, SoundSoFar, RestSound
      <3> QED
        BY <3>1, <3>2, RefusedIsSound
    <2>7. CASE ~bad_check
      <3>1. /\ pc' = "decode" /\ InSection' /\ header_checked' = TRUE
            /\ UNCHANGED <<input, decoders, buffer, progress, section, codec>>
        BY <2>5, <2>7, <2>8 DEF CheckHeader, InSection
      <3>2. HeaderInv'
        BY <1>1, <2>7, <3>1 DEF SoundInv, HeaderInv, section, kind, input
      <3>3. UnitsLeft'
        BY <1>1, <3>1, UnitsKept DEF SoundInv
      <3>4. StreamsInStep'
        BY <1>1, <3>1 DEF SoundInv, StreamsInStep, InSection, Seen, section, kind, input
      <3>5. SoundSoFar'
        <4>1. RestSound' = RestSound
          BY <3>1 DEF RestSound, fragment_len, section, codec, progress, input, kind
        <4> QED
          BY <1>1, <3>1, <4>1 DEF SoundInv, SoundSoFar, section, staged, buffer
      <3> QED
        BY <3>1, <3>2, <3>3, <3>4, <3>5
        DEF SoundInv, NoSoundSectionRefused, OnlySoundAccepted
    <2> QED
      BY <2>6, <2>7
  <1> QED
    <2>1. staged \in Nat
      BY <1>1, Remaining
    <2> QED
      BY <1>2, <1>3, <2>1

(* The codec wants a head whole that the section does not have.            *)
LEMMA NeedsLargerSound ==
  ASSUME IInv, SoundInv, NeedsLarger
  PROVE  SoundInv'
  <1>1. InSection /\ pc = "decode" /\ ~advanced /\ Follows /\ staged < current.head
    BY DEF NeedsLarger, InSection
  <1>2. /\ units # << >> /\ units \in Seq(Unit) /\ current = units[1]
        /\ units[1].head <= STAGING_SIZE /\ units[1].head \in Nat
        /\ units[1].body \in Nat
    <2>1. units # << >> /\ units \in Seq(Unit) /\ units[1].head <= STAGING_SIZE
      BY <1>1 DEF Follows, SoundInv, UnitsLeft
    <2> QED
      BY <2>1, UnitFields DEF current
  <1>3. /\ staged \in Nat /\ staged > 0 /\ decoded_size - produced \in Nat
        /\ fragment_len - consumed \in Nat /\ inside \in BOOLEAN
        /\ fragment_len - consumed = (section_end - position) + staged
        /\ position \in Nat
    BY <1>1, Remaining DEF SoundInv, SoundSoFar
  <1>4. CASE staged = STAGING_SIZE \/ position = section_end
    <2>1. position = section_end
      BY <1>1, <1>2, <1>3, <1>4
    <2>2. fragment_len - consumed = staged
      BY <1>3, <2>1
    <2>3. Refused
      BY <1>4 DEF NeedsLarger
    <2>4. ~Rest(units, inside, fragment_len - consumed, decoded_size - produced)
      <3> SUFFICES ASSUME Rest(units, inside, fragment_len - consumed,
                               decoded_size - produced)
                   PROVE  FALSE
        OBVIOUS
      <3>1. /\ fragment_len - consumed \in Int /\ decoded_size - produced \in Int
            /\ fragment_len - consumed # 0
        BY <1>3, <2>2
      <3>2. fragment_len - consumed >= units[1].head + units[1].body
        BY <1>2, <1>3, <3>1, RestBegins
      <3> QED
        BY <1>1, <1>2, <1>3, <2>2, <3>2
    <2> QED
      BY <1>1, <2>3, <2>4, RefusedIsSound DEF SoundInv, SoundSoFar, RestSound
  <1>5. CASE ~(staged = STAGING_SIZE \/ position = section_end)
    <2>1. /\ pc' = "loop"
          /\ UNCHANGED <<section_end, sections, decoders, progress,
                         header_checked, section, codec>>
      BY <1>5 DEF NeedsLarger
    <2>2. header_checked
      BY <1>1, <1>5 DEF SoundInv, HeaderInv, HeaderUnread
    <2> QED
      BY <1>1, <2>1, <2>2, RefillSound
  <1> QED
    BY <1>4, <1>5

(* Where the bytes are no fragment of the stream, nothing sound is left.   *)
LEMMA NothingSound ==
  ASSUME IInv, SoundInv, InSection, ~Follows, NEW within \in BOOLEAN,
         NEW bytes \in Int, NEW size \in Int, within \/ bytes # 0
  PROVE  ~Rest(units, within, bytes, size)
  <1> SUFFICES ASSUME Rest(units, within, bytes, size)
               PROVE  FALSE
    OBVIOUS
  <1>1. units \in Seq(Unit)
    BY DEF SoundInv, UnitsLeft
  <1>2. units # << >> /\ units[1].kind = "sound"
    BY <1>1, RestBegins
  <1>3. current = units[1]
    BY <1>2 DEF current
  <1> QED
    BY <1>2, <1>3 DEF Follows, SoundInv, StreamsInStep

LEMMA AstrayUnsound ==
  ASSUME IInv, SoundInv, Astray
  PROVE  ~sound /\ InSection /\ ~Follows
  <1>1. InSection /\ ~Follows /\ (inside \/ staged > 0)
    BY DEF Astray, InSection
  <1> DEFINE left == fragment_len - consumed
             due == decoded_size - produced
  <1>2. /\ due \in Int /\ inside \in BOOLEAN /\ left \in Int
        /\ inside \/ left # 0
    <2>1. /\ staged \in Nat /\ position \in Nat /\ section_end \in Nat
          /\ position <= section_end /\ due \in Int /\ inside \in BOOLEAN
          /\ left = (section_end - position) + staged
      BY <1>1, Remaining
    <2> HIDE DEF left, due
    <2> QED
      BY <1>1, <2>1
  <1> HIDE DEF left, due
  <1>3. ~Rest(units, inside, left, due)
    BY <1>1, <1>2, NothingSound
  <1> QED
    BY <1>1, <1>3 DEF SoundInv, SoundSoFar, RestSound, left, due

LEMMA CodecRefusesSound ==
  ASSUME IInv, SoundInv, CodecRefuses
  PROVE  SoundInv'
  BY AstrayUnsound, RefusedIsSound DEF CodecRefuses

LEMMA CodecSwallowsSound ==
  ASSUME IInv, SoundInv, CodecSwallows
  PROVE  SoundInv'
  <1>1. ~sound /\ InSection /\ ~Follows
    BY AstrayUnsound DEF CodecSwallows
  <1>2. PICK bytes \in 0..staged, out \in 0..(decoded_size - produced) :
          Moves(bytes, out)
    BY DEF CodecSwallows
  <1>3. /\ inside' = TRUE /\ units' = units /\ pc = "decode" /\ pc' = "decode"
        /\ advanced' = TRUE /\ InSection'
        /\ UNCHANGED <<input, decoders, header_checked, section>>
    BY <1>2 DEF CodecSwallows, Astray, Moves, InSection
  <1>4. /\ kind' = kind /\ written' = written /\ decoders' = decoders
        /\ sound' = sound /\ bad_check' = bad_check
        /\ decoded_size' = decoded_size /\ fragment_len' = fragment_len
        /\ header_checked' = header_checked
    BY <1>3 DEF section, input, kind, fragment_len
  <1>5. units = << >> \/ units[1].kind # "sound"
    BY <1>1 DEF Follows, current, SoundInv, StreamsInStep
  <1>6. StreamsInStep'
    BY <1>1, <1>3, <1>4 DEF SoundInv, StreamsInStep, Seen, InSection
  <1>7. UnitsLeft'
    BY <1>3, <1>5 DEF SoundInv, UnitsLeft
  <1>8. header_checked
    BY <1>1, <1>5 DEF SoundInv, HeaderInv, HeaderUnread
  <1>9. HeaderInv'
    BY <1>1, <1>3, <1>4, <1>8 DEF SoundInv, HeaderInv
  <1>10. SoundSoFar'
    <2> DEFINE left2 == fragment_len' - consumed'
               due2 == decoded_size' - produced'
    <2>1. IInv'
      BY CodecSwallowsKeepsInv
    <2>2. left2 \in Int /\ due2 \in Int
      <3>1. /\ section_end' \in Nat /\ fragment_start' \in Nat
            /\ consumed' \in Nat /\ produced' \in Nat /\ decoded_size' \in Nat
        BY <2>1 DEF IInv, TypeOK
      <3> QED
        BY <3>1 DEF fragment_len
    <2> HIDE DEF left2, due2
    <2>3. ~Rest(units, TRUE, left2, due2)
      BY <1>1, <2>2, NothingSound
    <2>4. ~RestSound'
      BY <1>3, <2>3 DEF RestSound, left2, due2
    <2> QED
      BY <1>1, <1>3, <1>4, <2>4 DEF SoundSoFar
  <1> QED
    BY <1>3, <1>6, <1>7, <1>9, <1>10
    DEF SoundInv, NoSoundSectionRefused, OnlySoundAccepted

(* At the end of the section, only a stream between two chunks with its    *)
(* output complete is sound.                                               *)
LEMMA FinishSound ==
  ASSUME IInv, SoundInv, FinishFragment
  PROVE  SoundInv'
  <1>1. InSection /\ pc = "loop" /\ staged = 0 /\ position = section_end
    BY DEF FinishFragment, InSection
  <1>2. /\ fragment_len - consumed = 0 /\ decoded_size - produced \in Nat
        /\ inside \in BOOLEAN /\ decoded_size - produced \in Int
    <2>1. /\ fragment_len - consumed = (section_end - position) + staged
          /\ position \in Nat /\ decoded_size - produced \in Nat
          /\ inside \in BOOLEAN
      BY <1>1, Remaining
    <2> QED
      BY <1>1, <2>1
  <1>3. decoded_size \in Nat /\ produced \in Nat /\ consumed \in Nat
        /\ fragment_len \in Int
    BY DEF IInv, TypeOK, fragment_len
  <1>4. units \in Seq(Unit)
    BY DEF SoundInv, UnitsLeft
  <1>5. consumed = fragment_len
    BY <1>2, <1>3
  <1>6. CASE Complete
    <2>1. produced = decoded_size /\ ~inside
      BY <1>6 DEF Complete
    <2>2. header_checked
      <3>1. decoded_size > 0
        BY <1>1 DEF SoundInv, HeaderInv
      <3>2. ~HeaderUnread
        BY <1>3, <2>1, <3>1 DEF HeaderUnread
      <3> QED
        BY <1>1, <3>2 DEF SoundInv, HeaderInv
    <2>3. ~(bad_check /\ written[kind] = 1)
      BY <1>1, <2>2 DEF SoundInv, HeaderInv
    <2>4. Rest(units, inside, fragment_len - consumed, decoded_size - produced)
      <3>1. inside = FALSE /\ decoded_size - produced = 0
        BY <1>2, <1>3, <2>1
      <3> QED
        BY <1>2, <1>4, <3>1, NothingLeft
    <2>5. sound
      BY <1>1, <2>3, <2>4 DEF SoundInv, SoundSoFar, RestSound
    <2>6. /\ pc' = "idle" /\ sections' = sections + 1 /\ ~InSection'
          /\ decoders' = [decoders EXCEPT ![kind] = @ + 1]
          /\ UNCHANGED codec /\ written' = written /\ sound' = sound
      BY <1>6 DEF FinishFragment, section, InSection
    <2>7. UnitsLeft'
      BY <2>6, UnitsKept DEF SoundInv
    <2>8. StreamsInStep'
      <3>1. /\ decoders \in [KindSet -> Int] /\ written \in [KindSet -> Nat]
            /\ kind \in KindSet
        BY KindOfSection DEF IInv, TypeOK
      <3>2. /\ written[kind] > 0 /\ decoders[kind] = written[kind] - 1
            /\ \A k \in KindSet : k # kind => decoders[k] = Seen(k)
        BY <1>1 DEF SoundInv, StreamsInStep
      <3>3. ASSUME NEW k \in KindSet
            PROVE  decoders'[k] = Seen(k)
        <4>1. CASE k = kind
          <5>1. decoders'[k] = decoders[kind] + 1
            BY <2>6, <3>1, <4>1
          <5>2. written[kind] \in Nat
            BY <3>1
          <5>3. decoders[kind] + 1 = written[kind] /\ written[kind] # 0
            BY <3>2, <5>2
          <5> QED
            BY <4>1, <5>1, <5>3 DEF Seen
        <4>2. CASE k # kind
          BY <2>6, <3>1, <3>2, <4>2
        <4> QED
          BY <4>1, <4>2
      <3>4. \A k \in KindSet : Seen(k)' = Seen(k)
        BY <2>6 DEF Seen
      <3> QED
        BY <2>6, <3>3, <3>4 DEF StreamsInStep
    <2> QED
      BY <2>5, <2>6, <2>7, <2>8 DEF SoundInv, HeaderInv, SoundSoFar,
         NoSoundSectionRefused, OnlySoundAccepted
  <1>7. CASE ~Complete
    <2>1. Refused
      BY <1>7 DEF FinishFragment
    <2>2. ~Rest(units, inside, fragment_len - consumed, decoded_size - produced)
      <3> SUFFICES ASSUME Rest(units, inside, fragment_len - consumed,
                               decoded_size - produced)
                   PROVE  FALSE
        OBVIOUS
      <3>1. CASE ~inside
        <4>1. inside = FALSE /\ produced # decoded_size
          BY <1>2, <1>5, <1>7, <3>1 DEF Complete
        <4>2. Rest(units, FALSE, 0, decoded_size - produced)
          BY <1>2, <4>1
        <4>3. PICK n \in 0..Len(units) : Consists(units, n, 0, decoded_size - produced)
          BY <4>2 DEF Rest
        <4>4. CASE n = 0
          <5>1. decoded_size - produced = 0
            BY <1>4, <4>3, <4>4, ReadsNothing
          <5> QED
            BY <1>3, <4>1, <5>1
        <4>5. CASE n # 0
          <5>1. n \in 1..Len(units) /\ n - 1 \in 0..Len(Tail(units))
                /\ Tail(units) \in Seq(Unit) /\ units # << >> /\ 1 \in 1..Len(units)
            <6> HIDE DEF Unit
            <6>1. units # << >>
              BY <4>5
            <6>2. Tail(units) \in Seq(Unit) /\ Len(Tail(units)) = Len(units) - 1
                  /\ Len(units) \in Nat
              BY <1>4, <6>1, HeadTailProperties
            <6> QED
              BY <4>5, <6>1, <6>2
          <5>2. Consists(Tail(units), n - 1, 0 - (units[1].head + units[1].body),
                         (decoded_size - produced) - units[1].out)
            BY <1>2, <1>4, <4>3, <5>1, ReadsFirst, 0 \in Int
          <5>3. 0 - (units[1].head + units[1].body) \in Nat
            BY <5>1, <5>2, ReadsNumbers
          <5>4. units[1].head \in Nat /\ units[1].body \in Nat
            BY <1>4, <5>1, UnitFields
          <5>5. units[1].head > 0
            BY <4>1, <5>1 DEF SoundInv, UnitsLeft, BeforeUnit
          <5> QED
            BY <5>3, <5>4, <5>5
        <4> QED
          BY <4>4, <4>5
      <3>2. CASE inside
        <4>1. /\ units # << >> /\ units[1].kind = "sound"
              /\ fragment_len - consumed >= units[1].head + units[1].body
              /\ decoded_size - produced >= units[1].out
          <5>1. fragment_len - consumed \in Int
            BY <1>2
          <5> QED
            BY <1>2, <1>4, <3>2, <5>1, RestBegins
        <4>2. units[1].head \in Nat /\ units[1].body \in Nat /\ units[1].out \in Nat
          BY <1>4, <4>1, UnitFields, 1 \in 1..Len(units)
        <4>3. units[1].head + units[1].body = 0
          BY <1>2, <4>1, <4>2
        <4>4. units[1].out > 0 /\ produced = decoded_size
          BY <1>1, <3>2, <4>1, <4>3 DEF SoundInv, UnitsLeft, InUnit
        <4> QED
          BY <1>3, <4>1, <4>2, <4>4
      <3> QED
        BY <3>1, <3>2
    <2> QED
      BY <1>1, <2>1, <2>2, RefusedIsSound DEF SoundInv, SoundSoFar, RestSound
  <1> QED
    BY <1>6, <1>7

ChunkFields == \A chunk \in Chunks :
   /\ chunk \in Unit /\ chunk.head \in 1..STAGING_SIZE
   /\ chunk.kind = "sound" => chunk.out > 0

LEMMA ChunksHaveFields == ChunkFields
  <1>1. Chunks \subseteq Unit
    BY ChunksAssumption
  <1>2. \A chunk \in Chunks : /\ chunk.head \in 1..STAGING_SIZE
                              /\ chunk.kind = "sound" => chunk.out > 0
    BY ChunksAssumption
  <1> SUFFICES ASSUME NEW chunk \in Chunks
               PROVE  /\ chunk \in Unit /\ chunk.head \in 1..STAGING_SIZE
                      /\ chunk.kind = "sound" => chunk.out > 0
    BY Zenon DEF ChunkFields
  <1> QED
    BY <1>1, <1>2

LEMMA CodecAdvancesSound ==
  ASSUME IInv, SoundInv, CodecAdvances
  PROVE  SoundInv'
  <1>1. InSection /\ pc = "decode" /\ Follows
    BY DEF CodecAdvances, InSection
  <1> DEFINE size == current.head + current.body
             left == fragment_len - consumed
             due == decoded_size - produced
  <1>2. /\ units # << >> /\ units \in Seq(Unit) /\ current = units[1]
        /\ current \in Unit /\ current.kind = "sound"
        /\ current.head \in Nat /\ current.body \in Nat /\ current.out \in Nat
        /\ size \in Nat /\ current.head <= STAGING_SIZE
    <2>1. units # << >> /\ units \in Seq(Unit) /\ units[1].head <= STAGING_SIZE
      BY <1>1 DEF Follows, SoundInv, UnitsLeft
    <2>2. current = units[1] /\ 1 \in 1..Len(units) /\ current \in Unit
      BY <2>1 DEF current
    <2>3. current.head \in Nat /\ current.body \in Nat /\ current.out \in Nat
      BY <2>1, <2>2, UnitFields
    <2> QED
      BY <1>1, <2>1, <2>2, <2>3 DEF Follows
  <1>3. /\ staged \in Nat /\ staged <= STAGING_SIZE /\ due \in Nat
        /\ left \in Nat /\ inside \in BOOLEAN /\ left = (section_end - position) + staged
        /\ position \in Nat /\ section_end \in Nat /\ position <= section_end
        /\ consumed \in Nat
    BY <1>1, Remaining
  <1>4. /\ staging_start \in Nat /\ staging_end \in Nat
        /\ produced \in Nat /\ decoded_size \in Nat /\ fragment_len \in Int
    BY DEF IInv, TypeOK, fragment_len
  <1>a. PICK bytes \in 0..staged, out \in 0..(decoded_size - produced) :
         LET unread == current.head + current.body - bytes
             head == IF bytes < current.head THEN current.head - bytes ELSE 0
             rest == [current EXCEPT !.head = head, !.body = unread - head,
                                   !.out = @ - out]
             whole == unread = 0 /\ out = current.out
         IN /\ unread >= 0 /\ out <= current.out
            /\ bytes = 0 => current.head + current.body = 0
            /\ out > 0 => head = 0
            /\ unread = 0 => out = current.out \/ out = decoded_size - produced
            /\ units' = IF whole THEN Tail(units) ELSE <<rest>> \o Tail(units)
            /\ inside' = ~whole
            /\ Moves(bytes, out)
    BY DEF CodecAdvances
  <1>b. bytes \in 0..staged /\ out \in 0..due
    BY <1>a
  <1>x. size - bytes = current.head + current.body - bytes
    <2>1. bytes \in Nat
      BY <1>3, <1>b
    <2> QED
      BY <1>2, <2>1
  <1>c. /\ size - bytes >= 0 /\ out <= current.out
        /\ bytes = 0 => size = 0
    BY <1>a, <1>2, <1>x
  <1>h. out > 0 => (IF bytes < current.head THEN current.head - bytes ELSE 0) = 0
    BY <1>a, <1>2, <1>x
  <1>i. size - bytes = 0 => out = current.out \/ out = due
    BY <1>a, <1>2, <1>x
  <1> DEFINE unread == size - bytes
             head == IF bytes < current.head THEN current.head - bytes ELSE 0
             rest == [current EXCEPT !.head = head, !.body = unread - head,
                                   !.out = @ - out]
             whole == unread = 0 /\ out = current.out
  <1>u. /\ units' = IF whole THEN Tail(units) ELSE <<rest>> \o Tail(units)
        /\ inside' = ~whole
    BY <1>a, <1>2, <1>x
  <1>v. /\ staging_start' = staging_start + bytes
        /\ consumed' = consumed + bytes
        /\ produced' = produced + out
        /\ advanced' = TRUE /\ pc' = "decode"
        /\ UNCHANGED <<input, decoders, staging, staging_end, header_checked,
                       section>>
    <2>1. Moves(bytes, out)
      BY <1>a, <1>2, <1>x
    <2> QED
      BY <1>1, <2>1 DEF Moves
  <1>6. /\ bytes \in Nat /\ bytes <= staged /\ out \in Nat /\ out <= due
        /\ unread \in Nat /\ out <= current.out /\ head \in Nat /\ head <= unread
        /\ head <= current.head /\ due \in Nat
    <2> HIDE DEF due
    <2>1. bytes \in Nat /\ bytes <= staged /\ out \in Nat /\ out <= due /\ due \in Nat
      BY <1>3, <1>b
    <2>2. unread \in Nat
      BY <1>2, <1>c, <2>1
    <2>3. current.head \in Nat /\ current.body \in Nat /\ bytes \in Nat
      BY <1>2, <2>1
    <2>4. head \in Nat /\ head <= current.head /\ head <= unread
      BY <2>2, <2>3
    <2> HIDE DEF head, unread
    <2> QED
      BY <1>c, <2>1, <2>2, <2>4
  <1>7. /\ rest \in Unit /\ rest.kind = "sound" /\ rest.head = head
        /\ rest.head + rest.body = unread /\ rest.out = current.out - out
    <2> HIDE DEF head, unread, due, size
    <2>1. /\ unread - head \in Nat /\ current.out - out \in Nat
          /\ head + (unread - head) = unread
      BY <1>2, <1>6
    <2> QED
      BY <1>2, <1>6, <2>1 DEF Unit
  <1>8. inside \/ left # 0
    <2>1. CASE ~inside
      <3>1. current.head > 0
        BY <1>2, <2>1 DEF SoundInv, UnitsLeft, BeforeUnit
      <3>2. bytes # 0
        BY <1>c, <1>2, <3>1
      <3> HIDE DEF left
      <3> QED
        BY <1>3, <1>6, <3>2
    <2> QED
      BY <1>3, <2>1
  <1>9. SoundInv'
    <2> DEFINE left2 == left - bytes
               due2 == due - out
    <2>1. /\ units' = IF whole THEN Tail(units) ELSE <<rest>> \o Tail(units)
          /\ inside' = ~whole
          /\ staging_start' = staging_start + bytes
          /\ consumed' = consumed + bytes
          /\ produced' = produced + out
          /\ advanced' = TRUE /\ pc' = "decode"
          /\ UNCHANGED <<input, decoders, staging, staging_end,
                         header_checked, section>>
      BY <1>u, <1>v, Zenon
    <2>2. /\ written' = written /\ decoders' = decoders /\ sections' = sections
          /\ sound' = sound /\ bad_check' = bad_check /\ position' = position
          /\ decoded_size' = decoded_size /\ fragment_start' = fragment_start
          /\ section_end' = section_end /\ header_checked' = header_checked
          /\ kind' = kind /\ staging_end' = staging_end
          /\ fragment_len' = fragment_len
      BY <2>1 DEF section, input, kind, fragment_len
    <2>3. /\ fragment_len' - consumed' = left2 /\ decoded_size' - produced' = due2
          /\ staged' = staged - bytes
      BY <1>3, <1>4, <1>6, <2>1, <2>2 DEF staged
    <2>4. /\ Tail(units) \in Seq(Unit)
          /\ \A i \in 1..Len(Tail(units)) : Tail(units)[i] \in Chunks
      <3>1. \A i \in 2..Len(units) : units[i] \in Chunks
        BY DEF SoundInv, UnitsLeft
      <3> HIDE DEF Unit
      <3>2. /\ Tail(units) \in Seq(Unit) /\ Len(Tail(units)) = Len(units) - 1
            /\ \A i \in 1..Len(Tail(units)) : Tail(units)[i] = units[i + 1]
            /\ Len(units) \in Nat
        BY <1>2, HeadTailProperties
      <3> QED
        BY <3>1, <3>2
    <2>5. ChunkFields
      BY ChunksHaveFields
    <2> HIDE DEF left, due
    <2>6. left \in Int /\ due \in Int /\ (inside \/ left # 0)
      BY <1>3, <1>8
    <2>7. Rest(units, inside, left, due) <=> Rest(units', inside', left2, due2)
      <3>1. CASE whole
        <4>1. units' = Tail(units) /\ inside' = FALSE
          BY <2>1, <3>1
        <4>2. bytes = size /\ out = current.out
          BY <1>2, <1>6, <3>1
        <4>3. Rest(units, inside, left, due)
              <=> Rest(Tail(units), FALSE, left - (units[1].head + units[1].body),
                       due - units[1].out)
          BY <1>2, <1>3, <2>6, UnitRead
        <4> QED
          BY <1>2, <4>1, <4>2, <4>3
      <3>2. CASE ~whole
        <4>1. units' = <<rest>> \o Tail(units) /\ inside' = TRUE
          BY <2>1, <3>2
        <4> HIDE DEF rest, unread
        <4>2. rest.head + rest.body = (units[1].head + units[1].body) - bytes
              /\ rest.out = units[1].out - out /\ rest.kind = units[1].kind
          BY <1>2, <1>7 DEF unread
        <4>3. units \in Seq(Unit) /\ units # << >> /\ inside \in BOOLEAN
          BY <1>2, <1>3
        <4>4. bytes \in Nat /\ out \in Nat /\ rest \in Unit
          BY <1>6, <1>7
        <4>5. Leaves(units, inside, left, due, rest, bytes, out)
          BY <2>6, <4>2, <4>3, <4>4, PartRead
        <4> QED
          BY <4>1, <4>5 DEF Leaves
      <3> QED
        BY <3>1, <3>2
    <2>8. UnitsLeft'
      <3>1. CASE whole
        <4>1. units' = Tail(units) /\ inside' = FALSE
          BY <2>1, <3>1
        <4>2. units' \in Seq(Unit) /\ \A i \in 1..Len(units') : units'[i] \in Chunks
          BY <2>4, <4>1
        <4>3. units' # << >> => units'[1].head \in 1..STAGING_SIZE
          BY <2>5, <4>2 DEF ChunkFields
        <4>4. units' # << >> => units'[1] \in Chunks
          BY <4>2
        <4> QED
          BY <4>1, <4>2, <4>3, <4>4 DEF UnitsLeft, BeforeUnit
      <3>2. CASE ~whole
        <4>1. units' = <<rest>> \o Tail(units) /\ inside' = TRUE
          BY <2>1, <3>2
        <4> HIDE DEF rest
        <4>2. /\ units' \in Seq(Unit) /\ units' # << >> /\ units'[1] = rest
              /\ \A i \in 2..Len(units') : units'[i] \in Chunks
          <5>1. <<rest>> \in Seq(Unit) /\ Len(<<rest>>) = 1 /\ <<rest>>[1] = rest
            BY <1>7
          <5> HIDE DEF Unit
          <5>2. /\ units' \in Seq(Unit) /\ Len(units') = 1 + Len(Tail(units))
                /\ \A i \in 1..(1 + Len(Tail(units))) :
                     units'[i] = IF i <= 1 THEN <<rest>>[i] ELSE Tail(units)[i - 1]
            BY <2>4, <4>1, <5>1, ConcatProperties
          <5>3. Len(Tail(units)) \in Nat
            BY <2>4
          <5> HIDE DEF rest
          <5>4. units'[1] = rest /\ units' # << >>
            BY <5>1, <5>2, <5>3
          <5>5. ASSUME NEW i \in 2..Len(units')
                PROVE  units'[i] \in Chunks
            <6>1. i - 1 \in 1..Len(Tail(units)) /\ i \in 1..(1 + Len(Tail(units)))
                  /\ ~(i <= 1)
              BY <5>2, <5>3
            <6> QED
              BY <2>4, <5>2, <6>1
          <5> QED
            BY <5>2, <5>4, <5>5
        <4>3. InUnit'
          <5>1. ASSUME rest.head + rest.body = 0
                PROVE  rest.out > 0 /\ produced' = decoded_size'
            <6>1. unread = 0 /\ out # current.out
              BY <1>7, <3>2, <5>1
            <6>2. out = due
              BY <1>i, <6>1
            <6>3. current.out \in Nat /\ out \in Nat /\ out <= current.out
                  /\ rest.out = current.out - out
              BY <1>2, <1>6, <1>7
            <6>4. rest.out > 0
              <7> HIDE DEF rest
              <7> QED
                BY <6>1, <6>3
            <6>5. produced + due = decoded_size
              BY <1>4 DEF due
            <6> QED
              BY <2>1, <2>2, <6>2, <6>4, <6>5
          <5> QED
            BY <4>2, <5>1 DEF InUnit
        <4>4. units'[1].head <= STAGING_SIZE
          BY <1>2, <1>6, <1>7, <4>2
        <4> QED
          BY <4>1, <4>2, <4>3, <4>4 DEF UnitsLeft
      <3> QED
        BY <3>1, <3>2
    <2>10. SoundInv'
      <3>1. InSection'
        BY <2>1 DEF InSection
      <3>2. StreamsInStep'
        BY <1>1, <2>1, <2>2, <3>1 DEF SoundInv, StreamsInStep, Seen
      <3>3. HeaderInv'
        <4>1. ASSUME ~header_checked
              PROVE  HeaderUnread'
          <5>1. HeaderUnread
            BY <1>1, <4>1 DEF SoundInv, HeaderInv
          <5>2. /\ position = section_end /\ consumed + staged <= CHECK_BYTE
                /\ written[kind] = 1 /\ produced = 0 /\ current.body = 0
                /\ current.out = 0 /\ current.head + consumed = HEADER_SIZE
            BY <1>1, <1>2, <5>1 DEF HeaderUnread
          <5>3. size = current.head /\ bytes < current.head /\ out = 0
            BY <1>2, <1>3, <1>6, <5>2
          <5>4. head = current.head - bytes /\ unread = head /\ unread # 0
            BY <1>2, <1>6, <5>3
          <5>5. units' = <<rest>> \o Tail(units)
            BY <2>1, <5>4
          <5>6. units' # << >> /\ units'[1] = rest
            <6> HIDE DEF rest
            <6> QED
              BY <1>7, <2>4, <5>5
          <5>7. rest.body = 0 /\ rest.out = 0 /\ rest.head + consumed' = HEADER_SIZE
            <6>1. rest.body = unread - head /\ rest.out = current.out - out
              BY <1>2 DEF Unit
            <6>2. rest.body = 0
              BY <1>6, <5>4, <6>1
            <6>3. rest.out = 0
              BY <5>2, <5>3, <6>1
            <6>4. rest.head = current.head - bytes /\ consumed' = consumed + bytes
              BY <1>7, <2>1, <5>4
            <6>5. current.head \in Nat /\ bytes \in Nat /\ consumed \in Nat
              BY <1>2, <1>3, <1>6
            <6> HIDE DEF rest
            <6>6. rest.head + consumed' = HEADER_SIZE
              BY <5>2, <6>4, <6>5
            <6> QED
              BY <6>2, <6>3, <6>6
          <5>8. consumed' + staged' <= CHECK_BYTE
            BY <1>3, <1>6, <2>1, <2>3, <5>2
          <5>9. produced' = 0
            BY <2>1, <5>2, <5>3
          <5> QED
            BY <1>7, <2>2, <5>2, <5>6, <5>7, <5>8, <5>9 DEF HeaderUnread
        <4> QED
          BY <1>1, <2>2, <4>1 DEF SoundInv, HeaderInv
      <3>4. SoundSoFar'
        <4>1. RestSound' <=> RestSound
          BY <2>2, <2>3, <2>7 DEF RestSound, left, due
        <4> QED
          BY <1>1, <2>1, <2>2, <4>1 DEF SoundInv, SoundSoFar
      <3> QED
        BY <2>1, <2>8, <3>2, <3>3, <3>4
        DEF SoundInv, NoSoundSectionRefused, OnlySoundAccepted
    <2> QED
      BY <2>10
  <1> QED
    BY <1>9

(* A call that returns has moved on, or was stuck with output due.         *)
LEMMA CodecReturnsSound ==
  ASSUME IInv, SoundInv, CodecReturns
  PROVE  SoundInv'
  <1>1. InSection /\ pc = "decode"
    BY DEF CodecReturns, InSection
  <1> DEFINE left == fragment_len - consumed
             due == decoded_size - produced
  <1>2. /\ left \in Int /\ due \in Int /\ inside \in BOOLEAN /\ staged \in Nat
        /\ left = (section_end - position) + staged
        /\ position \in Nat /\ section_end \in Nat /\ position <= section_end
    BY <1>1, Remaining
  <1>3. /\ decoded_size \in Nat /\ produced \in Nat
        /\ staging_start \in Nat /\ staging_end \in Nat
    BY DEF IInv, TypeOK
  <1>4. produced = decoded_size => due = 0
    BY <1>3
  <1>5. units \in Seq(Unit)
    BY DEF SoundInv, UnitsLeft
  <1>6. CASE Stalled \/ InputMismatch
    <2>1. Refused
      BY <1>6 DEF CodecReturns
    <2>2. produced = decoded_size /\ (inside \/ left # 0)
      <3>1. CASE Stalled
        <4>1. Follows /\ current.head + current.body = 0 /\ produced = decoded_size
          BY <3>1 DEF CodecReturns, Stalled
        <4>2. units # << >> /\ current = units[1]
          BY <4>1 DEF Follows, current
        <4>3. units[1].head \in Nat /\ units[1].body \in Nat
          BY <1>5, <4>2, UnitFields, 1 \in 1..Len(units)
        <4>4. units[1].head = 0
          BY <4>1, <4>2, <4>3
        <4>5. inside
          BY <1>2, <4>2, <4>4 DEF SoundInv, UnitsLeft, BeforeUnit
        <4> QED
          BY <4>1, <4>5
      <3>2. CASE InputMismatch
        <4>1. produced = decoded_size
              /\ (staging_start # staging_end \/ position # section_end)
          BY <3>2 DEF InputMismatch
        <4>2. staged # 0 \/ section_end - position # 0
          BY <1>2, <1>3, <4>1 DEF staged
        <4> HIDE DEF left
        <4> QED
          BY <1>2, <4>1, <4>2
      <3> QED
        BY <1>6, <3>1, <3>2
    <2> HIDE DEF left, due
    <2>3. ~Rest(units, inside, left, due)
      <3> SUFFICES ASSUME Rest(units, inside, left, due)
                   PROVE  FALSE
        OBVIOUS
      <3>1. units # << >> /\ units[1].kind = "sound" /\ due >= units[1].out
        BY <1>2, <1>5, <2>2, RestBegins
      <3>2. /\ units[1].out \in Nat /\ units[1].head \in Nat
            /\ units[1].body \in Nat
        BY <1>5, <3>1, UnitFields, 1 \in 1..Len(units)
      <3>3. units[1].out > 0
        <4>1. CASE ~inside
          <5>1. decoded_size > 0
            BY <1>1 DEF SoundInv, HeaderInv
          <5>2. units[1] \in Chunks
            BY <1>1, <1>3, <2>2, <3>1, <4>1, <5>1 DEF SoundInv, UnitsLeft, BeforeUnit
          <5> QED
            BY <3>1, <5>2, ChunksHaveFields DEF ChunkFields
        <4>2. CASE inside
          <5>1. Stalled
            BY <1>6, <4>2 DEF InputMismatch
          <5>2. current.head + current.body = 0 /\ current = units[1]
            BY <3>1, <5>1 DEF CodecReturns, Stalled, current
          <5> QED
            BY <3>1, <4>2, <5>2 DEF SoundInv, UnitsLeft, InUnit
        <4> QED
          BY <1>2, <4>1, <4>2
      <3> QED
        BY <1>4, <2>2, <3>1, <3>2, <3>3
    <2> QED
      BY <1>1, <2>1, <2>3, RefusedIsSound
      DEF SoundInv, SoundSoFar, RestSound, left, due
  <1>7. CASE ~(Stalled \/ InputMismatch)
    <2>1. /\ pc' = "loop" /\ advanced' = FALSE
          /\ UNCHANGED <<input, decoders, buffer, progress, header_checked,
                         section, units, inside>>
      BY <1>7 DEF CodecReturns
    <2>2. InSection' /\ kind' = kind
      BY <2>1 DEF InSection, kind, input
    <2>3. StreamsInStep'
      BY <1>1, <2>1, <2>2 DEF SoundInv, StreamsInStep, Seen, section
    <2>4. UnitsLeft'
      BY <1>1, <2>1 DEF SoundInv, UnitsLeft, InUnit, BeforeUnit, InSection, progress,
                        section
    <2>5. HeaderInv'
      BY <1>1, <2>1, <2>2 DEF SoundInv, HeaderInv, HeaderUnread, section, progress,
                              input, buffer, staged
    <2>6. SoundSoFar'
      <3>1. RestSound' = RestSound
        BY <2>1, <2>2 DEF RestSound, fragment_len, section, progress, input
      <3> QED
        BY <1>1, <2>1, <2>2, <3>1 DEF SoundInv, SoundSoFar, section
    <2> QED
      BY <2>1, <2>3, <2>4, <2>5, <2>6
      DEF SoundInv, NoSoundSectionRefused, OnlySoundAccepted
  <1> QED
    BY <1>6, <1>7

Fragment(script) == IF written[kind] = 0 THEN <<Header>> \o script ELSE script

(* A fragment is made of chunks, but for the header a stream begins with.  *)
LEMMA FragmentUnits ==
  ASSUME NEW script \in Scripts
  PROVE  /\ Fragment(script) \in Seq(Unit) /\ Fragment(script) # << >>
         /\ \A i \in 2..Len(Fragment(script)) : Fragment(script)[i] \in Chunks
         /\ Fragment(script)[1].head \in 1..STAGING_SIZE
         /\ written[kind] = 0 => Fragment(script)[1] = Header
  <1>1. PICK n \in 1..MaxChunks : script \in [1..n -> Chunks]
    BY DEF Scripts
  <1>2. n \in Nat /\ script \in Seq(Chunks) /\ Len(script) = n /\ n > 0
    BY <1>1
  <1>3. ChunkFields
    BY ChunksHaveFields
  <1>4. script \in Seq(Unit)
    BY <1>1, <1>2, <1>3 DEF ChunkFields
  <1>5. Header \in Unit /\ Header.head \in 1..STAGING_SIZE
    BY DEF Header, Unit
  <1> HIDE DEF Unit
  <1>6. CASE written[kind] = 0
    <2> DEFINE f == <<Header>> \o script
    <2>1. f = Fragment(script)
      BY <1>6 DEF Fragment
    <2>2. <<Header>> \in Seq(Unit) /\ Len(<<Header>>) = 1 /\ <<Header>>[1] = Header
      BY <1>5
    <2>3. /\ f \in Seq(Unit) /\ Len(f) = 1 + n
          /\ \A i \in 1..(1 + n) : f[i] = IF i <= 1 THEN <<Header>>[i] ELSE script[i - 1]
      BY <1>2, <1>4, <2>2, ConcatProperties
    <2> HIDE DEF f
    <2>4. f # << >> /\ f[1] = Header
      BY <1>2, <2>2, <2>3
    <2>5. ASSUME NEW i \in 2..Len(f)
          PROVE  f[i] \in Chunks
      <3>1. i \in 1..(1 + n) /\ ~(i <= 1) /\ i - 1 \in 1..n
        BY <1>2, <2>3
      <3> QED
        BY <1>1, <2>3, <3>1
    <2> QED
      BY <1>5, <2>1, <2>3, <2>4, <2>5
  <1>7. CASE written[kind] # 0
    <2>1. Fragment(script) = script
      BY <1>7 DEF Fragment
    <2>2. \A i \in 1..Len(script) : script[i] \in Chunks
      BY <1>1, <1>2
    <2>3. script # << >> /\ 1 \in 1..Len(script)
      BY <1>2
    <2>4. \A i \in 2..Len(script) : script[i] \in Chunks
      BY <1>2, <2>2
    <2>5. script[1].head \in 1..STAGING_SIZE
      BY <1>3, <2>2, <2>3 DEF ChunkFields
    <2> QED
      BY <1>4, <1>7, <2>1, <2>3, <2>4, <2>5
  <1> QED
    BY <1>6, <1>7

(* Before anything is read, the rest is the whole.                         *)
LEMMA WholeIsRest ==
  ASSUME NEW u \in Seq(Unit), NEW bytes \in Int, NEW size \in Nat, size > 0
  PROVE  WholeUnits(u, bytes, size) <=> Rest(u, FALSE, bytes, size)
  <1>1. DOMAIN u = 1..Len(u) /\ Len(u) \in Nat
    OBVIOUS
  <1>2. \A n \in DOMAIN u : n \in 0..Len(u)
    BY <1>1
  <1>3. ASSUME WholeUnits(u, bytes, size)
        PROVE  Rest(u, FALSE, bytes, size)
    <2>1. PICK n \in DOMAIN u : Consists(u, n, bytes, size)
      BY <1>3, Zenon DEF WholeUnits, Consists
    <2> QED
      BY <1>2, <2>1 DEF Rest
  <1>4. ASSUME Rest(u, FALSE, bytes, size)
        PROVE  WholeUnits(u, bytes, size)
    <2>1. PICK n \in 0..Len(u) : Consists(u, n, bytes, size)
      BY <1>4 DEF Rest
    <2>2. n # 0
      BY <2>1, ReadsNothing
    <2>3. n \in DOMAIN u
      BY <1>1, <2>2
    <2> QED
      BY <2>1, <2>3, Zenon DEF WholeUnits, Consists
  <1> QED
    BY <1>3, <1>4

LEMMA RestNatural ==
  ASSUME NEW u \in Seq(Unit), NEW within, NEW bytes, NEW size,
         Rest(u, within, bytes, size)
  PROVE  bytes \in Nat /\ size \in Nat
  BY ReadsNumbers DEF Rest

LEMMA CompressedSectionSound ==
  ASSUME IInv, SoundInv, CompressedSection
  PROVE  SoundInv'
  <1>1. pc = "idle" /\ ~InSection
    BY DEF CompressedSection, InSection
  <1>2. PICK script \in Scripts, encoded_len \in 0..MaxEncoded,
             size_bytes \in 1..(VARINT_BYTES + 1), size \in 0..MaxDecoded,
             bad \in BOOLEAN :
          /\ sound' = (/\ size_bytes <= VARINT_BYTES
                       /\ WholeUnits(Fragment(script), encoded_len - size_bytes, size)
                       /\ size > 0
                       /\ ~(bad /\ written[kind] = 0))
          /\ written' = [written EXCEPT ![kind] = @ + 1]
          /\ bad_check' = bad
          /\ section_end' = position + encoded_len
          /\ UNCHANGED <<sections, staging>>
          /\ \/ /\ \/ size_bytes > VARINT_BYTES \/ size_bytes > encoded_len
                   \/ size = 0
                /\ pc' = "refused"
                /\ UNCHANGED <<position, decoders, staging_start, staging_end,
                               fragment_start, decoded_size, progress,
                               header_checked, codec>>
             \/ /\ size_bytes <= VARINT_BYTES /\ size_bytes <= encoded_len
                /\ size > 0
                /\ position' = position + size_bytes
                /\ fragment_start' = position'
                /\ decoded_size' = size
                /\ header_checked' = ~FirstFragment
                /\ decoders' = IF FirstFragment THEN [decoders EXCEPT ![kind] = 0]
                                                ELSE decoders
                /\ staging_start' = 0 /\ staging_end' = 0
                /\ consumed' = 0 /\ produced' = 0
                /\ units' = Fragment(script) /\ inside' = FALSE /\ advanced' = FALSE
                /\ pc' = "loop"
    BY DEF CompressedSection, Fragment
  <1> DEFINE fragment == Fragment(script)
  <1>3. /\ fragment \in Seq(Unit) /\ fragment # << >>
        /\ \A i \in 2..Len(fragment) : fragment[i] \in Chunks
        /\ fragment[1].head \in 1..STAGING_SIZE
        /\ written[kind] = 0 => fragment[1] = Header
    BY FragmentUnits
  <1> HIDE DEF fragment
  <1>4. /\ encoded_len \in Nat /\ size_bytes \in Nat /\ size \in Nat
        /\ position \in Nat
        /\ encoded_len - size_bytes \in Int
    BY <1>2 DEF IInv, TypeOK
  <1>5. /\ sound' <=> /\ size_bytes <= VARINT_BYTES
                      /\ WholeUnits(fragment, encoded_len - size_bytes, size)
                      /\ size > 0
                      /\ ~(bad /\ written[kind] = 0)
        /\ written' = [written EXCEPT ![kind] = written[kind] + 1]
        /\ bad_check' = bad
        /\ section_end' = position + encoded_len
        /\ sections' = sections
    BY <1>2 DEF fragment
  <1>6. CASE /\ \/ size_bytes > VARINT_BYTES \/ size_bytes > encoded_len
                \/ size = 0
             /\ pc' = "refused"
             /\ UNCHANGED codec
    <2>1. ~sound'
      <3>1. CASE size_bytes > encoded_len /\ size > 0
        <4>1. encoded_len - size_bytes \notin Nat
          BY <1>4, <3>1
        <4>2. ~Rest(fragment, FALSE, encoded_len - size_bytes, size)
          BY <1>3, <4>1, RestNatural
        <4> QED
          BY <1>3, <1>4, <1>5, <3>1, <4>2, WholeIsRest
      <3> QED
        BY <1>4, <1>5, <1>6, <3>1
    <2>2. UnitsLeft'
      BY <1>6, UnitsKept DEF SoundInv, InSection
    <2> QED
      BY <1>6, <2>1, <2>2, EndIsSound
  <1>7. CASE /\ size_bytes <= VARINT_BYTES /\ size > 0
             /\ position' = position + size_bytes
             /\ fragment_start' = position'
             /\ decoded_size' = size
             /\ header_checked' = ~FirstFragment
             /\ decoders' = IF FirstFragment THEN [decoders EXCEPT ![kind] = 0]
                                             ELSE decoders
             /\ staging_start' = 0 /\ staging_end' = 0
             /\ consumed' = 0 /\ produced' = 0
             /\ units' = fragment /\ inside' = FALSE
             /\ pc' = "loop"
    <2>1. InSection' /\ kind' = kind
      BY <1>5, <1>7 DEF InSection, kind
    <2>2. /\ decoders \in [KindSet -> Int] /\ written \in [KindSet -> Nat]
          /\ kind \in KindSet
      BY KindOfSection DEF IInv, TypeOK
    <2>3. \A k \in KindSet : decoders[k] = Seen(k)
      BY <1>1 DEF SoundInv, StreamsInStep
    <2>4. FirstFragment <=> written[kind] = 0
      <3>1. written[kind] \in Nat /\ decoders[kind] = Seen(kind)
        BY <2>2, <2>3
      <3> QED
        BY <3>1 DEF FirstFragment, Seen
    <2>5. written'[kind] = written[kind] + 1 /\ written[kind] \in Nat
      BY <1>5, <2>2
    <2>6. StreamsInStep'
      <3>1. decoders'[kind] = written'[kind] - 1
        <4>1. CASE FirstFragment
          <5>1. decoders'[kind] = 0
            BY <1>7, <2>2, <4>1
          <5> QED
            BY <2>4, <2>5, <4>1, <5>1
        <4>2. CASE ~FirstFragment
          <5>1. decoders'[kind] = Seen(kind)
            BY <1>7, <2>2, <2>3, <4>2
          <5> QED
            BY <2>4, <2>5, <4>2, <5>1 DEF Seen
        <4> QED
          BY <4>1, <4>2
      <3>2. ASSUME NEW k \in KindSet, k # kind
            PROVE  decoders'[k] = Seen(k)'
        <4>1. decoders'[k] = decoders[k] /\ written'[k] = written[k]
          BY <1>5, <1>7, <2>2, <3>2
        <4> QED
          BY <2>3, <4>1 DEF Seen
      <3>3. written'[kind] > 0
        BY <2>5
      <3> QED
        BY <1>7, <2>1, <3>1, <3>2, <3>3 DEF StreamsInStep
    <2>7. UnitsLeft'
      <3>1. fragment[1].head <= STAGING_SIZE /\ fragment[1].head > 0
        BY <1>3
      <3> QED
        BY <1>3, <1>7, <3>1 DEF UnitsLeft, BeforeUnit
    <2>8. HeaderInv'
      <3>1. header_checked' /\ written'[kind] = 1 => ~bad_check'
        <4>1. written'[kind] = 1 => written[kind] = 0
          BY <2>5
        <4>2. header_checked' <=> ~FirstFragment
          BY <1>7
        <4> QED
          BY <2>4, <4>1, <4>2
      <3>2. ASSUME ~header_checked'
            PROVE  HeaderUnread'
        <4>1. written[kind] = 0
          BY <1>7, <2>4, <3>2
        <4>2. /\ fragment[1].head = HEADER_SIZE /\ fragment[1].body = 0
              /\ fragment[1].out = 0 /\ fragment[1].kind = "sound"
          BY <1>3, <4>1 DEF Header
        <4>3. staged' = 0
          BY <1>7 DEF staged
        <4>4. written'[kind'] = 1
          BY <2>1, <2>5, <4>1
        <4>5. units'[1].head + consumed' = HEADER_SIZE
          BY <1>7, <4>2
        <4> QED
          BY <1>3, <1>7, <4>2, <4>3, <4>4, <4>5 DEF HeaderUnread
      <3>3. decoded_size' > 0
        BY <1>7
      <3> QED
        BY <2>1, <3>1, <3>2, <3>3 DEF HeaderInv
    <2>9. SoundSoFar'
      <3>1. /\ fragment_len' - consumed' = encoded_len - size_bytes
            /\ decoded_size' - produced' = size
        BY <1>4, <1>5, <1>7 DEF fragment_len
      <3>2. Rest(units', inside', fragment_len' - consumed', decoded_size' - produced')
            <=> WholeUnits(fragment, encoded_len - size_bytes, size)
        BY <1>3, <1>4, <1>7, <3>1, WholeIsRest
      <3>3. written'[kind'] = 1 <=> written[kind] = 0
        BY <2>1, <2>5
      <3>4. sound' <=> RestSound'
        BY <1>5, <1>7, <3>2, <3>3 DEF RestSound
      <3> QED
        BY <1>7, <3>4 DEF SoundSoFar
    <2> QED
      BY <1>7, <2>6, <2>7, <2>8, <2>9
      DEF SoundInv, NoSoundSectionRefused, OnlySoundAccepted
  <1> QED
    <2>1. \/ /\ \/ size_bytes > VARINT_BYTES \/ size_bytes > encoded_len
                \/ size = 0
             /\ pc' = "refused"
             /\ UNCHANGED codec
          \/ /\ size_bytes <= VARINT_BYTES /\ size > 0
             /\ position' = position + size_bytes
             /\ fragment_start' = position'
             /\ decoded_size' = size
             /\ header_checked' = ~FirstFragment
             /\ decoders' = IF FirstFragment THEN [decoders EXCEPT ![kind] = 0]
                                             ELSE decoders
             /\ staging_start' = 0 /\ staging_end' = 0
             /\ consumed' = 0 /\ produced' = 0
             /\ units' = fragment /\ inside' = FALSE
             /\ pc' = "loop"
      BY <1>2 DEF fragment
    <2> QED
      BY <1>6, <1>7, <2>1

LEMMA NextKeepsSound == IInv /\ SoundInv /\ [Next]_vars => SoundInv'
  <1> SUFFICES ASSUME IInv, SoundInv, [Next]_vars
               PROVE  SoundInv'
    OBVIOUS
  <1>1. CASE UNCHANGED vars
    <2>1. UnitsLeft'
      BY <1>1, UnitsKept DEF SoundInv, vars, InSection, progress, section, codec
    <2>2. StreamsInStep' /\ NoSoundSectionRefused' /\ OnlySoundAccepted'
      BY <1>1 DEF SoundInv, StreamsInStep, Seen, InSection, vars, section, input, kind,
                  NoSoundSectionRefused, OnlySoundAccepted
    <2>3. HeaderInv'
      BY <1>1 DEF SoundInv, HeaderInv, HeaderUnread, InSection, vars, section, input,
                  kind, buffer, staged, progress, codec
    <2>4. SoundSoFar'
      BY <1>1 DEF SoundInv, SoundSoFar, RestSound, InSection, vars, section, input,
                  kind, buffer, staged, progress, codec, fragment_len
    <2> QED
      BY <2>1, <2>2, <2>3, <2>4 DEF SoundInv
  <1> QED
    BY <1>1, RawSectionSound, CompressedSectionSound, RefillIsSound, CheckHeaderSound,
       NeedsLargerSound, CodecRefusesSound, CodecAdvancesSound, CodecSwallowsSound,
       CodecReturnsSound, FinishSound, DeltaFailsSound DEF Next, Step

LEMMA SoundInvariance == Spec => [](IInv /\ SoundInv)
  BY Invariance, InitSound, NextKeepsSound, PTL DEF Spec

(* A section that is whole units of its stream, and yields what its prefix *)
(* says, is never refused: however the codec takes the bytes, and wherever *)
(* a chunk meets the end of the staging buffer.                            *)
THEOREM SoundSectionsPass == Spec => []NoSoundSectionRefused
  <1>1. SoundInv => NoSoundSectionRefused
    BY DEF SoundInv
  <1> QED
    BY <1>1, SoundInvariance, PTL

(* Only such a section ends without an error: decode_fragment takes none   *)
(* whose bytes or whose output do not end where its units do.              *)
THEOREM OnlySoundPass == Spec => []OnlySoundAccepted
  <1>1. SoundInv => OnlySoundAccepted
    BY DEF SoundInv
  <1> QED
    BY <1>1, SoundInvariance, PTL
=============================================================================
