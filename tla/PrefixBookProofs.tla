-------------------------- MODULE PrefixBookProofs --------------------------
(***************************************************************************)
(* Theorems about PrefixBook: the codes that build hands out fit their     *)
(* widths, read_symbol fails only on a table that leaves codes unused, and *)
(* what it returns is the symbol of the canonical code that was read.      *)
(***************************************************************************)
EXTENDS CanonicalCode, DataLemmas

USE SymbolsAssumption, WidthsAssumption

(* How far each loop of build has come; afterwards, its whole range.       *)
counted == IF pc = "count" THEN i ELSE Symbols
checked == IF pc = "count" THEN 0 ELSE IF pc = "slots" THEN i - 1 ELSE WidthLimit
assigned == IF pc \in {"count", "slots"} THEN 0
            ELSE IF pc = "assign" THEN i - 1 ELSE WidthLimit
placed == IF pc = "order" THEN i ELSE Symbols

Of(w, n) == {s \in SymbolSet : s < n /\ lengths[s] = w}
Narrow(n) == {s \in SymbolSet : lengths[s] \in 1..n}

Counted ==
  /\ counts[0] = 0
  /\ \A w \in 1..WidthLimit : counts[w] = Cardinality(Of(w, counted))
  /\ \A s \in SymbolSet : s < counted => lengths[s] <= WidthLimit

Spared ==
  /\ open_slots = spare[checked] /\ spare[0] = 1
  /\ \A w \in 1..checked : spare[w] = 2 * spare[w - 1] - counts[w]

Laddered ==
  /\ next_code = first_codes[assigned]
  /\ \A w \in 0..assigned : first_codes[w] + counts[w] + spare[w] = Codes[w]
  /\ \A w \in 1..assigned :
       first_codes[w] = 2 * (first_codes[w - 1] + counts[w - 1])

(* The parts of the table follow one another.                              *)
Parted ==
  /\ next_symbol = Cardinality(Narrow(assigned))
  /\ \A w \in 1..assigned : starts[w] + counts[w] <= next_symbol
  /\ \A v, w \in 1..assigned : v < w => starts[v] + counts[v] <= starts[w]
  /\ assigned = WidthLimit /\ pc # "assign" => symbol_count = next_symbol

Bounded ==
  /\ min_width <= assigned
  /\ \A w \in 1..assigned : w < min_width \/ min_width = 0 => counts[w] = 0

Ordered ==
  pc \notin {"count", "slots", "assign"} =>
    \A w \in 1..WidthLimit :
      /\ slots[w] = starts[w] + Cardinality(Of(w, placed))
      /\ \A k \in 0..(Cardinality(Of(w, placed)) - 1) :
           lengths[ordered[starts[w] + k]] = w

(* Short of a symbol, the bits read are beyond every code of their width.  *)
Reading ==
  /\ pc \in {"read", "invalid_code"} =>
       first_codes[width] + counts[width] <= code /\ code < Codes[width]
  /\ pc = "invalid_code" => width = max_width
  /\ pc = "decoded" => lengths[symbol] = width

BookInv == Counted /\ Spared /\ Laddered /\ Parted /\ Bounded /\ Ordered /\ Reading
IInv == TypeOK /\ (pc # "refused" => BookInv)
-----------------------------------------------------------------------------
(* Counting symbols.                                                       *)
LEMMA SymbolsFinite ==
  /\ IsFiniteSet(SymbolSet) /\ Cardinality(SymbolSet) = Symbols
  /\ \A S \in SUBSET SymbolSet : IsFiniteSet(S) /\ Cardinality(S) \in 0..Symbols
  <1>1. IsFiniteSet(SymbolSet) /\ Cardinality(SymbolSet) = Symbols
    BY FS_Interval, SMT DEF SymbolSet
  <1>2. ASSUME NEW S \in SUBSET SymbolSet
        PROVE  IsFiniteSet(S) /\ Cardinality(S) \in 0..Symbols
    <2>1. IsFiniteSet(S) /\ Cardinality(S) <= Symbols
      BY <1>1, FS_Subset
    <2>2. Cardinality(S) \in Nat
      BY <2>1, FS_CardinalityType
    <2> QED
      BY <2>1, <2>2
  <1> QED
    BY <1>1, <1>2

LEMMA OfNone == ASSUME NEW w PROVE Of(w, 0) = {} /\ Cardinality(Of(w, 0)) = 0
  <1>1. Of(w, 0) = {}
    BY DEF Of, SymbolSet
  <1> QED
    BY <1>1, FS_EmptySet

LEMMA OfNat == ASSUME NEW w, NEW n PROVE Cardinality(Of(w, n)) \in Nat
  <1>1. Of(w, n) \in SUBSET SymbolSet
    BY DEF Of
  <1> QED
    BY <1>1, SymbolsFinite

LEMMA OfOther ==
  ASSUME NEW s \in SymbolSet, NEW w, lengths[s] # w
  PROVE  Of(w, s + 1) = Of(w, s)
  BY DEF Of, SymbolSet

LEMMA OfNext ==
  ASSUME NEW s \in SymbolSet
  PROVE  Cardinality(Of(lengths[s], s + 1)) = Cardinality(Of(lengths[s], s)) + 1
  <1>1. Of(lengths[s], s + 1) = Of(lengths[s], s) \cup {s}
    BY DEF Of, SymbolSet
  <1>2. s \notin Of(lengths[s], s) /\ Of(lengths[s], s) \in SUBSET SymbolSet
    BY DEF Of, SymbolSet
  <1>3. IsFiniteSet(Of(lengths[s], s))
    BY <1>2, SymbolsFinite
  <1> QED
    BY <1>1, <1>2, <1>3, FS_AddElement

LEMMA OfRoom ==
  ASSUME NEW s \in SymbolSet
  PROVE  Cardinality(Of(lengths[s], s)) < Cardinality(Of(lengths[s], Symbols))
  <1>1. Of(lengths[s], s + 1) \in SUBSET Of(lengths[s], Symbols)
    BY DEF Of, SymbolSet
  <1>2. Of(lengths[s], Symbols) \in SUBSET SymbolSet
    BY DEF Of
  <1>3. IsFiniteSet(Of(lengths[s], Symbols))
    BY <1>2, SymbolsFinite
  <1>4. Cardinality(Of(lengths[s], s + 1)) <= Cardinality(Of(lengths[s], Symbols))
    BY <1>1, <1>3, FS_Subset
  <1> QED
    BY <1>4, OfNext, OfNat

LEMMA NarrowNat == ASSUME NEW n PROVE Cardinality(Narrow(n)) \in 0..Symbols
  <1>1. Narrow(n) \in SUBSET SymbolSet
    BY DEF Narrow
  <1> QED
    BY <1>1, SymbolsFinite

LEMMA NarrowNone == Cardinality(Narrow(0)) = 0
  <1>1. Narrow(0) = {}
    BY DEF Narrow
  <1> QED
    BY <1>1, FS_EmptySet

LEMMA NarrowNext ==
  ASSUME NEW w \in Nat \ {0}
  PROVE  Cardinality(Narrow(w)) =
           Cardinality(Narrow(w - 1)) + Cardinality(Of(w, Symbols))
  <1> DEFINE N == Narrow(w - 1)
             O == Of(w, Symbols)
  <1>1. Narrow(w) = N \cup O /\ N \cap O = {}
    BY DEF Narrow, Of, SymbolSet
  <1>2. N \in SUBSET SymbolSet /\ O \in SUBSET SymbolSet
    BY DEF Narrow, Of
  <1> HIDE DEF N, O
  <1>3. IsFiniteSet(N) /\ IsFiniteSet(O)
    BY <1>2, SymbolsFinite
  <1>4. Cardinality(N \cup O) = Cardinality(N) + Cardinality(O) - Cardinality(N \cap O)
    BY <1>3, FS_Union
  <1>5. Cardinality(N) \in Nat /\ Cardinality(O) \in Nat /\ Cardinality(N \cap O) = 0
    BY <1>1, <1>2, SymbolsFinite, FS_EmptySet
  <1>6. Cardinality(N \cup O) = Cardinality(N) + Cardinality(O)
    BY <1>4, <1>5
  <1> QED
    BY <1>1, <1>6 DEF N, O
-----------------------------------------------------------------------------
LEMMA InitInv == Init => IInv
  <1> SUFFICES ASSUME Init PROVE IInv
    OBVIOUS
  <1>1. Zero \in [0..WidthLimit -> Nat] /\ \A w \in 0..WidthLimit : Zero[w] = 0
    BY DEF Zero
  <1>2. /\ spare \in [0..WidthLimit -> Nat] /\ spare[0] = 1
        /\ ordered \in [SymbolSet -> SymbolSet]
    BY DEF Init, SymbolSet
  <1>3. TypeOK
    BY <1>1, <1>2 DEF Init, TypeOK, SymbolSet
  <1>4. Counted
    BY <1>1, OfNone DEF Init, Counted, counted, SymbolSet
  <1>5. Spared /\ Ordered /\ Reading
    BY <1>2 DEF Init, Spared, checked, Ordered, Reading
  <1>6. Laddered
    BY <1>1, <1>2, CodesAssumption DEF Init, Laddered, assigned
  <1>7. Parted /\ Bounded
    BY NarrowNone DEF Init, Parted, Bounded, assigned
  <1> QED
    BY <1>3, <1>4, <1>5, <1>6, <1>7 DEF IInv, BookInv

LEMMA RefusedKeepsInv == TypeOK /\ Refused => IInv'
  <1> SUFFICES ASSUME TypeOK, Refused PROVE IInv'
    OBVIOUS
  <1>1. TypeOK'
    BY DEF TypeOK, Refused, widths, codes, locals, reader
  <1> QED
    BY <1>1 DEF Refused, IInv

LEMMA CountWidthKeepsInv ==
  ASSUME IInv, CountWidth
  PROVE  IInv'
  <1>0. /\ i \in SymbolSet /\ lengths \in [SymbolSet -> 0..MaxWidth]
        /\ lengths[i] \in Nat
    BY DEF CountWidth, IInv, TypeOK
  <1>1. CASE lengths[i] > WidthLimit
    <2>1. Refused
      BY <1>0, <1>1 DEF CountWidth
    <2> QED
      BY <2>1, RefusedKeepsInv DEF IInv
  <1>2. CASE lengths[i] <= WidthLimit
    <2> DEFINE l == lengths[i]
    <2>1. /\ pc = "count" /\ i \in SymbolSet /\ l \in 0..WidthLimit
          /\ counts \in [0..WidthLimit -> Nat] /\ lengths \in [SymbolSet -> 0..MaxWidth]
      <3>1. pc = "count"
        BY DEF CountWidth
      <3>2. counts \in [0..WidthLimit -> Nat]
        BY DEF IInv, TypeOK
      <3> QED
        BY <1>0, <1>2, <3>1, <3>2
    <2>2. /\ counts' = IF l = 0 THEN counts ELSE [counts EXCEPT ![l] = @ + 1]
          /\ i' = (IF i = Symbols - 1 THEN 1 ELSE i + 1)
          /\ pc' = (IF i = Symbols - 1 THEN "slots" ELSE "count")
          /\ lengths' = lengths
          /\ UNCHANGED <<codes, ordered, slots, locals, reader>>
      BY <1>0, <1>2 DEF CountWidth, Refused
    <2>3. counted = i /\ counted' = i + 1
      BY <2>1, <2>2 DEF counted, SymbolSet
    <2>4. \A w \in 0..WidthLimit :
            counts'[w] = IF w = l /\ l # 0 THEN counts[w] + 1 ELSE counts[w]
      BY <2>1, <2>2
    <2>5. counts' \in [0..WidthLimit -> Nat]
      BY <2>1, <2>2
    <2>6. TypeOK'
      <3>1. /\ i' \in Int /\ pc' \in {"slots", "count"}
            /\ pc' = "count" => i' \in SymbolSet
            /\ pc' = "slots" => i' \in 1..WidthLimit
        BY <2>1, <2>2 DEF SymbolSet
      <3> QED
        BY <2>1, <2>2, <2>5, <3>1
           DEF IInv, TypeOK, codes, locals, reader
    <2>7. Counted'
      <3>1. ASSUME NEW w \in 1..WidthLimit
            PROVE  counts'[w] = Cardinality(Of(w, i + 1))
        <4>1. counts[w] = Cardinality(Of(w, i))
          BY <2>1, <2>3 DEF IInv, BookInv, Counted
        <4>2. CASE w = l
          BY <2>1, <2>4, <4>1, <4>2, OfNext
        <4>3. CASE w # l
          BY <2>1, <2>4, <4>1, <4>3, OfOther
        <4> QED
          BY <4>2, <4>3
      <3>2. \A s \in SymbolSet : s < i + 1 => lengths[s] <= WidthLimit
        <4>1. \A s \in SymbolSet : s < i => lengths[s] <= WidthLimit
          BY <2>1, <2>3 DEF IInv, BookInv, Counted
        <4>2. \A s \in SymbolSet : s < i + 1 => s < i \/ s = i
          BY <2>1 DEF SymbolSet
        <4> QED
          BY <2>1, <4>1, <4>2
      <3>3. counts'[0] = 0
        BY <2>1, <2>4 DEF IInv, BookInv, Counted
      <3> QED
        BY <2>2, <2>3, <3>1, <3>2, <3>3 DEF Counted, Of
    <2>8. checked = 0 /\ checked' = 0 /\ assigned = 0 /\ assigned' = 0
      BY <2>1, <2>2 DEF checked, assigned
    <2>9. Spared'
      BY <2>1, <2>2, <2>8 DEF IInv, BookInv, Spared, locals
    <2>10. Laddered'
      BY <2>1, <2>2, <2>4, <2>8 DEF IInv, BookInv, Laddered, locals, codes
    <2>11. Parted' /\ Bounded'
      <3>1. Narrow(0)' = Narrow(0)
        BY <2>2 DEF Narrow
      <3> QED
        BY <2>1, <2>2, <2>8, <3>1 DEF IInv, BookInv, Parted, Bounded, locals, codes
    <2>12. Ordered' /\ Reading'
      BY <2>2 DEF Ordered, Reading
    <2> QED
      BY <2>2, <2>6, <2>7, <2>9, <2>10, <2>11, <2>12 DEF IInv, BookInv
  <1> QED
    BY <1>0, <1>1, <1>2

LEMMA TakeSlotsKeepsInv ==
  ASSUME IInv, TakeSlots
  PROVE  IInv'
  <1>0. /\ pc = "slots" /\ i \in 1..WidthLimit
        /\ counts \in [0..WidthLimit -> Nat] /\ spare \in [0..WidthLimit -> Nat]
        /\ open_slots \in Nat /\ BookInv
    BY DEF TakeSlots, IInv, TypeOK
  <1>1. CASE TooMany(counts[i], 2 * open_slots)
    <2>1. Refused
      BY <1>1 DEF TakeSlots
    <2> QED
      BY <2>1, RefusedKeepsInv DEF IInv
  <1>2. CASE ~TooMany(counts[i], 2 * open_slots)
    <2>1. /\ open_slots' = 2 * open_slots - counts[i]
          /\ spare' = [spare EXCEPT ![i] = open_slots']
          /\ i' = (IF i = WidthLimit THEN 1 ELSE i + 1)
          /\ pc' = (IF i = WidthLimit THEN "assign" ELSE "slots")
          /\ UNCHANGED <<widths, codes, ordered, slots, next_code, next_symbol,
                         reader>>
      BY <1>2 DEF TakeSlots, Refused
    <2>2. counts[i] \in Nat /\ counts[i] <= 2 * open_slots
      BY <1>0, <1>2 DEF TooMany
    <2>3. open_slots' \in Nat /\ spare' \in [0..WidthLimit -> Nat]
      BY <1>0, <2>1, <2>2
    <2>4. /\ i' \in Int /\ pc' \in {"slots", "assign"}
          /\ i' \in 1..WidthLimit
      BY <1>0, <2>1
    <2>5. TypeOK'
      BY <2>1, <2>3, <2>4 DEF IInv, TypeOK, widths, codes, reader
    <2>6. /\ checked = i - 1 /\ checked' = i /\ assigned = 0 /\ assigned' = 0
          /\ counted = Symbols /\ counted' = Symbols
      BY <1>0, <2>1 DEF checked, assigned, counted
    <2>7. Counted'
      <3>1. \A w : Of(w, Symbols)' = Of(w, Symbols)
        BY <2>1 DEF Of, widths
      <3> QED
        BY <1>0, <2>1, <2>6, <3>1 DEF BookInv, Counted, widths
    <2>8. Spared'
      <3>1. /\ spare[i - 1] = open_slots /\ spare'[i] = open_slots'
            /\ \A w \in 0..(i - 1) : spare'[w] = spare[w]
        <4>1. spare[checked] = open_slots
          BY <1>0 DEF BookInv, Spared
        <4>2. spare[i - 1] = open_slots
          BY <2>6, <4>1
        <4>3. i \in 1..WidthLimit /\ spare \in [0..WidthLimit -> Nat]
          BY <1>0
        <4>4. spare' = [spare EXCEPT ![i] = open_slots']
          BY <2>1
        <4> QED
          BY <4>2, <4>3, <4>4
      <3>2. \A w \in 1..i : spare'[w] = 2 * spare'[w - 1] - counts[w]
        <4>1. ASSUME NEW w \in 1..i PROVE spare'[w] = 2 * spare'[w - 1] - counts[w]
          <5>1. CASE w = i
            BY <1>0, <2>1, <3>1, <5>1
          <5>2. CASE w # i
            <6>1. w \in 1..(i - 1) /\ w - 1 \in 0..(i - 1) /\ w \in 0..(i - 1)
              BY <1>0, <5>2
            <6>2. spare[w] = 2 * spare[w - 1] - counts[w]
              BY <1>0, <2>6, <6>1 DEF BookInv, Spared
            <6> QED
              BY <3>1, <6>1, <6>2
          <5> QED
            BY <5>1, <5>2
        <4> QED
          BY <4>1
      <3>3. spare'[0] = 1
        BY <1>0, <3>1 DEF BookInv, Spared
      <3> QED
        BY <2>1, <2>6, <3>1, <3>2, <3>3 DEF Spared, widths
    <2>9. Laddered'
      <3>1. spare'[0] = spare[0]
        BY <1>0, <2>1
      <3> QED
        BY <1>0, <2>1, <2>6, <3>1 DEF BookInv, Laddered, widths, codes
    <2>10. Parted' /\ Bounded'
      <3>1. Narrow(0)' = Narrow(0)
        BY <2>1 DEF Narrow, widths
      <3> QED
        BY <1>0, <2>1, <2>6, <3>1 DEF BookInv, Parted, Bounded, codes
    <2>11. Ordered' /\ Reading'
      BY <2>4 DEF Ordered, Reading
    <2> QED
      BY <2>4, <2>5, <2>7, <2>8, <2>9, <2>10, <2>11 DEF IInv, BookInv
  <1> QED
    BY <1>1, <1>2

LEMMA AssignCodesKeepsInv ==
  ASSUME IInv, AssignCodes
  PROVE  IInv'
  <1>0. /\ pc = "assign" /\ i \in 1..WidthLimit /\ BookInv
        /\ counts \in [0..WidthLimit -> Nat] /\ spare \in [0..WidthLimit -> Nat]
        /\ first_codes \in [0..WidthLimit -> Nat] /\ starts \in [0..WidthLimit -> Nat]
        /\ next_code \in Nat /\ next_symbol \in Nat
    BY DEF AssignCodes, IInv, TypeOK
  <1>1. /\ next_code' = 2 * (next_code + counts[i - 1])
        /\ first_codes' = [first_codes EXCEPT ![i] = next_code']
        /\ starts' = [starts EXCEPT ![i] = next_symbol]
        /\ next_symbol' = next_symbol + counts[i]
        /\ min_width' = (IF counts[i] # 0 /\ min_width = 0 THEN i ELSE min_width)
        /\ max_width' = (IF counts[i] # 0 THEN i ELSE max_width)
        /\ i' = (IF i = WidthLimit THEN 0 ELSE i + 1)
        /\ pc' = (IF i = WidthLimit THEN "order" ELSE "assign")
        /\ symbol_count' = (IF i = WidthLimit THEN next_symbol' ELSE 0)
        /\ slots' = (IF i = WidthLimit THEN starts' ELSE slots)
        /\ UNCHANGED <<widths, ordered, open_slots, spare, reader>>
    BY DEF AssignCodes, CodesAfter
  <1>2. /\ counts[i] \in Nat /\ counts[i - 1] \in Nat /\ 0 \in 0..WidthLimit
        /\ i \in 0..WidthLimit /\ i - 1 \in 0..WidthLimit
    BY <1>0
  <1>3. /\ next_code' \in Nat /\ next_symbol' \in Nat
        /\ first_codes' \in [0..WidthLimit -> Nat]
        /\ starts' \in [0..WidthLimit -> Nat]
    <2>0. /\ next_code' = 2 * (next_code + counts[i - 1])
          /\ next_symbol' = next_symbol + counts[i]
      BY <1>1
    <2>1. next_code' \in Nat /\ next_symbol' \in Nat
      <3>1. next_code \in Nat /\ next_symbol \in Nat
        BY <1>0
      <3>2. counts[i - 1] \in Nat /\ counts[i] \in Nat
        BY <1>2
      <3>3. next_code' \in Nat
        BY <2>0, <3>1, <3>2
      <3> QED
        BY <2>0, <3>1, <3>2, <3>3
    <2>2. first_codes' \in [0..WidthLimit -> Nat]
      BY <1>0, <1>1, <2>1
    <2>3. starts' \in [0..WidthLimit -> Nat]
      BY <1>0, <1>1
    <2> QED
      BY <2>1, <2>2, <2>3
  <1>4. /\ assigned = i - 1 /\ assigned' = i
        /\ checked = WidthLimit /\ checked' = WidthLimit
        /\ counted = Symbols /\ counted' = Symbols
    BY <1>0, <1>1 DEF assigned, checked, counted
  <1>5. TypeOK'
    <2>1. slots' \in [0..WidthLimit -> Nat]
      BY <1>1, <1>3 DEF IInv, TypeOK
    <2>2. /\ min_width' \in 0..WidthLimit /\ max_width' \in 0..WidthLimit
          /\ symbol_count' \in Nat
      BY <1>1, <1>2, <1>3 DEF IInv, TypeOK
    <2>3. /\ i' \in Int /\ pc' \in {"order", "assign"}
          /\ pc' = "order" => i' \in SymbolSet
          /\ pc' = "assign" => i' \in 1..WidthLimit
      BY <1>0, <1>1 DEF SymbolSet
    <2>4. /\ lengths' \in [SymbolSet -> 0..MaxWidth]
          /\ counts' \in [0..WidthLimit -> Nat] /\ spare' \in [0..WidthLimit -> Nat]
          /\ ordered' \in [SymbolSet -> SymbolSet] /\ open_slots' \in Nat
          /\ code' \in Nat /\ width' \in 0..WidthLimit /\ symbol' \in SymbolSet
      BY <1>1 DEF IInv, TypeOK, widths, reader
    <2> QED
      BY <1>3, <2>1, <2>2, <2>3, <2>4 DEF TypeOK
  <1>6. /\ first_codes'[i] = next_code' /\ starts'[i] = next_symbol
        /\ \A w \in 0..(i - 1) : first_codes'[w] = first_codes[w]
        /\ \A w \in 1..(i - 1) : starts'[w] = starts[w]
    <2>1. /\ first_codes' = [first_codes EXCEPT ![i] = next_code']
          /\ starts' = [starts EXCEPT ![i] = next_symbol]
      BY <1>1
    <2>2. first_codes'[i] = next_code' /\ starts'[i] = next_symbol
      BY <1>0, <1>2, <2>1
    <2>3. \A w \in 0..(i - 1) : w \in 0..WidthLimit /\ w # i
      BY <1>0
    <2>4. \A w \in 0..(i - 1) :
            first_codes'[w] = first_codes[w] /\ starts'[w] = starts[w]
      BY <1>0, <2>1, <2>3
    <2>5. \A w \in 1..(i - 1) : w \in 0..(i - 1)
      OBVIOUS
    <2> QED
      BY <2>2, <2>4, <2>5
  <1>7. lengths' = lengths /\ counts' = counts /\ spare' = spare
    BY <1>1 DEF widths
  <1>8. Counted'
    <2>1. \A w : Of(w, Symbols)' = Of(w, Symbols)
      BY <1>7 DEF Of
    <2> QED
      BY <1>0, <1>4, <1>7, <2>1 DEF BookInv, Counted
  <1>9. Spared'
    BY <1>0, <1>1, <1>4, <1>7 DEF BookInv, Spared
  <1>10. Laddered'
    <2>1. /\ next_code = first_codes[i - 1]
          /\ first_codes[i - 1] + counts[i - 1] + spare[i - 1] = Codes[i - 1]
      BY <1>0, <1>4 DEF BookInv, Laddered
    <2>2. spare[i] = 2 * spare[i - 1] - counts[i]
      BY <1>0, <1>4 DEF BookInv, Spared
    <2>3. Codes[i] = 2 * Codes[i - 1]
      BY <1>0, CodesAssumption
    <2>4. /\ first_codes[i - 1] \in Nat /\ spare[i - 1] \in Nat /\ spare[i] \in Nat
          /\ Codes[i] \in Nat /\ Codes[i - 1] \in Nat
      BY <1>0, <1>2, CodesAssumption
    <2>5. next_code' = 2 * (first_codes[i - 1] + counts[i - 1])
      BY <1>1, <2>1
    <2>6. first_codes'[i] + counts[i] + spare[i] = Codes[i]
      BY <1>2, <1>6, <2>1, <2>2, <2>3, <2>4, <2>5
    <2>7. \A w \in 0..i : first_codes'[w] + counts[w] + spare[w] = Codes[w]
      <3>1. \A w \in 0..(i - 1) : first_codes[w] + counts[w] + spare[w] = Codes[w]
        BY <1>0, <1>4 DEF BookInv, Laddered
      <3>2. \A w \in 0..i : w = i \/ w \in 0..(i - 1)
        BY <1>0
      <3> QED
        BY <1>6, <2>6, <3>1, <3>2
    <2>8. \A w \in 1..i :
            first_codes'[w] = 2 * (first_codes'[w - 1] + counts[w - 1])
      <3>1. \A w \in 1..(i - 1) :
              first_codes[w] = 2 * (first_codes[w - 1] + counts[w - 1])
        BY <1>0, <1>4 DEF BookInv, Laddered
      <3>2. \A w \in 1..i : \/ w = i /\ w - 1 = i - 1 /\ i - 1 \in 0..(i - 1)
                            \/ /\ w \in 1..(i - 1) /\ w \in 0..(i - 1)
                               /\ w - 1 \in 0..(i - 1)
        BY <1>0
      <3> QED
        BY <1>6, <2>5, <3>1, <3>2
    <2> QED
      BY <1>4, <1>6, <1>7, <2>7, <2>8 DEF Laddered
  <1>11. Parted'
    <2>1. counts[i] = Cardinality(Of(i, Symbols))
      BY <1>0, <1>4 DEF BookInv, Counted
    <2>2. next_symbol = Cardinality(Narrow(i - 1))
      BY <1>0, <1>4 DEF BookInv, Parted
    <2>3. next_symbol' = Cardinality(Narrow(i))
      BY <1>0, <1>1, <2>1, <2>2, NarrowNext
    <2>4. \A n : Narrow(n)' = Narrow(n)
      BY <1>7 DEF Narrow
    <2>5. /\ \A w \in 1..(i - 1) : starts[w] + counts[w] <= next_symbol
          /\ \A v, w \in 1..(i - 1) : v < w => starts[v] + counts[v] <= starts[w]
      BY <1>0, <1>4 DEF BookInv, Parted
    <2>6. \A w \in 1..i : w = i \/ w \in 1..(i - 1)
      BY <1>0
    <2>7. \A w \in 1..i : starts'[w] + counts[w] <= next_symbol'
      <3>1. ASSUME NEW w \in 1..i PROVE starts'[w] + counts[w] <= next_symbol'
        <4>1. CASE w = i
          BY <1>0, <1>1, <1>2, <1>6, <4>1
        <4>2. CASE w \in 1..(i - 1)
          <5>1. starts[w] + counts[w] <= next_symbol /\ starts[w] + counts[w] \in Nat
            BY <1>0, <2>5, <4>2
          <5>2. next_symbol' = next_symbol + counts[i]
            BY <1>1
          <5>3. starts'[w] = starts[w]
            BY <1>6, <4>2
          <5>4. next_symbol \in Nat /\ counts[i] \in Nat
            BY <1>0, <1>2
          <5> QED
            BY <5>1, <5>2, <5>3, <5>4
        <4> QED
          BY <2>6, <4>1, <4>2
      <3> QED
        BY <3>1
    <2>8. \A v, w \in 1..i : v < w => starts'[v] + counts[v] <= starts'[w]
      <3>1. ASSUME NEW v \in 1..i, NEW w \in 1..i, v < w
            PROVE  starts'[v] + counts[v] <= starts'[w]
        <4>1. v \in 1..(i - 1)
          BY <1>0, <3>1
        <4> QED
          BY <1>6, <2>5, <2>6, <3>1, <4>1
      <3> QED
        BY <3>1
    <2>9. pc' # "assign" => symbol_count' = next_symbol'
      BY <1>1
    <2> QED
      BY <1>4, <1>7, <2>3, <2>4, <2>7, <2>8, <2>9 DEF Parted
  <1>12. Bounded'
    <2>1. min_width \in Nat /\ min_width <= i - 1
      BY <1>0, <1>4 DEF BookInv, Bounded, IInv, TypeOK
    <2>2. \A w \in 1..(i - 1) : w < min_width \/ min_width = 0 => counts[w] = 0
      BY <1>0, <1>4 DEF BookInv, Bounded
    <2>3. min_width' <= i
      BY <1>0, <1>1, <2>1
    <2>4. ASSUME NEW w \in 1..i, w < min_width' \/ min_width' = 0
          PROVE  counts[w] = 0
      <3>1. CASE w = i
        BY <1>0, <1>1, <2>1, <2>4, <3>1
      <3>2. CASE w \in 1..(i - 1)
        BY <1>0, <1>1, <2>1, <2>2, <2>4, <3>2
      <3> QED
        BY <1>0, <3>1, <3>2
    <2> QED
      BY <1>4, <1>7, <2>3, <2>4 DEF Bounded
  <1>13. Ordered'
    <2>1. CASE i = WidthLimit
      <3>1. placed' = 0 /\ slots' = starts'
        BY <1>0, <1>1, <2>1 DEF placed
      <3>2. \A w : Cardinality(Of(w, 0)') = 0
        <4>1. \A w : Of(w, 0)' = Of(w, 0)
          BY <1>7 DEF Of
        <4> QED
          BY <4>1, OfNone
      <3> QED
        BY <1>3, <3>1, <3>2 DEF Ordered
    <2>2. CASE i # WidthLimit
      BY <1>1, <2>2 DEF Ordered
    <2> QED
      BY <2>1, <2>2
  <1>14. Reading'
    BY <1>1 DEF Reading
  <1> QED
    BY <1>5, <1>8, <1>9, <1>10, <1>11, <1>12, <1>13, <1>14 DEF IInv, BookInv

LEMMA OfBound ==
  ASSUME NEW w, NEW n \in 0..Symbols
  PROVE  Cardinality(Of(w, n)) <= Cardinality(Of(w, Symbols))
  <1>1. Of(w, n) \in SUBSET Of(w, Symbols) /\ Of(w, Symbols) \in SUBSET SymbolSet
    BY DEF Of, SymbolSet
  <1>2. IsFiniteSet(Of(w, Symbols))
    BY <1>1, SymbolsFinite
  <1> QED
    BY <1>1, <1>2, FS_Subset

(* The part of the table that belongs to a width.                          *)
LEMMA PartInTable ==
  ASSUME IInv, pc \notin {"count", "slots", "assign", "refused"},
         NEW w \in 1..WidthLimit
  PROVE  /\ counts[w] = Cardinality(Of(w, Symbols))
         /\ starts[w] \in Nat /\ counts[w] \in Nat
         /\ starts[w] + counts[w] <= symbol_count /\ symbol_count \in 0..Symbols
         /\ \A v \in 1..WidthLimit : v < w => starts[v] + counts[v] <= starts[w]
         /\ \A s \in SymbolSet : lengths[s] \in 0..WidthLimit
  <1>1. /\ BookInv /\ starts \in [0..WidthLimit -> Nat]
        /\ counts \in [0..WidthLimit -> Nat]
        /\ lengths \in [SymbolSet -> 0..MaxWidth]
    BY DEF IInv, TypeOK
  <1>2. counted = Symbols /\ assigned = WidthLimit
    BY DEF counted, assigned
  <1>3. /\ symbol_count = next_symbol /\ next_symbol = Cardinality(Narrow(WidthLimit))
        /\ starts[w] + counts[w] <= next_symbol
        /\ \A v \in 1..WidthLimit : v < w => starts[v] + counts[v] <= starts[w]
    BY <1>1, <1>2 DEF BookInv, Parted
  <1>4. symbol_count \in 0..Symbols
    BY <1>3, NarrowNat
  <1>5. counts[w] = Cardinality(Of(w, Symbols))
    BY <1>1, <1>2 DEF BookInv, Counted
  <1>6. \A s \in SymbolSet : lengths[s] \in 0..WidthLimit
    <2>1. \A s \in SymbolSet : s < Symbols => lengths[s] <= WidthLimit
      BY <1>1, <1>2 DEF BookInv, Counted
    <2> QED
      BY <1>1, <2>1 DEF SymbolSet
  <1>7. starts[w] \in Nat /\ counts[w] \in Nat
    BY <1>1
  <1> QED
    BY <1>3, <1>4, <1>5, <1>6, <1>7

LEMMA NextSlot ==
  ASSUME IInv, pc = "order", lengths[i] # 0
  PROVE  LET l == lengths[i] c == Cardinality(Of(l, i))
         IN /\ l \in 1..WidthLimit /\ c \in Nat /\ c < counts[l]
            /\ slots[l] = starts[l] + c
            /\ slots[l] < symbol_count /\ slots[l] \in SymbolSet
  <1> DEFINE l == lengths[i]
             c == Cardinality(Of(l, i))
  <1>1. i \in SymbolSet /\ l \in 0..MaxWidth /\ BookInv
    BY DEF IInv, TypeOK
  <1>2. l \in 1..WidthLimit
    <2>1. 1 \in 1..WidthLimit
      OBVIOUS
    <2>2. \A s \in SymbolSet : lengths[s] \in 0..WidthLimit
      BY <2>1, PartInTable
    <2> QED
      BY <1>1, <2>2
  <1>3. c \in Nat /\ c < Cardinality(Of(l, Symbols))
    BY <1>1, OfNat, OfRoom
  <1>4. slots[l] = starts[l] + c
    BY <1>1, <1>2 DEF BookInv, Ordered, placed
  <1>5. /\ counts[l] = Cardinality(Of(l, Symbols)) /\ starts[l] \in Nat
        /\ counts[l] \in Nat
        /\ starts[l] + counts[l] <= symbol_count /\ symbol_count \in 0..Symbols
    BY <1>2, PartInTable
  <1> HIDE DEF l, c
  <1>6. slots[l] < symbol_count /\ slots[l] \in SymbolSet /\ c < counts[l]
    BY <1>3, <1>4, <1>5 DEF SymbolSet
  <1> QED
    BY <1>2, <1>3, <1>4, <1>6 DEF l, c

LEMMA PlaceSymbolKeepsInv ==
  ASSUME IInv, PlaceSymbol
  PROVE  IInv'
  <1> DEFINE l == lengths[i]
  <1>0. /\ pc = "order" /\ i \in SymbolSet /\ BookInv /\ 0 \in SymbolSet
        /\ ordered \in [SymbolSet -> SymbolSet] /\ slots \in [0..WidthLimit -> Nat]
        /\ starts \in [0..WidthLimit -> Nat]
    <2>1. pc = "order"
      BY DEF PlaceSymbol
    <2>2. 0 \in SymbolSet
      BY DEF SymbolSet
    <2> QED
      BY <2>1, <2>2 DEF IInv, TypeOK
  <1>1. /\ i' = (IF i = Symbols - 1 THEN 0 ELSE i + 1)
        /\ pc' = (IF i = Symbols - 1 THEN "ready" ELSE "order")
        /\ UNCHANGED <<widths, codes, locals, reader>>
        /\ IF l = 0 THEN UNCHANGED <<ordered, slots>>
           ELSE /\ ordered' = [ordered EXCEPT ![slots[l]] = i]
                /\ slots' = [slots EXCEPT ![l] = @ + 1]
    BY DEF PlaceSymbol, SlotTaken
  <1>2. lengths' = lengths /\ counts' = counts /\ starts' = starts
    BY <1>1 DEF widths, codes
  <1>3. /\ placed = i /\ placed' = i + 1 /\ counted = Symbols /\ counted' = Symbols
        /\ checked = WidthLimit /\ checked' = WidthLimit
        /\ assigned = WidthLimit /\ assigned' = WidthLimit
    <2>1. pc = "order" /\ i \in Int
      BY <1>0 DEF SymbolSet
    <2>2. pc' = IF i = Symbols - 1 THEN "ready" ELSE "order"
      BY <1>1
    <2>3. i' = IF i = Symbols - 1 THEN 0 ELSE i + 1
      BY <1>1
    <2>4. placed = i /\ placed' = i + 1
      BY <2>1, <2>2, <2>3 DEF placed
    <2>5. /\ counted = Symbols /\ counted' = Symbols
          /\ checked = WidthLimit /\ checked' = WidthLimit
          /\ assigned = WidthLimit /\ assigned' = WidthLimit
      BY <2>1, <2>2 DEF counted, checked, assigned
    <2> QED
      BY <2>4, <2>5
  <1>4. /\ pc' \in {"order", "ready"} /\ i' \in Int
        /\ pc' = "order" => i' \in SymbolSet
    BY <1>0, <1>1 DEF SymbolSet
  <1>5. TypeOK'
    <2>1. ordered' \in [SymbolSet -> SymbolSet] /\ slots' \in [0..WidthLimit -> Nat]
      <3>1. CASE l = 0
        BY <1>0, <1>1, <3>1
      <3>2. CASE l # 0
        <4>1. l \in 1..WidthLimit /\ slots[l] \in SymbolSet
          BY <1>0, <3>2, NextSlot
        <4>2. /\ ordered' = [ordered EXCEPT ![slots[l]] = i]
              /\ slots' = [slots EXCEPT ![l] = slots[l] + 1]
          BY <1>1, <3>2
        <4>3. slots[l] \in Nat
          BY <1>0, <4>1
        <4> HIDE DEF l
        <4>4. ordered' \in [SymbolSet -> SymbolSet]
          BY <1>0, <4>1, <4>2
        <4>5. slots' \in [0..WidthLimit -> Nat]
          <5>1. slots[l] + 1 \in Nat
            BY <4>3
          <5>2. \A v \in Nat : [slots EXCEPT ![l] = v] \in [0..WidthLimit -> Nat]
            BY <1>0
          <5>3. [slots EXCEPT ![l] = slots[l] + 1] \in [0..WidthLimit -> Nat]
            BY <5>1, <5>2
          <5> QED
            BY <4>2, <5>3
        <4> QED
          BY <4>4, <4>5
      <3> QED
        BY <3>1, <3>2
    <2> QED
      BY <1>1, <1>4, <2>1 DEF IInv, TypeOK, widths, codes, locals, reader
  <1>6. /\ \A w, n : Of(w, n)' = Of(w, n)
        /\ \A n : Narrow(n)' = Narrow(n)
    BY <1>2 DEF Of, Narrow
  <1>7. Counted'
    BY <1>0, <1>2, <1>3, <1>6 DEF BookInv, Counted
  <1>8. Spared' /\ Laddered'
    BY <1>0, <1>1, <1>2, <1>3 DEF BookInv, Spared, Laddered, codes, locals
  <1>9. Parted' /\ Bounded'
    BY <1>0, <1>1, <1>2, <1>3, <1>6 DEF BookInv, Parted, Bounded, codes, locals
  <1>10. Ordered'
    <2> SUFFICES ASSUME NEW w \in 1..WidthLimit
                 PROVE  /\ slots'[w] = starts[w] + Cardinality(Of(w, i + 1))
                        /\ \A k \in 0..(Cardinality(Of(w, i + 1)) - 1) :
                             lengths[ordered'[starts[w] + k]] = w
      BY <1>2, <1>3, <1>6 DEF Ordered
    <2>1. /\ slots[w] = starts[w] + Cardinality(Of(w, i))
          /\ \A k \in 0..(Cardinality(Of(w, i)) - 1) :
               lengths[ordered[starts[w] + k]] = w
      BY <1>0, <1>3 DEF BookInv, Ordered
    <2>2. CASE l = 0
      <3>1. Of(w, i + 1) = Of(w, i)
        BY <1>0, <2>2, OfOther
      <3> QED
        BY <1>1, <2>1, <2>2, <3>1
    <2>3. CASE l # 0
      <3> DEFINE c == Cardinality(Of(l, i))
      <3>1. /\ l \in 1..WidthLimit /\ c \in Nat /\ c < counts[l]
            /\ slots[l] = starts[l] + c /\ slots[l] \in SymbolSet
        BY <1>0, <2>3, NextSlot
      <3>2. /\ ordered' = [ordered EXCEPT ![slots[l]] = i]
            /\ slots' = [slots EXCEPT ![l] = @ + 1]
        BY <1>1, <2>3
      <3>3. \A v \in 1..WidthLimit :
              /\ starts[v] \in Nat /\ counts[v] \in Nat
              /\ starts[v] + counts[v] <= Symbols
              /\ \A u \in 1..WidthLimit : u < v => starts[u] + counts[u] <= starts[v]
        <4>1. ASSUME NEW v \in 1..WidthLimit
              PROVE  /\ starts[v] \in Nat /\ counts[v] \in Nat
                     /\ starts[v] + counts[v] <= Symbols
                     /\ \A u \in 1..WidthLimit :
                          u < v => starts[u] + counts[u] <= starts[v]
          <5>1. /\ starts[v] \in Nat /\ counts[v] \in Nat
                /\ starts[v] + counts[v] <= symbol_count
                /\ symbol_count \in 0..Symbols
                /\ \A u \in 1..WidthLimit :
                     u < v => starts[u] + counts[u] <= starts[v]
            BY <1>0, PartInTable
          <5> QED
            BY <5>1
        <4> QED
          BY <4>1
      <3>4. CASE w = l
        <4>1. Cardinality(Of(w, i + 1)) = c + 1
          BY <1>0, <3>4, OfNext
        <4>2. slots'[w] = starts[w] + (c + 1)
          <5>1. slots'[l] = slots[l] + 1
            BY <1>0, <3>1, <3>2
          <5>2. slots[l] = starts[l] + c /\ starts[l] \in Nat /\ c \in Nat
            BY <3>1, <3>3
          <5> QED
            BY <3>4, <5>1, <5>2
        <4>3. ASSUME NEW k \in 0..c
              PROVE  lengths[ordered'[starts[w] + k]] = w
          <5>1. CASE k = c
            BY <1>0, <3>1, <3>2, <3>4, <5>1
          <5>2. CASE k # c
            <6>1. k \in 0..(c - 1)
              BY <3>1, <5>2
            <6>2. starts[w] + k \in SymbolSet /\ starts[w] + k # slots[l]
              BY <3>1, <3>3, <3>4, <6>1 DEF SymbolSet
            <6>3. ordered'[starts[w] + k] = ordered[starts[w] + k]
              BY <1>0, <3>2, <6>2
            <6> QED
              BY <2>1, <3>4, <6>1, <6>3
          <5> QED
            BY <5>1, <5>2
        <4>4. \A k \in 0..((c + 1) - 1) : lengths[ordered'[starts[w] + k]] = w
          BY <3>1, <4>3
        <4> QED
          BY <4>1, <4>2, <4>4
      <3>5. CASE w # l
        <4>1. Of(w, i + 1) = Of(w, i)
          BY <1>0, <3>5, OfOther
        <4>2. slots'[w] = slots[w]
          BY <1>0, <3>1, <3>2, <3>5
        <4>3. ASSUME NEW k \in 0..(Cardinality(Of(w, i)) - 1)
              PROVE  lengths[ordered'[starts[w] + k]] = w
          <5>1. Cardinality(Of(w, i)) <= counts[w] /\ Cardinality(Of(w, i)) \in Nat
            <6>1. i \in 0..Symbols
              BY <1>0 DEF SymbolSet
            <6>2. counts[w] = Cardinality(Of(w, Symbols))
              BY <1>0, PartInTable
            <6> QED
              BY <6>1, <6>2, OfBound, OfNat
          <5>2. k \in Nat /\ k < counts[w]
            BY <3>3, <5>1
          <5>3. starts[w] + k \in SymbolSet
            BY <3>3, <5>2 DEF SymbolSet
          <5>4. starts[w] + k # slots[l]
            <6>1. CASE w < l
              <7>1. starts[w] + counts[w] <= starts[l]
                BY <3>1, <3>3, <6>1
              <7> QED
                BY <3>1, <3>3, <5>2, <7>1
            <6>2. CASE l < w
              <7>1. starts[l] + counts[l] <= starts[w]
                BY <3>1, <3>3, <6>2
              <7> QED
                BY <3>1, <3>3, <5>2, <7>1
            <6> QED
              BY <3>1, <3>5, <6>1, <6>2
          <5>5. ordered'[starts[w] + k] = ordered[starts[w] + k]
            BY <1>0, <3>2, <5>3, <5>4
          <5> QED
            BY <2>1, <5>5
        <4> QED
          BY <2>1, <4>1, <4>2, <4>3
      <3> QED
        BY <3>4, <3>5
    <2> QED
      BY <2>2, <2>3
  <1>11. Reading'
    BY <1>4 DEF Reading
  <1> QED
    BY <1>4, <1>5, <1>7, <1>8, <1>9, <1>10, <1>11 DEF IInv, BookInv
-----------------------------------------------------------------------------
(* Steps that only read the table.                                         *)
LEMMA BookKept ==
  ASSUME IInv, pc \notin {"count", "slots", "assign", "order", "refused"},
         pc' \notin {"count", "slots", "assign", "order", "refused"},
         UNCHANGED <<widths, codes, ordered, slots, locals, i>>
  PROVE  /\ Counted' /\ Spared' /\ Laddered' /\ Parted' /\ Bounded' /\ Ordered'
         /\ i' \in Int /\ max_width' \in 0..WidthLimit
  <1>1. /\ lengths' = lengths /\ counts' = counts /\ starts' = starts
        /\ first_codes' = first_codes /\ slots' = slots /\ ordered' = ordered
        /\ spare' = spare /\ open_slots' = open_slots /\ next_code' = next_code
        /\ next_symbol' = next_symbol /\ symbol_count' = symbol_count
        /\ min_width' = min_width /\ max_width' = max_width /\ i' = i
    BY DEF widths, codes, locals
  <1>2. /\ counted' = Symbols /\ checked' = WidthLimit /\ assigned' = WidthLimit
        /\ placed' = Symbols /\ counted = Symbols /\ checked = WidthLimit
        /\ assigned = WidthLimit /\ placed = Symbols
    BY DEF counted, checked, assigned, placed
  <1>3. \A w, n : Of(w, n)' = Of(w, n) /\ Narrow(n)' = Narrow(n)
    BY <1>1 DEF Of, Narrow
  <1>4. BookInv /\ i \in Int /\ max_width \in 0..WidthLimit
    BY DEF IInv, TypeOK
  <1>5. Counted'
    BY <1>1, <1>2, <1>3, <1>4 DEF BookInv, Counted
  <1>6. Spared' /\ Laddered' /\ Bounded'
    BY <1>1, <1>2, <1>4 DEF BookInv, Spared, Laddered, Bounded
  <1>7. Parted'
    BY <1>1, <1>2, <1>3, <1>4 DEF BookInv, Parted
  <1>8. Ordered'
    BY <1>1, <1>2, <1>3, <1>4 DEF BookInv, Ordered
  <1> QED
    BY <1>1, <1>4, <1>5, <1>6, <1>7, <1>8

LEMMA ReadSymbolKeepsInv ==
  ASSUME IInv, ReadSymbol
  PROVE  IInv'
  <1>1. /\ pc = "ready" /\ code' = 0 /\ width' = 0 /\ symbol' = symbol
        /\ pc' \in {"empty", "read"}
        /\ UNCHANGED <<widths, codes, ordered, slots, locals, i>>
    BY DEF ReadSymbol
  <1>2. /\ Counted' /\ Spared' /\ Laddered' /\ Parted' /\ Bounded' /\ Ordered'
        /\ i' \in Int /\ max_width' \in 0..WidthLimit
    BY <1>1, BookKept
  <1>3. TypeOK'
    BY <1>1, <1>2 DEF IInv, TypeOK, widths, codes, locals
  <1>4. Reading'
    <2>1. assigned' = WidthLimit
      BY <1>1 DEF assigned
    <2>2. first_codes'[0] + counts'[0] + spare'[0] = Codes[0]
      BY <1>2, <2>1 DEF Laddered
    <2>3. counts'[0] = 0 /\ spare'[0] = 1 /\ Codes[0] = 1
      BY <1>2, CodesAssumption DEF Counted, Spared
    <2>4. first_codes'[0] \in Nat
      BY <1>3 DEF TypeOK
    <2> QED
      BY <1>1, <2>2, <2>3, <2>4 DEF Reading
  <1> QED
    BY <1>2, <1>3, <1>4 DEF IInv, BookInv

LEMMA OneBitFurther ==
  ASSUME NEW first \in Nat, NEW count \in Nat, NEW c \in Nat, NEW all \in Nat,
         NEW bit \in 0..1, first + count <= c, c < all
  PROVE  2 * (first + count) <= 2 * c + bit /\ 2 * c + bit < 2 * all
  OBVIOUS

(* The next bit leads from beyond the codes of one width to no code below  *)
(* those of the next: what the test of code < first in lookup guards       *)
(* against does not occur.                                                 *)
LEMMA ReadBitKeepsInv ==
  ASSUME IInv, ReadBit
  PROVE  IInv'
  <1>1. PICK bit \in 0..1 : code' = 2 * code + bit
    BY DEF ReadBit
  <1>2. /\ pc = "read" /\ width < max_width /\ width' = width + 1
        /\ UNCHANGED <<widths, codes, ordered, slots, locals, i>>
        /\ \/ /\ Found(width', code')
              /\ symbol' = ordered[starts[width'] + (code' - first_codes[width'])]
              /\ pc' = "decoded"
           \/ /\ ~(WideEnough(width') /\ Found(width', code'))
              /\ symbol' = symbol /\ pc' = "read"
    BY DEF ReadBit
  <1>3. /\ code \in Nat /\ width \in 0..WidthLimit /\ max_width \in 0..WidthLimit
        /\ counts \in [0..WidthLimit -> Nat] /\ first_codes \in [0..WidthLimit -> Nat]
        /\ spare \in [0..WidthLimit -> Nat] /\ ordered \in [SymbolSet -> SymbolSet]
        /\ symbol \in SymbolSet /\ min_width \in 0..WidthLimit
    BY DEF IInv, TypeOK
  <1>4. /\ width + 1 \in 1..WidthLimit /\ code' \in Nat
        /\ width + 1 \in 0..WidthLimit
    BY <1>1, <1>2, <1>3
  <1> DEFINE w == width + 1
  <1>5. /\ counts[w] \in Nat /\ first_codes[w] \in Nat /\ counts[width] \in Nat
        /\ first_codes[width] \in Nat
    BY <1>3, <1>4
  <1>6. /\ Counted' /\ Spared' /\ Laddered' /\ Parted' /\ Bounded' /\ Ordered'
        /\ i' \in Int /\ max_width' \in 0..WidthLimit
    BY <1>2, BookKept
  <1>7. BookInv /\ assigned = WidthLimit /\ placed = Symbols
    BY <1>2 DEF IInv, assigned, placed
  <1>8. first_codes[w] <= code' /\ code' < Codes[w]
    <2>1. first_codes[width] + counts[width] <= code /\ code < Codes[width]
      BY <1>2, <1>7 DEF BookInv, Reading
    <2>2. first_codes[w] = 2 * (first_codes[w - 1] + counts[w - 1])
      BY <1>4, <1>7 DEF BookInv, Laddered
    <2>3. w - 1 = width
      BY <1>3
    <2>4. Codes[w] = 2 * Codes[w - 1] /\ Codes[w - 1] \in Nat
      BY <1>3, <1>4, <2>3, CodesAssumption
    <2>5. first_codes[w] = 2 * (first_codes[width] + counts[width])
      BY <2>2, <2>3
    <2>6. Codes[w] = 2 * Codes[width] /\ Codes[width] \in Nat
      BY <2>3, <2>4
    <2>7. /\ 2 * (first_codes[width] + counts[width]) <= 2 * code + bit
          /\ 2 * code + bit < 2 * Codes[width]
      BY <1>3, <1>5, <2>1, <2>6, OneBitFurther
    <2> QED
      BY <1>1, <2>5, <2>6, <2>7
  <1>9. CASE pc' = "decoded"
    <2> DEFINE k == code' - first_codes[w]
    <2>1. k \in Nat /\ k < counts[w] /\ symbol' = ordered[starts[w] + k]
      BY <1>2, <1>4, <1>5, <1>9 DEF Found
    <2>2. /\ counts[w] = Cardinality(Of(w, Symbols)) /\ starts[w] \in Nat
          /\ starts[w] + counts[w] <= symbol_count /\ symbol_count \in 0..Symbols
      BY <1>2, <1>4, PartInTable
    <2> HIDE DEF k
    <2>3. starts[w] + k \in SymbolSet
      BY <1>5, <2>1, <2>2 DEF SymbolSet
    <2>4. lengths[ordered[starts[w] + k]] = w
      <3>1. k \in 0..(Cardinality(Of(w, Symbols)) - 1)
        BY <1>5, <2>1, <2>2
      <3> QED
        BY <1>2, <1>4, <1>7, <3>1 DEF BookInv, Ordered
    <2>5. symbol' \in SymbolSet
      BY <1>3, <2>1, <2>3
    <2>6. TypeOK'
      BY <1>2, <1>4, <1>6, <1>9, <2>5 DEF IInv, TypeOK, widths, codes, locals
    <2>7. Reading'
      BY <1>2, <1>9, <2>1, <2>4 DEF Reading, widths
    <2> QED
      BY <1>6, <2>6, <2>7 DEF IInv, BookInv
  <1>10. CASE pc' = "read"
    <2>1. TypeOK'
      BY <1>2, <1>3, <1>4, <1>6, <1>10 DEF IInv, TypeOK, widths, codes, locals
    <2>2. first_codes[w] + counts[w] <= code'
      <3>1. CASE ~WideEnough(w)
        <4>1. w < min_width
          BY <1>3, <1>4, <3>1 DEF WideEnough
        <4>2. counts[w] = 0
          BY <1>4, <1>7, <4>1 DEF BookInv, Bounded
        <4> QED
          BY <1>4, <1>5, <1>8, <4>2
      <3>2. CASE ~Found(w, code')
        BY <1>4, <1>5, <1>8, <3>2 DEF Found
      <3> QED
        BY <1>2, <1>10, <3>1, <3>2
    <2>3. Reading'
      BY <1>2, <1>8, <1>10, <2>2 DEF Reading, widths, codes
    <2> QED
      BY <1>6, <2>1, <2>3 DEF IInv, BookInv
  <1> QED
    BY <1>2, <1>9, <1>10

LEMMA EndKeepsInv ==
  ASSUME IInv, NoSymbol \/ NoBit \/ NextSymbol
  PROVE  IInv'
  <1>1. /\ pc \in {"read", "decoded"}
        /\ pc' \in {"invalid_code", "truncated", "ready"}
        /\ pc' = "invalid_code" => pc = "read" /\ width = max_width
        /\ UNCHANGED <<widths, codes, ordered, slots, locals, i>>
        /\ UNCHANGED reader
    BY DEF NoSymbol, NoBit, NextSymbol
  <1>2. /\ Counted' /\ Spared' /\ Laddered' /\ Parted' /\ Bounded' /\ Ordered'
        /\ i' \in Int /\ max_width' \in 0..WidthLimit
    BY <1>1, BookKept
  <1>3. TypeOK'
    BY <1>1, <1>2 DEF IInv, TypeOK, widths, codes, locals, reader
  <1>4. Reading'
    BY <1>1 DEF IInv, BookInv, Reading, widths, codes, reader
  <1> QED
    BY <1>2, <1>3, <1>4 DEF IInv, BookInv
-----------------------------------------------------------------------------
LEMMA NextKeepsInv == IInv /\ [Next]_vars => IInv'
  <1> SUFFICES ASSUME IInv, [Next]_vars PROVE IInv'
    OBVIOUS
  <1>1. CASE Next
    BY <1>1, CountWidthKeepsInv, TakeSlotsKeepsInv, AssignCodesKeepsInv,
       PlaceSymbolKeepsInv, ReadSymbolKeepsInv, ReadBitKeepsInv, EndKeepsInv
       DEF Next, Build
  <1>2. CASE UNCHANGED vars
    <2>1. /\ UNCHANGED <<widths, codes, ordered, slots, locals, i, reader>>
          /\ pc' = pc
      BY <1>2 DEF vars
    <2>2. TypeOK'
      BY <2>1 DEF IInv, TypeOK, widths, codes, locals, reader
    <2>3. CASE pc # "refused"
      <3>1. /\ counted' = counted /\ checked' = checked /\ assigned' = assigned
            /\ placed' = placed
        BY <2>1 DEF counted, checked, assigned, placed
      <3>2. lengths' = lengths /\ counts' = counts
        BY <2>1 DEF widths
      <3>3. \A w, n : Of(w, n)' = Of(w, n) /\ Narrow(n)' = Narrow(n)
        BY <3>2 DEF Of, Narrow
      <3>4. BookInv
        BY <2>3 DEF IInv
      <3>5. Counted' /\ Parted'
        BY <2>1, <3>1, <3>2, <3>3, <3>4
           DEF BookInv, Counted, Parted, codes, locals
      <3>6. Spared' /\ Laddered' /\ Bounded'
        BY <2>1, <3>1, <3>2, <3>4
           DEF BookInv, Spared, Laddered, Bounded, codes, locals
      <3>7. Ordered'
        BY <2>1, <3>1, <3>2, <3>3, <3>4 DEF BookInv, Ordered, codes
      <3>8. Reading'
        BY <2>1, <3>2, <3>4 DEF BookInv, Reading, codes, reader
      <3> QED
        BY <2>2, <3>5, <3>6, <3>7, <3>8 DEF IInv, BookInv
    <2> QED
      BY <2>1, <2>2, <2>3 DEF IInv
  <1> QED
    BY <1>1, <1>2

LEMMA Invariance == Spec => []IInv
  BY InitInv, NextKeepsInv, PTL DEF Spec

(* Types, and with them the ranges of every index into the table.          *)
THEOREM TypeCorrect == Spec => []TypeOK
  <1>1. IInv => TypeOK
    BY DEF IInv
  <1> QED
    BY <1>1, Invariance, PTL

(* Codes handed out and codes left over are all the codes of a width, so   *)
(* none is wider than its width: the shifts of build do not overflow.      *)
THEOREM CodesFitWidths == Spec => []CodesFit
  <1>1. IInv => CodesFit
    <2> SUFFICES ASSUME IInv, built, NEW w \in 1..WidthLimit
                 PROVE  first_codes[w] + counts[w] + spare[w] = Codes[w]
      BY DEF CodesFit
    <2>1. BookInv /\ assigned = WidthLimit
      BY DEF IInv, built, assigned
    <2> QED
      BY <2>1 DEF BookInv, Laddered
  <1> QED
    BY <1>1, Invariance, PTL

(* A symbol is never placed outside the part of the table in use.          *)
THEOREM SlotsInUse == Spec => []SlotInUse
  <1>1. IInv => SlotInUse
    BY NextSlot DEF SlotInUse
  <1> QED
    BY <1>1, Invariance, PTL

(* A symbol is found at the width the input gave it.                       *)
THEOREM SymbolsAtTheirWidth == Spec => []SymbolHasItsWidth
  <1>1. IInv => SymbolHasItsWidth
    BY DEF IInv, BookInv, Reading, SymbolHasItsWidth
  <1> QED
    BY <1>1, Invariance, PTL

(* read_symbol finds a symbol in a complete table whatever bits it reads.  *)
THEOREM CompleteTableDecodes == Spec => []OnlySparseTableInvalid
  <1>1. IInv => OnlySparseTableInvalid
    <2> SUFFICES ASSUME IInv, pc = "invalid_code" PROVE spare[max_width] > 0
      BY DEF OnlySparseTableInvalid
    <2>1. BookInv /\ assigned = WidthLimit /\ max_width \in 0..WidthLimit
      BY DEF IInv, TypeOK, assigned
    <2>2. /\ first_codes[max_width] + counts[max_width] <= code
          /\ code < Codes[max_width]
      BY <2>1 DEF BookInv, Reading
    <2>3. first_codes[max_width] + counts[max_width] + spare[max_width]
            = Codes[max_width]
      BY <2>1 DEF BookInv, Laddered
    <2>4. /\ first_codes[max_width] \in Nat /\ counts[max_width] \in Nat
          /\ spare[max_width] \in Nat /\ code \in Nat
      BY <2>1 DEF IInv, TypeOK
    <2> QED
      BY <2>2, <2>3, <2>4
  <1> QED
    BY <1>1, Invariance, PTL
-----------------------------------------------------------------------------
(* What the table promises: CanonicalCode.                                 *)

(* What the code of each symbol takes of the codes of w bits.              *)
Takes(S, w) == [s \in S |-> Codes[w - lengths[s]]]
ShareAdds(S, w, f) == /\ Adds(f, S, Takes(S, w)) /\ Share(S, w) = f[S]
                      /\ f[{}] = 0

LEMMA CodesNat ==
  /\ \A w \in 0..WidthLimit : Codes[w] \in Nat \ {0}
  /\ Codes[0] = 1 /\ \A w \in 1..WidthLimit : Codes[w] = 2 * Codes[w - 1]
  <1> DEFINE U == {w \in 0..WidthLimit : Codes[w] \in Nat \ {0}}
  <1>1. 0 \in U
    BY CodesAssumption
  <1>2. ASSUME NEW w \in 0..(WidthLimit - 1), w \in U
        PROVE  w + 1 \in U
    <2>1. w + 1 \in 1..WidthLimit /\ (w + 1) - 1 = w /\ w + 1 \in 0..WidthLimit
      OBVIOUS
    <2>2. Codes[w + 1] = 2 * Codes[w]
      BY <2>1, CodesAssumption
    <2> QED
      BY <1>2, <2>1, <2>2
  <1> HIDE DEF U
  <1>3. 0..WidthLimit \subseteq U
    BY <1>1, <1>2, InductionUpTo
  <1> QED
    BY <1>3, CodesAssumption DEF U

LEMMA ShareIsSum ==
  ASSUME NEW w \in 0..WidthLimit, NEW S \in SUBSET SymbolSet,
         \A s \in S : lengths[s] \in 0..w
  PROVE  \E f : ShareAdds(S, w, f)
  <1> DEFINE v == Takes(S, w)
  <1>1. v \in [S -> Nat] /\ \A s \in S : v[s] = Codes[w - lengths[s]]
    <2>1. ASSUME NEW s \in S
          PROVE  Codes[w - lengths[s]] \in Nat
      <3>1. w - lengths[s] \in 0..WidthLimit
        OBVIOUS
      <3> QED
        BY <3>1, CodesNat
    <2> QED
      BY <2>1 DEF Takes
  <1>2. IsFiniteSet(S)
    BY SymbolsFinite
  <1> DEFINE Turn(f) == [s \in SUBSET S |->
                IF s = {} THEN 0
                ELSE Codes[w - lengths[CHOOSE x \in s : TRUE]]
                     + f[s \ {CHOOSE x \in s : TRUE}]]
             g == CHOOSE f : f = Turn(f)
  <1>3. Share(S, w) = g[S]
    BY DEF Share, MapThenSumSet, MapThenFoldSet
  <1> HIDE DEF v
  <1>4. \A f : Sums(f, S, v) <=> f = Turn(f)
    <2> SUFFICES ASSUME NEW f
                 PROVE  Sums(f, S, v) <=> f = Turn(f)
      OBVIOUS
    <2> DEFINE pick(s) == CHOOSE x \in s : TRUE
               left(s) == Codes[w - lengths[pick(s)]] + f[s \ {pick(s)}]
               right(s) == v[pick(s)] + f[s \ {pick(s)}]
    <2>1. ASSUME NEW s \in SUBSET S, s # {}
          PROVE  left(s) = right(s)
      <3>1. pick(s) \in S
        BY <2>1
      <3> HIDE DEF pick
      <3> QED
        BY <1>1, <3>1
    <2> HIDE DEF left, right
    <2>2. [s \in SUBSET S |-> IF s = {} THEN 0 ELSE left(s)]
          = [s \in SUBSET S |-> IF s = {} THEN 0 ELSE right(s)]
      BY <2>1
    <2> QED
      BY <2>2 DEF Sums, left, right
  <1>5. PICK f : Sums(f, S, v)
    BY <1>1, <1>2, SumExists
  <1>6. f = Turn(f)
    BY <1>4, <1>5
  <1>7. g = Turn(g)
    <2> HIDE DEF Turn
    <2> QED
      BY <1>6
  <1> HIDE DEF g, Turn
  <1>8. Sums(g, S, v)
    BY <1>4, <1>7
  <1>9. Adds(g, S, v)
    BY <1>1, <1>2, <1>8, SumAdds
  <1>10. g[{}] = 0
    BY <1>8 DEF Sums
  <1> QED
    BY <1>3, <1>9, <1>10 DEF ShareAdds, v

(* The codes of a width below which a code is taken: twice those that the  *)
(* narrower symbols take of the width before, and one for each of its own. *)
LEMMA ShareGrows ==
  ASSUME NEW w \in 1..WidthLimit, NEW n \in 0..Symbols,
         lengths \in [SymbolSet -> 0..MaxWidth]
  PROVE  /\ Share(Narrow(w - 1) \cup Of(w, n), w)
              = 2 * Share(Narrow(w - 1), w - 1) + Cardinality(Of(w, n))
         /\ Share(Narrow(w - 1), w - 1) \in Nat
  <1> DEFINE T == Narrow(w - 1)
             S == T \cup Of(w, n)
  <1>1. /\ w - 1 \in 0..WidthLimit /\ w \in 0..WidthLimit /\ S \in SUBSET SymbolSet
        /\ T \in SUBSET SymbolSet /\ T \in SUBSET S /\ S \ T = Of(w, n)
        /\ \A s \in T : lengths[s] \in 1..(w - 1)
        /\ \A s \in S \ T : lengths[s] = w
        /\ \A s \in S : lengths[s] \in 0..w
    BY DEF Narrow, Of
  <1> HIDE DEF T, S
  <1>2. PICK f : ShareAdds(S, w, f)
    BY <1>1, ShareIsSum
  <1>3. PICK g : ShareAdds(T, w - 1, g)
    <2>1. \A s \in T : lengths[s] \in 0..(w - 1)
      BY <1>1
    <2> QED
      BY <1>1, <2>1, ShareIsSum
  <1>4. Takes(T, w - 1) \in [T -> Nat]
    <2>1. ASSUME NEW s \in T
          PROVE  Codes[(w - 1) - lengths[s]] \in Nat
      <3>1. (w - 1) - lengths[s] \in 0..WidthLimit
        BY <1>1
      <3> QED
        BY <3>1, CodesNat
    <2> QED
      BY <2>1 DEF Takes
  <1>5. ASSUME NEW s \in T
        PROVE  Takes(S, w)[s] = 2 * Takes(T, w - 1)[s]
    <2>1. /\ w - lengths[s] \in 1..WidthLimit
          /\ (w - lengths[s]) - 1 = (w - 1) - lengths[s]
      BY <1>1
    <2>2. Codes[w - lengths[s]] = 2 * Codes[(w - 1) - lengths[s]]
      BY <2>1, CodesNat
    <2> QED
      BY <1>1, <2>2 DEF Takes
  <1>6. ASSUME NEW s \in S \ T
        PROVE  Takes(S, w)[s] = 1
    <2>1. w - lengths[s] = 0
      BY <1>1
    <2> QED
      BY <2>1, CodesNat DEF Takes
  <1>7. IsFiniteSet(S)
    BY <1>1, SymbolsFinite
  <1>8. /\ Adds(f, S, Takes(S, w)) /\ Adds(g, T, Takes(T, w - 1))
        /\ f[{}] = 0 /\ g[{}] = 0 /\ Share(S, w) = f[S] /\ Share(T, w - 1) = g[T]
    BY <1>2, <1>3 DEF ShareAdds
  <1>9. f[S] = 2 * g[T] + Cardinality(S \ T)
    <2> DEFINE v == Takes(S, w) u == Takes(T, w - 1)
    <2>1. u \in [T -> Nat] /\ Adds(f, S, v) /\ Adds(g, T, u)
      BY <1>4, <1>8
    <2>2. Doubles(v, S, u, T)
      BY <1>5, <1>6 DEF Doubles
    <2> HIDE DEF v, u
    <2>3. SumsDouble(f, S, g, T)
      BY <1>1, <1>7, <1>8, <2>1, <2>2, DoubledSum
    <2> QED
      BY <2>3 DEF SumsDouble
  <1>10. g[T] \in Nat
    BY <1>8 DEF Adds
  <1> QED
    BY <1>1, <1>8, <1>9, <1>10 DEF S, T

(* Share of the symbols of at most w bits.                                 *)
Kraft(w) == Share(Narrow(w), w)

LEMMA KraftGrows ==
  ASSUME lengths \in [SymbolSet -> 0..MaxWidth]
  PROVE  /\ Kraft(0) = 0
         /\ \A w \in 1..WidthLimit :
              Kraft(w) = 2 * Kraft(w - 1) + Cardinality(Of(w, Symbols))
         /\ \A w \in 0..WidthLimit : Kraft(w) \in Nat
  <1>1. Kraft(0) = 0
    <2>1. Narrow(0) = {} /\ {} \in SUBSET SymbolSet /\ 0 \in 0..WidthLimit
      BY DEF Narrow
    <2>2. \A s \in {} : lengths[s] \in 0..0
      OBVIOUS
    <2>3. PICK f : ShareAdds({}, 0, f)
      BY <2>1, <2>2, ShareIsSum
    <2> QED
      BY <2>1, <2>3 DEF ShareAdds, Kraft
  <1>2. ASSUME NEW w \in 1..WidthLimit
        PROVE  /\ Kraft(w) = 2 * Kraft(w - 1) + Cardinality(Of(w, Symbols))
               /\ Kraft(w) \in Nat
    <2>1. Symbols \in 0..Symbols
      OBVIOUS
    <2>2. /\ Share(Narrow(w - 1) \cup Of(w, Symbols), w)
               = 2 * Share(Narrow(w - 1), w - 1) + Cardinality(Of(w, Symbols))
          /\ Share(Narrow(w - 1), w - 1) \in Nat
      BY <2>1, ShareGrows
    <2>3. Narrow(w - 1) \cup Of(w, Symbols) = Narrow(w)
      BY DEF Narrow, Of, SymbolSet
    <2>4. Cardinality(Of(w, Symbols)) \in Nat
      BY OfNat
    <2>5. Kraft(w) = 2 * Kraft(w - 1) + Cardinality(Of(w, Symbols))
      BY <2>2, <2>3, Zenon DEF Kraft
    <2>6. Kraft(w - 1) \in Nat
      BY <2>2 DEF Kraft
    <2> QED
      BY <2>4, <2>5, <2>6
  <1>3. ASSUME NEW w \in 0..WidthLimit, w # 0
        PROVE  w \in 1..WidthLimit
    BY <1>3
  <1>4. ASSUME NEW w \in 0..WidthLimit
        PROVE  Kraft(w) \in Nat
    BY <1>1, <1>2, <1>3
  <1> QED
    BY <1>1, <1>2, <1>4

Laid == pc \notin {"count", "slots", "assign", "refused"}

(* build hands out the codes from the share of the narrower symbols on.    *)
LEMMA CodesAreShares ==
  ASSUME IInv, Laid
  PROVE  /\ \A w \in 0..WidthLimit : first_codes[w] + counts[w] = Kraft(w)
         /\ \A w \in 1..WidthLimit : first_codes[w] = 2 * Kraft(w - 1)
         /\ lengths \in [SymbolSet -> 0..WidthLimit]
  <1>1. /\ BookInv /\ assigned = WidthLimit /\ lengths \in [SymbolSet -> 0..MaxWidth]
        /\ first_codes \in [0..WidthLimit -> Nat] /\ counts \in [0..WidthLimit -> Nat]
    BY DEF IInv, TypeOK, Laid, assigned
  <1>2. /\ Kraft(0) = 0 /\ \A w \in 0..WidthLimit : Kraft(w) \in Nat
        /\ \A w \in 1..WidthLimit :
             Kraft(w) = 2 * Kraft(w - 1) + Cardinality(Of(w, Symbols))
    BY <1>1, KraftGrows
  <1>3. \A w \in 1..WidthLimit :
          first_codes[w] = 2 * (first_codes[w - 1] + counts[w - 1])
    BY <1>1 DEF BookInv, Laddered
  <1>4. \A w \in 1..WidthLimit : counts[w] = Cardinality(Of(w, Symbols))
    BY PartInTable DEF Laid
  <1> DEFINE U == {w \in 0..WidthLimit : first_codes[w] + counts[w] = Kraft(w)}
  <1>5. 0 \in U
    <2>1. first_codes[0] + counts[0] + spare[0] = Codes[0] /\ counts[0] = 0
          /\ spare[0] = 1 /\ Codes[0] = 1
      <3>1. 0 \in 0..assigned
        BY <1>1
      <3>2. first_codes[0] + counts[0] + spare[0] = Codes[0]
        BY <1>1, <3>1 DEF BookInv, Laddered
      <3> QED
        BY <1>1, <3>2, CodesNat DEF BookInv, Counted, Spared
    <2>2. first_codes[0] \in Nat
      BY <1>1
    <2> QED
      BY <1>2, <2>1, <2>2
  <1>6. ASSUME NEW w \in 0..(WidthLimit - 1), w \in U
        PROVE  w + 1 \in U
    <2>1. w + 1 \in 1..WidthLimit /\ (w + 1) - 1 = w /\ w + 1 \in 0..WidthLimit
      OBVIOUS
    <2>2. first_codes[w + 1] = 2 * Kraft(w)
      BY <1>3, <1>6, <2>1
    <2>3. Kraft(w + 1) = 2 * Kraft(w) + counts[w + 1]
      BY <1>2, <1>4, <2>1
    <2> QED
      BY <2>1, <2>2, <2>3
  <1> HIDE DEF U
  <1>7. 0..WidthLimit \subseteq U
    BY <1>5, <1>6, InductionUpTo
  <1>8. \A w \in 0..WidthLimit : first_codes[w] + counts[w] = Kraft(w)
    BY <1>7 DEF U
  <1>9. ASSUME NEW w \in 1..WidthLimit
        PROVE  first_codes[w] = 2 * Kraft(w - 1)
    <2>1. w - 1 \in 0..WidthLimit
      OBVIOUS
    <2> QED
      BY <1>3, <1>8, <2>1
  <1>10. \A s \in SymbolSet : lengths[s] \in 0..WidthLimit
    <2>1. 1 \in 1..WidthLimit
      OBVIOUS
    <2> QED
      BY <2>1, PartInTable DEF Laid
  <1> QED
    BY <1>1, <1>8, <1>9, <1>10

LEMMA CanonicalIs ==
  ASSUME IInv, Laid, NEW s \in Used
  PROVE  /\ lengths[s] \in 1..WidthLimit /\ s \in SymbolSet
         /\ Canonical(s) = first_codes[lengths[s]] + Cardinality(Of(lengths[s], s))
         /\ Canonical(s) \in Nat
  <1> DEFINE w == lengths[s]
  <1>1. /\ w \in 1..WidthLimit /\ s \in SymbolSet /\ s \in 0..Symbols
        /\ lengths \in [SymbolSet -> 0..WidthLimit]
    BY CodesAreShares DEF Used, SymbolSet
  <1>2. Before(s) = Narrow(w - 1) \cup Of(w, s)
    BY <1>1 DEF Before, Used, Narrow, Of, SymbolSet
  <1>3. /\ Share(Narrow(w - 1) \cup Of(w, s), w)
             = 2 * Share(Narrow(w - 1), w - 1) + Cardinality(Of(w, s))
        /\ Share(Narrow(w - 1), w - 1) \in Nat
    <2>1. lengths \in [SymbolSet -> 0..MaxWidth]
      BY DEF IInv, TypeOK
    <2> QED
      BY <1>1, <2>1, ShareGrows
  <1>4. first_codes[w] = 2 * Share(Narrow(w - 1), w - 1)
    BY <1>1, CodesAreShares DEF Kraft
  <1>5. Canonical(s) = Share(Narrow(w - 1) \cup Of(w, s), w)
    BY <1>2 DEF Canonical
  <1>6. Cardinality(Of(w, s)) \in Nat
    BY OfNat
  <1>7. Canonical(s) = first_codes[w] + Cardinality(Of(w, s))
    BY <1>3, <1>4, <1>5
  <1>8. first_codes[w] \in Nat
    BY <1>3, <1>4
  <1> HIDE DEF w
  <1>9. Canonical(s) \in Nat
    BY <1>6, <1>7, <1>8
  <1> QED
    BY <1>1, <1>7, <1>9 DEF w

(* Each place in the part of a width is that of one of its symbols.        *)
LEMMA OfIndex ==
  ASSUME NEW w, NEW k \in 0..(Cardinality(Of(w, Symbols)) - 1)
  PROVE  \E s \in SymbolSet : lengths[s] = w /\ Cardinality(Of(w, s)) = k
  <1> DEFINE Placed(n) == \A j \in 0..(Cardinality(Of(w, n)) - 1) :
               \E s \in SymbolSet : lengths[s] = w /\ Cardinality(Of(w, s)) = j
             U == {n \in 0..Symbols : Placed(n)}
  <1>1. 0 \in U
    BY OfNone
  <1>2. ASSUME NEW n \in 0..(Symbols - 1), n \in U
        PROVE  n + 1 \in U
    <2>1. n \in SymbolSet /\ n + 1 \in 0..Symbols
      BY DEF SymbolSet
    <2>2. CASE lengths[n] = w
      <3>1. Cardinality(Of(w, n + 1)) = Cardinality(Of(w, n)) + 1
        BY <2>1, <2>2, OfNext
      <3>2. Cardinality(Of(w, n)) \in Nat
        BY OfNat
      <3>3. ASSUME NEW j \in 0..(Cardinality(Of(w, n + 1)) - 1)
            PROVE  \E s \in SymbolSet : lengths[s] = w /\ Cardinality(Of(w, s)) = j
        <4>1. CASE j = Cardinality(Of(w, n))
          BY <2>1, <2>2, <4>1
        <4>2. CASE j # Cardinality(Of(w, n))
          <5>1. j \in 0..(Cardinality(Of(w, n)) - 1)
            BY <3>1, <3>2, <4>2
          <5> QED
            BY <1>2, <5>1
        <4> QED
          BY <4>1, <4>2
      <3> QED
        BY <2>1, <3>3
    <2>3. CASE lengths[n] # w
      <3>1. Of(w, n + 1) = Of(w, n)
        BY <2>1, <2>3, OfOther
      <3> QED
        BY <1>2, <2>1, <3>1
    <2> QED
      BY <2>2, <2>3
  <1> HIDE DEF U
  <1>3. 0..Symbols \subseteq U
    BY <1>1, <1>2, InductionUpTo
  <1>4. Symbols \in U
    BY <1>3
  <1> QED
    BY <1>4 DEF U

LEMMA Twice ==
  ASSUME NEW a \in Nat, NEW c \in Nat
  PROVE  a * (2 * c) = 2 * (a * c) /\ a * c \in Nat
  BY SMTT(30)

(* The codes of a width go on, bit for bit, below those of the wider.      *)
LEMMA SharesNest ==
  ASSUME lengths \in [SymbolSet -> 0..MaxWidth], NEW u \in 0..WidthLimit
  PROVE  \A n \in u..WidthLimit : Kraft(u) * Codes[n - u] <= Kraft(n)
  <1>1. /\ \A w \in 0..WidthLimit : Kraft(w) \in Nat
        /\ \A w \in 1..WidthLimit :
             Kraft(w) = 2 * Kraft(w - 1) + Cardinality(Of(w, Symbols))
    BY KraftGrows
  <1> DEFINE m == WidthLimit - u
             U == {d \in 0..m : Kraft(u) * Codes[d] <= Kraft(u + d)}
  <1>2. 0 \in U
    <2>1. Codes[0] = 1 /\ u + 0 = u /\ Kraft(u) \in Nat /\ Kraft(u) * 1 = Kraft(u)
      BY <1>1, CodesNat
    <2> QED
      BY <2>1
  <1>3. ASSUME NEW d \in 0..(m - 1), d \in U
        PROVE  d + 1 \in U
    <2>1. /\ d + 1 \in 1..WidthLimit /\ (d + 1) - 1 = d /\ d + 1 \in 0..m
          /\ u + (d + 1) \in 1..WidthLimit /\ (u + (d + 1)) - 1 = u + d
          /\ u + d \in 0..WidthLimit /\ d \in 0..WidthLimit
      OBVIOUS
    <2>2. Codes[d + 1] = 2 * Codes[d] /\ Codes[d] \in Nat
      BY <2>1, CodesNat
    <2>3. Kraft(u) * Codes[d + 1] = 2 * (Kraft(u) * Codes[d])
          /\ Kraft(u) * Codes[d] \in Nat
      BY <1>1, <2>2, Twice
    <2>4. Kraft(u + (d + 1)) = 2 * Kraft(u + d) + Cardinality(Of(u + (d + 1), Symbols))
      BY <1>1, <2>1
    <2>5. Kraft(u + d) \in Nat /\ Cardinality(Of(u + (d + 1), Symbols)) \in Nat
      BY <1>1, <2>1, OfNat
    <2>6. Kraft(u) * Codes[d] <= Kraft(u + d)
      BY <1>3
    <2>7. Kraft(u) * Codes[d + 1] <= Kraft(u + (d + 1))
      <3> DEFINE a == Kraft(u) * Codes[d] b == Kraft(u + d)
                 c == Cardinality(Of(u + (d + 1), Symbols))
      <3>1. a \in Nat /\ b \in Nat /\ c \in Nat /\ a <= b
        BY <2>3, <2>5, <2>6
      <3> HIDE DEF a, b, c
      <3>2. 2 * a <= 2 * b + c
        BY <3>1
      <3> QED
        BY <2>3, <2>4, <3>2 DEF a, b, c
    <2> QED
      BY <2>1, <2>7
  <1> HIDE DEF U
  <1>4. m \in Nat
    OBVIOUS
  <1> HIDE DEF m
  <1>5. 0..m \subseteq U
    BY <1>2, <1>3, <1>4, InductionUpTo
  <1>6. ASSUME NEW n \in u..WidthLimit
        PROVE  Kraft(u) * Codes[n - u] <= Kraft(n)
    <2>1. n - u \in 0..m /\ u + (n - u) = n
      BY DEF m
    <2> QED
      BY <1>5, <2>1 DEF U
  <1> QED
    BY <1>6

LEMMA BeyondMultiple ==
  ASSUME NEW c \in Nat, NEW d \in Nat \ {0}, NEW q \in Nat, NEW k \in Nat,
         q < k, k * d <= c
  PROVE  c \div d # q
  <1>1. c = d * (c \div d) + (c % d) /\ c % d \in 0..(d - 1)
    BY ModDivision, ModRange
  <1>2. SUFFICES ASSUME c \div d = q PROVE FALSE
    OBVIOUS
  <1>3. c < d * q + d
    <2>1. c = d * q + (c % d) /\ d * q \in Int
      BY <1>1, <1>2
    <2> QED
      BY <1>1, <2>1
  <1>4. d * q + d = (q + 1) * d
    OBVIOUS
  <1>5. (q + 1) * d <= k * d
    <2>1. PICK e \in Nat : k = (q + 1) + e
      <3>1. k - (q + 1) \in Nat /\ k = (q + 1) + (k - (q + 1))
        OBVIOUS
      <3> QED
        BY <3>1
    <2>2. k * d = (q + 1) * d + e * d
      BY <2>1
    <2>3. e * d \in Nat
      OBVIOUS
    <2> QED
      BY <2>2, <2>3
  <1> QED
    BY <1>3, <1>4, <1>5

(* Bits beyond the codes of their width begin with the code of no symbol.  *)
LEMMA NoCodeBegins ==
  ASSUME IInv, Laid, first_codes[width] + counts[width] <= code, NEW s \in Used
  PROVE  ~StartsWith(s)
  <1> SUFFICES ASSUME lengths[s] <= width,
                      code \div Codes[width - lengths[s]] = Canonical(s)
               PROVE  FALSE
    BY DEF StartsWith
  <1> DEFINE u == lengths[s] d == Codes[width - u]
  <1>1. /\ u \in 1..WidthLimit /\ width \in 0..WidthLimit /\ code \in Nat
        /\ width - u \in 0..WidthLimit /\ width \in u..WidthLimit /\ u \in 0..WidthLimit
    <2>1. u \in 1..WidthLimit
      BY CanonicalIs
    <2>2. width \in 0..WidthLimit /\ code \in Nat
      BY DEF IInv, TypeOK
    <2>3. u <= width
      OBVIOUS
    <2> HIDE DEF u
    <2> QED
      BY <2>1, <2>2, <2>3
  <1>2. d \in Nat \ {0}
    BY <1>1, CodesNat
  <1>3. Kraft(u) * d <= code
    <2>1. Kraft(u) * d <= Kraft(width)
      <3>1. lengths \in [SymbolSet -> 0..MaxWidth]
        BY DEF IInv, TypeOK
      <3> QED
        BY <1>1, <3>1, SharesNest
    <2>2. Kraft(width) = first_codes[width] + counts[width]
      BY <1>1, CodesAreShares
    <2>3. Kraft(width) \in Nat /\ Kraft(u) \in Nat
      <3>1. lengths \in [SymbolSet -> 0..MaxWidth]
        BY DEF IInv, TypeOK
      <3> QED
        BY <1>1, <3>1, KraftGrows
    <2> DEFINE p == Kraft(u) * d
    <2>4. p \in Int
      BY <1>2, <2>3
    <2> HIDE DEF d, p
    <2> QED
      BY <1>1, <2>1, <2>2, <2>3, <2>4 DEF p
  <1>4. Canonical(s) < Kraft(u) /\ Kraft(u) \in Nat /\ Canonical(s) \in Nat
    <2>1. /\ Canonical(s) = first_codes[u] + Cardinality(Of(u, s))
          /\ Canonical(s) \in Nat /\ s \in SymbolSet
      BY CanonicalIs
    <2>2. Cardinality(Of(u, s)) < counts[u]
      BY <1>1, <2>1, OfRoom, PartInTable DEF Laid
    <2>3. Kraft(u) = first_codes[u] + counts[u] /\ first_codes[u] \in Nat
          /\ counts[u] \in Nat
      BY <1>1, CodesAreShares DEF IInv, TypeOK
    <2>4. Cardinality(Of(u, s)) \in Nat
      BY OfNat
    <2> HIDE DEF u
    <2> QED
      BY <2>1, <2>2, <2>3, <2>4
  <1>5. code \div d # Canonical(s)
    <2> HIDE DEF d, u
    <2> QED
      BY <1>1, <1>2, <1>3, <1>4, BeyondMultiple
  <1> QED
    BY <1>5

Sound == /\ \A s \in SymbolSet : lengths[s] <= WidthLimit
         /\ Share(Used, WidthLimit) <= Codes[WidthLimit]

(* A symbol is at its place: that of its width, and there behind the       *)
(* symbols before it.                                                      *)
Place(s) == starts[lengths[s]] + Cardinality(Of(lengths[s], s))
InPlace ==
  Laid => \A s \in SymbolSet :
            s < placed /\ lengths[s] # 0 => ordered[Place(s)] = s

(* What was read is beyond the codes of its width, or the code of symbol.  *)
Read ==
  /\ pc \in {"read", "invalid_code", "truncated"} =>
       first_codes[width] + counts[width] <= code
  /\ pc = "decoded" =>
       /\ symbol \in Used /\ lengths[symbol] = width
       /\ code = first_codes[width] + Cardinality(Of(width, symbol))

CanonInv == (pc = "refused" => ~Sound) /\ InPlace /\ Read

LEMMA SoundKept == lengths' = lengths => (Sound' <=> Sound)
  BY DEF Sound, Used, Share, MapThenSumSet, MapThenFoldSet

LEMMA CanonInit == Init => CanonInv
  BY DEF Init, CanonInv, InPlace, Laid, Read

(* build refuses what no table of prefix codes has room for.               *)
LEMMA CountWidthCanon ==
  ASSUME IInv, CountWidth
  PROVE  CanonInv'
  <1>1. i \in SymbolSet /\ lengths \in [SymbolSet -> 0..MaxWidth]
    BY DEF CountWidth, IInv, TypeOK
  <1>2. lengths' = lengths /\ pc' \in {"count", "slots", "refused"}
    BY DEF CountWidth, Refused, widths
  <1>3. pc' = "refused" => lengths[i] > WidthLimit
    BY DEF CountWidth
  <1>4. lengths[i] > WidthLimit => ~Sound
    BY <1>1 DEF Sound
  <1> QED
    BY <1>2, <1>3, <1>4, SoundKept DEF CanonInv, InPlace, Laid, Read

LEMMA UsedIsNarrow ==
  ASSUME lengths \in [SymbolSet -> 0..MaxWidth],
         \A s \in SymbolSet : lengths[s] <= WidthLimit
  PROVE  Used = Narrow(WidthLimit)
  BY DEF Used, Narrow

LEMMA TooManyIsUnsound ==
  ASSUME IInv, pc = "slots", TooMany(counts[i], 2 * open_slots)
  PROVE  ~Sound
  <1>1. /\ BookInv /\ i \in 1..WidthLimit /\ lengths \in [SymbolSet -> 0..MaxWidth]
        /\ counts \in [0..WidthLimit -> Nat] /\ spare \in [0..WidthLimit -> Nat]
        /\ checked = i - 1 /\ counted = Symbols
    BY DEF IInv, TypeOK, checked, counted
  <1>2. /\ Kraft(0) = 0 /\ \A w \in 0..WidthLimit : Kraft(w) \in Nat
        /\ \A w \in 1..WidthLimit :
             Kraft(w) = 2 * Kraft(w - 1) + Cardinality(Of(w, Symbols))
    BY <1>1, KraftGrows
  <1>3. \A w \in 1..WidthLimit : counts[w] = Cardinality(Of(w, Symbols))
    BY <1>1 DEF BookInv, Counted
  <1>4. /\ open_slots = spare[i - 1] /\ spare[0] = 1
        /\ \A w \in 1..(i - 1) : spare[w] = 2 * spare[w - 1] - counts[w]
    BY <1>1 DEF BookInv, Spared
  <1> DEFINE m == i - 1
             U == {w \in 0..m : Kraft(w) + spare[w] = Codes[w]}
  <1>5. 0 \in U
    <2>1. 0 \in 0..m /\ Codes[0] = 1 /\ Kraft(0) = 0 /\ spare[0] = 1
      BY <1>1, <1>2, <1>4, CodesNat
    <2> QED
      BY <2>1
  <1>6. ASSUME NEW w \in 0..(m - 1), w \in U
        PROVE  w + 1 \in U
    <2>1. /\ w + 1 \in 1..m /\ w + 1 \in 1..WidthLimit /\ (w + 1) - 1 = w
          /\ w + 1 \in 0..m /\ w \in 0..WidthLimit
      BY <1>1
    <2>2. Kraft(w + 1) = 2 * Kraft(w) + counts[w + 1]
      BY <1>2, <1>3, <2>1
    <2>3. spare[w + 1] = 2 * spare[w] - counts[w + 1]
      BY <1>4, <2>1
    <2>4. Codes[w + 1] = 2 * Codes[w] /\ Kraft(w) + spare[w] = Codes[w]
      BY <1>6, <2>1, CodesNat
    <2>5. Kraft(w) \in Nat /\ spare[w] \in Nat /\ counts[w + 1] \in Nat
      <3>1. counts[w + 1] \in Nat
        <4>1. w + 1 \in 0..WidthLimit
          BY <2>1
        <4> QED
          BY <1>1, <4>1
      <3> QED
        BY <1>1, <1>2, <2>1, <3>1
    <2>6. Kraft(w + 1) + spare[w + 1] = Codes[w + 1]
      <3>1. (2 * Kraft(w) + counts[w + 1]) + (2 * spare[w] - counts[w + 1])
              = 2 * (Kraft(w) + spare[w])
        BY <2>5
      <3> QED
        BY <2>2, <2>3, <2>4, <3>1
    <2> QED
      BY <2>1, <2>6
  <1>7. m \in Nat /\ m \in 0..m /\ m \in 0..WidthLimit
    BY <1>1
  <1> HIDE DEF U
  <1>8. 0..m \subseteq U
    BY <1>5, <1>6, <1>7, InductionUpTo
  <1>9. Kraft(m) + spare[m] = Codes[m]
    BY <1>7, <1>8 DEF U
  <1>10. Kraft(i) > Codes[i]
    <2>1. Kraft(i) = 2 * Kraft(m) + counts[i] /\ Codes[i] = 2 * Codes[m]
      BY <1>1, <1>2, <1>3, CodesNat
    <2>2. counts[i] > 2 * spare[m]
      BY <1>4 DEF TooMany
    <2>3. Kraft(m) \in Nat /\ spare[m] \in Nat /\ counts[i] \in Nat
      BY <1>1, <1>2, <1>7
    <2> HIDE DEF m
    <2>4. 2 * Kraft(m) + counts[i] > 2 * (Kraft(m) + spare[m])
      BY <2>2, <2>3
    <2> QED
      BY <1>9, <2>1, <2>4
  <1> DEFINE W == {w \in 0..WidthLimit : w >= i => Kraft(w) > Codes[w]}
  <1>11. 0 \in W
    BY <1>1
  <1>12. ASSUME NEW w \in 0..(WidthLimit - 1), w \in W
         PROVE  w + 1 \in W
    <2>1. w + 1 \in 1..WidthLimit /\ (w + 1) - 1 = w /\ w \in 0..WidthLimit
          /\ w + 1 \in 0..WidthLimit
      OBVIOUS
    <2>2. CASE w + 1 = i
      BY <1>10, <2>1, <2>2
    <2>3. CASE w + 1 < i
      BY <1>1, <2>1, <2>3
    <2>4. CASE w + 1 > i
      <3>1. Kraft(w) > Codes[w]
        BY <1>1, <1>12, <2>1, <2>4
      <3>2. Kraft(w + 1) = 2 * Kraft(w) + Cardinality(Of(w + 1, Symbols))
        BY <1>2, <2>1
      <3>3. Kraft(w) \in Nat /\ Codes[w] \in Nat /\ Codes[w + 1] = 2 * Codes[w]
            /\ Cardinality(Of(w + 1, Symbols)) \in Nat
        BY <1>2, <2>1, CodesNat, OfNat
      <3>4. Kraft(w + 1) > Codes[w + 1]
        BY <3>1, <3>2, <3>3
      <3> QED
        BY <2>1, <3>4
    <2> QED
      BY <1>1, <2>1, <2>2, <2>3, <2>4
  <1> HIDE DEF W
  <1>13. 0..WidthLimit \subseteq W
    BY <1>11, <1>12, InductionUpTo
  <1>14. Kraft(WidthLimit) > Codes[WidthLimit]
    <2>1. WidthLimit \in W /\ WidthLimit >= i
      BY <1>1, <1>13
    <2> QED
      BY <2>1 DEF W
  <1> SUFFICES ASSUME Sound PROVE FALSE
    OBVIOUS
  <1>15. Share(Used, WidthLimit) = Kraft(WidthLimit)
    BY <1>1, UsedIsNarrow DEF Sound, Kraft
  <1>16. Kraft(WidthLimit) \in Nat /\ Codes[WidthLimit] \in Nat
    BY <1>2, CodesNat
  <1> QED
    BY <1>14, <1>15, <1>16 DEF Sound

LEMMA TakeSlotsCanon ==
  ASSUME IInv, TakeSlots
  PROVE  CanonInv'
  <1>1. pc = "slots" /\ lengths' = lengths /\ pc' \in {"slots", "assign", "refused"}
    BY DEF TakeSlots, Refused, widths
  <1>2. pc' = "refused" => TooMany(counts[i], 2 * open_slots)
    BY DEF TakeSlots
  <1> QED
    BY <1>1, <1>2, TooManyIsUnsound, SoundKept DEF CanonInv, InPlace, Laid, Read

LEMMA AssignCodesCanon ==
  ASSUME IInv, AssignCodes
  PROVE  CanonInv'
  <1>1. pc = "assign" /\ i \in 1..WidthLimit
    BY DEF AssignCodes, IInv, TypeOK
  <1>2. /\ pc' \in {"assign", "order"}
        /\ pc' = "order" => i = WidthLimit /\ i' = 0
    BY <1>1 DEF AssignCodes
  <1>3. pc' = "order" => placed' = 0
    BY <1>2 DEF placed
  <1>4. \A s \in SymbolSet : ~(s < 0)
    BY DEF SymbolSet
  <1> QED
    BY <1>2, <1>3, <1>4 DEF CanonInv, InPlace, Laid, Read

LEMMA CardinalityUpTo ==
  ASSUME NEW s \in SymbolSet, NEW t \in SymbolSet, s < t, lengths[s] = lengths[t]
  PROVE  Cardinality(Of(lengths[t], s)) < Cardinality(Of(lengths[t], t))
  <1> DEFINE w == lengths[t]
  <1>1. Of(w, s + 1) \in SUBSET Of(w, t) /\ Of(w, t) \in SUBSET SymbolSet
    BY DEF Of, SymbolSet
  <1>2. IsFiniteSet(Of(w, t))
    BY <1>1, SymbolsFinite
  <1>3. Cardinality(Of(w, s + 1)) <= Cardinality(Of(w, t))
    BY <1>1, <1>2, FS_Subset
  <1>4. Cardinality(Of(w, s + 1)) = Cardinality(Of(w, s)) + 1
    BY OfNext
  <1>5. Cardinality(Of(w, s)) \in Nat /\ Cardinality(Of(w, t)) \in Nat
    BY OfNat
  <1> QED
    BY <1>3, <1>4, <1>5

(* No two symbols have the same place, and every place is in the table.    *)
LEMMA PlacesDiffer ==
  ASSUME IInv, Laid, NEW s \in SymbolSet, lengths[s] # 0
  PROVE  /\ Place(s) \in SymbolSet
         /\ \A t \in SymbolSet : s < t /\ lengths[t] # 0 => Place(s) # Place(t)
  <1>0. ASSUME NEW t \in SymbolSet, lengths[t] # 0
        PROVE  /\ lengths[t] \in 1..WidthLimit /\ starts[lengths[t]] \in Nat
               /\ counts[lengths[t]] \in Nat
               /\ Cardinality(Of(lengths[t], t)) \in Nat
               /\ Cardinality(Of(lengths[t], t)) < counts[lengths[t]]
               /\ starts[lengths[t]] + counts[lengths[t]] <= Symbols
               /\ \A v \in 1..WidthLimit :
                    v < lengths[t] => starts[v] + counts[v] <= starts[lengths[t]]
    <2> DEFINE w == lengths[t]
    <2>1. w \in 1..WidthLimit
      <3>1. lengths[t] \in 0..WidthLimit
        BY CodesAreShares
      <3> QED
        BY <1>0, <3>1
    <2>2. /\ counts[w] = Cardinality(Of(w, Symbols))
          /\ starts[w] \in Nat /\ counts[w] \in Nat
          /\ starts[w] + counts[w] <= symbol_count /\ symbol_count \in 0..Symbols
          /\ \A v \in 1..WidthLimit : v < w => starts[v] + counts[v] <= starts[w]
      BY <2>1, PartInTable DEF Laid
    <2>3. Cardinality(Of(w, t)) < Cardinality(Of(w, Symbols)) /\ Cardinality(Of(w, t)) \in Nat
      BY OfRoom, OfNat
    <2> HIDE DEF w
    <2>4. starts[w] + counts[w] <= Symbols
      BY <2>2
    <2> QED
      BY <2>1, <2>2, <2>3, <2>4 DEF w
  <1>1. Place(s) \in SymbolSet
    BY <1>0 DEF Place, SymbolSet
  <1>2. ASSUME NEW t \in SymbolSet, s < t, lengths[t] # 0
        PROVE  Place(s) # Place(t)
    <2> DEFINE v == lengths[s] w == lengths[t]
               j == Cardinality(Of(v, s)) k == Cardinality(Of(w, t))
    <2>1. /\ v \in 1..WidthLimit /\ starts[v] \in Nat /\ counts[v] \in Nat
          /\ j \in Nat /\ j < counts[v]
          /\ \A x \in 1..WidthLimit : x < v => starts[x] + counts[x] <= starts[v]
      BY <1>0
    <2>2. /\ w \in 1..WidthLimit /\ starts[w] \in Nat /\ counts[w] \in Nat
          /\ k \in Nat /\ k < counts[w]
          /\ \A x \in 1..WidthLimit : x < w => starts[x] + counts[x] <= starts[w]
      BY <1>0, <1>2
    <2>3. Place(s) = starts[v] + j /\ Place(t) = starts[w] + k
      BY DEF Place
    <2>4. v = w => j < k
      BY <1>2, CardinalityUpTo
    <2> HIDE DEF v, w, j, k
    <2>5. CASE v = w
      BY <2>1, <2>2, <2>3, <2>4, <2>5
    <2>6. CASE v < w
      <3>1. starts[v] + counts[v] <= starts[w]
        BY <2>1, <2>2, <2>6
      <3> QED
        BY <2>1, <2>2, <2>3, <3>1
    <2>7. CASE w < v
      <3>1. starts[w] + counts[w] <= starts[v]
        BY <2>1, <2>2, <2>7
      <3> QED
        BY <2>1, <2>2, <2>3, <3>1
    <2> QED
      BY <2>1, <2>2, <2>5, <2>6, <2>7
  <1> QED
    BY <1>1, <1>2

LEMMA PlaceSymbolCanon ==
  ASSUME IInv, CanonInv, PlaceSymbol
  PROVE  CanonInv'
  <1> DEFINE l == lengths[i]
  <1>1. /\ pc = "order" /\ i \in SymbolSet /\ Laid
        /\ ordered \in [SymbolSet -> SymbolSet]
    BY DEF PlaceSymbol, IInv, TypeOK, Laid
  <1>2. /\ i' = (IF i = Symbols - 1 THEN 0 ELSE i + 1)
        /\ pc' = (IF i = Symbols - 1 THEN "ready" ELSE "order")
        /\ lengths' = lengths /\ starts' = starts
        /\ IF l = 0 THEN ordered' = ordered
           ELSE ordered' = [ordered EXCEPT ![slots[l]] = i]
    BY DEF PlaceSymbol, widths, codes
  <1>3. placed = i /\ placed' = i + 1 /\ pc' \in {"order", "ready"}
    <2>1. i \in Int
      BY <1>1 DEF SymbolSet
    <2> QED
      BY <1>1, <1>2, <2>1 DEF placed
  <1>4. \A s : Place(s)' = Place(s)
    BY <1>2 DEF Place, Of
  <1>5. l # 0 => slots[l] = Place(i)
    BY <1>1, NextSlot DEF Place
  <1>6. ASSUME NEW s \in SymbolSet, s < i + 1, lengths[s] # 0
        PROVE  ordered'[Place(s)] = s
    <2>1. Place(s) \in SymbolSet
      BY <1>1, <1>6, PlacesDiffer
    <2>2. CASE s = i
      BY <1>1, <1>2, <1>5, <1>6, <2>1, <2>2
    <2>3. CASE s # i
      <3>1. s < i
        BY <1>1, <1>6, <2>3 DEF SymbolSet
      <3>2. ordered[Place(s)] = s
        BY <1>1, <1>3, <1>6, <3>1 DEF CanonInv, InPlace
      <3>3. l # 0 => Place(s) # Place(i)
        BY <1>1, <1>6, <3>1, PlacesDiffer
      <3> HIDE DEF l
      <3> QED
        BY <1>1, <1>2, <1>5, <2>1, <3>2, <3>3
    <2> QED
      BY <2>2, <2>3
  <1>7. InPlace'
    BY <1>2, <1>3, <1>4, <1>6 DEF InPlace
  <1> QED
    BY <1>3, <1>7 DEF CanonInv, Read

(* The table stays as it is while symbols are read.                        *)
LEMMA PlacesKept ==
  ASSUME CanonInv, pc \notin {"count", "slots", "assign", "order", "refused"},
         pc' \notin {"count", "slots", "assign", "order", "refused"},
         UNCHANGED <<widths, codes, ordered>>
  PROVE  InPlace'
  <1>1. lengths' = lengths /\ starts' = starts /\ ordered' = ordered
    BY DEF widths, codes
  <1>2. \A s : Place(s)' = Place(s)
    BY <1>1 DEF Place, Of
  <1>3. Laid /\ placed' = Symbols /\ placed = Symbols
    BY DEF Laid, placed
  <1> QED
    BY <1>1, <1>2, <1>3 DEF CanonInv, InPlace

LEMMA ReadSymbolCanon ==
  ASSUME IInv, CanonInv, ReadSymbol
  PROVE  CanonInv'
  <1>1. /\ pc = "ready" /\ code' = 0 /\ width' = 0 /\ pc' \in {"empty", "read"}
        /\ UNCHANGED <<widths, codes, ordered>>
    BY DEF ReadSymbol
  <1>2. InPlace'
    BY <1>1, PlacesKept
  <1>3. first_codes[0] + counts[0] = 0
    <2>1. Laid /\ lengths \in [SymbolSet -> 0..MaxWidth] /\ 0 \in 0..WidthLimit
      BY <1>1 DEF IInv, TypeOK, Laid
    <2> QED
      BY <2>1, CodesAreShares, KraftGrows
  <1>4. first_codes' = first_codes /\ counts' = counts
    BY <1>1 DEF widths, codes
  <1>5. Read'
    BY <1>1, <1>3, <1>4 DEF Read
  <1> QED
    BY <1>1, <1>2, <1>5 DEF CanonInv

LEMMA ReadBitCanon ==
  ASSUME IInv, CanonInv, ReadBit
  PROVE  CanonInv'
  <1>1. PICK bit \in 0..1 : code' = 2 * code + bit
    BY DEF ReadBit
  <1> DEFINE w == width + 1
  <1>2. /\ pc = "read" /\ width < max_width /\ width' = w /\ Laid
        /\ UNCHANGED <<widths, codes, ordered>>
        /\ \/ /\ Found(w, code')
              /\ symbol' = ordered[starts[w] + (code' - first_codes[w])]
              /\ pc' = "decoded"
           \/ pc' = "read"
    BY DEF ReadBit, Laid
  <1>3. IInv'
    BY ReadBitKeepsInv
  <1>4. InPlace'
    BY <1>2, PlacesKept
  <1>5. /\ first_codes' = first_codes /\ counts' = counts /\ lengths' = lengths
    BY <1>2 DEF widths, codes
  <1>6. CASE pc' = "read"
    <2>1. Read'
      BY <1>3, <1>6 DEF IInv, BookInv, Reading, Read
    <2> QED
      BY <1>4, <1>6, <2>1 DEF CanonInv
  <1>7. CASE pc' = "decoded"
    <2>1. /\ width \in 0..WidthLimit /\ max_width \in 0..WidthLimit /\ code' \in Nat
          /\ counts \in [0..WidthLimit -> Nat] /\ first_codes \in [0..WidthLimit -> Nat]
      <3>1. code \in Nat
        BY DEF IInv, TypeOK
      <3>2. code' \in Nat
        BY <1>1, <3>1
      <3> QED
        BY <3>2 DEF IInv, TypeOK
    <2>2. w \in 1..WidthLimit
      BY <1>2, <2>1
    <2> DEFINE k == code' - first_codes[w]
    <2>3. /\ first_codes[w] \in Nat /\ counts[w] \in Nat
          /\ counts[w] = Cardinality(Of(w, Symbols))
      BY <1>2, <2>1, <2>2, PartInTable DEF Laid
    <2> HIDE DEF w
    <2>4. k \in 0..(Cardinality(Of(w, Symbols)) - 1) /\ code' = first_codes[w] + k
      <3>1. code' >= first_codes[w] /\ k < counts[w]
        BY <1>2, <1>7 DEF Found
      <3> QED
        BY <2>1, <2>3, <3>1
    <2>5. symbol' = ordered[starts[w] + k]
      BY <1>2, <1>7
    <2> HIDE DEF k
    <2>6. PICK s \in SymbolSet : lengths[s] = w /\ Cardinality(Of(w, s)) = k
      BY <2>4, OfIndex
    <2>7. symbol' = s
      <3>1. placed = Symbols /\ s < Symbols /\ lengths[s] # 0
        BY <1>2, <2>2, <2>6 DEF placed, SymbolSet
      <3>2. ordered[Place(s)] = s
        BY <1>2, <3>1 DEF CanonInv, InPlace
      <3> QED
        BY <2>5, <2>6, <3>2 DEF Place
    <2>8. Of(width, symbol)' = Of(w, s) /\ symbol' \in Used'
      BY <1>2, <1>5, <2>2, <2>6, <2>7 DEF Of, Used
    <2>9. Read'
      BY <1>2, <1>5, <1>7, <2>4, <2>6, <2>7, <2>8 DEF Read
    <2> QED
      BY <1>4, <1>7, <2>9 DEF CanonInv
  <1> QED
    BY <1>2, <1>6, <1>7

LEMMA EndCanon ==
  ASSUME CanonInv, NoSymbol \/ NoBit \/ NextSymbol
  PROVE  CanonInv'
  <1>1. /\ pc \in {"read", "decoded"}
        /\ pc' \in {"invalid_code", "truncated", "ready"}
        /\ pc = "decoded" => pc' = "ready"
        /\ UNCHANGED <<widths, codes, ordered>>
        /\ UNCHANGED reader
    BY DEF NoSymbol, NoBit, NextSymbol
  <1>2. InPlace'
    BY <1>1, PlacesKept
  <1>3. Read'
    BY <1>1 DEF CanonInv, Read, widths, codes, reader
  <1> QED
    BY <1>1, <1>2, <1>3 DEF CanonInv

LEMMA NextKeepsCanon == IInv /\ CanonInv /\ [Next]_vars => CanonInv'
  <1> SUFFICES ASSUME IInv, CanonInv, [Next]_vars PROVE CanonInv'
    OBVIOUS
  <1>1. CASE UNCHANGED vars
    <2>1. /\ UNCHANGED <<widths, codes, ordered, i, reader>>
          /\ pc' = pc
      BY <1>1 DEF vars
    <2>2. lengths' = lengths /\ starts' = starts /\ placed' = placed
      BY <2>1 DEF widths, codes, placed
    <2>3. \A s : Place(s)' = Place(s)
      BY <2>2 DEF Place, Of
    <2>4. InPlace'
      BY <2>1, <2>2, <2>3 DEF CanonInv, InPlace, Laid
    <2>5. \A w, n : Of(w, n)' = Of(w, n)
      BY <2>2 DEF Of
    <2>6. Read'
      BY <2>1, <2>5 DEF CanonInv, Read, Used, widths, codes, reader
    <2> QED
      BY <2>1, <2>2, <2>4, <2>6, SoundKept DEF CanonInv
  <1> QED
    BY <1>1, CountWidthCanon, TakeSlotsCanon, AssignCodesCanon, PlaceSymbolCanon,
       ReadSymbolCanon, ReadBitCanon, EndCanon DEF Next, Build

LEMMA CanonInvariance == Spec => [](IInv /\ CanonInv)
  BY Invariance, CanonInit, NextKeepsCanon, PTL DEF Spec

(* build refuses a table exactly if a width is too large or the codes do   *)
(* not suffice, however many symbols there are.                            *)
THEOREM BuildDecides == Spec => []BuildVerdict
  <1>1. ASSUME IInv, CanonInv
        PROVE  BuildVerdict
    <2>1. ASSUME built
          PROVE  Sound
      <3>1. Laid /\ BookInv /\ assigned = WidthLimit
            /\ lengths \in [SymbolSet -> 0..MaxWidth]
        BY <1>1, <2>1 DEF built, Laid, IInv, TypeOK, assigned
      <3>2. \A s \in SymbolSet : lengths[s] <= WidthLimit
        BY <1>1, <3>1, CodesAreShares
      <3>3. Share(Used, WidthLimit) = Kraft(WidthLimit)
        BY <3>1, <3>2, UsedIsNarrow DEF Kraft
      <3>4. Kraft(WidthLimit) = first_codes[WidthLimit] + counts[WidthLimit]
        BY <1>1, <3>1, CodesAreShares
      <3>5. /\ first_codes[WidthLimit] + counts[WidthLimit] + spare[WidthLimit]
                 = Codes[WidthLimit]
            /\ first_codes[WidthLimit] \in Nat /\ counts[WidthLimit] \in Nat
            /\ spare[WidthLimit] \in Nat
        BY <1>1, <3>1 DEF BookInv, Laddered, IInv, TypeOK
      <3>6. Kraft(WidthLimit) <= Codes[WidthLimit]
        BY <3>4, <3>5
      <3> QED
        BY <3>2, <3>3, <3>6 DEF Sound
    <2> QED
      BY <1>1, <2>1 DEF BuildVerdict, CanonInv, Sound
  <1> QED
    BY <1>1, CanonInvariance, PTL

(* read_symbol returns the symbol whose code it read, bit for bit.         *)
THEOREM SymbolsAreCanonical == Spec => []SymbolIsCanonical
  <1>1. ASSUME IInv, CanonInv
        PROVE  SymbolIsCanonical
    <2> SUFFICES ASSUME pc = "decoded"
                 PROVE  lengths[symbol] = width /\ code = Canonical(symbol)
      BY DEF SymbolIsCanonical
    <2>1. Laid
      BY DEF Laid
    <2>2. /\ symbol \in Used /\ lengths[symbol] = width
          /\ code = first_codes[width] + Cardinality(Of(width, symbol))
      BY <1>1 DEF CanonInv, Read
    <2> QED
      BY <1>1, <2>1, <2>2, CanonicalIs
  <1> QED
    BY <1>1, CanonInvariance, PTL

(* It never reads past the end of a code, nor gives one up.                *)
THEOREM CodesNotPassed == Spec => []NoCodePassed
  <1>1. ASSUME IInv, CanonInv
        PROVE  NoCodePassed
    <2> SUFFICES ASSUME pc \in {"read", "invalid_code", "truncated"},
                        NEW s \in Used
                 PROVE  ~StartsWith(s)
      BY DEF NoCodePassed
    <2>1. Laid /\ first_codes[width] + counts[width] <= code
      BY <1>1 DEF Laid, CanonInv, Read
    <2> QED
      BY <1>1, <2>1, NoCodeBegins
  <1> QED
    BY <1>1, CanonInvariance, PTL
=============================================================================
