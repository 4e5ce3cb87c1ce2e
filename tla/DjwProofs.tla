----------------------------- MODULE DjwProofs -----------------------------
(***************************************************************************)
(* Theorems about DjwTokens, its code and DjwSection: whatever tokens are  *)
(* read, no run overflows and every value written is one of the list;      *)
(* tokens are accepted only as the encoding of what is written, and no     *)
(* encoding is refused; and whatever is read, the sectors cover the window *)
(* and an accepted section is whole.                                       *)
(***************************************************************************)
EXTENDS DjwTokenCode, DjwSection, DataLemmas, SequenceTheorems, TLAPS

(* Sequences.                                                              *)
LEMMA RangesGrow ==
  \A j, k \in Nat : j <= k => \A i \in 1..j : i \in 1..k /\ i \in 1..(k + 1)
  OBVIOUS

LEMMA ConcatFacts ==
  ASSUME NEW s \in Seq(Nat), NEW t \in Seq(Nat)
  PROVE  /\ s \o t \in Seq(Nat) /\ Len(s \o t) = Len(s) + Len(t)
         /\ Len(s) \in Nat /\ Len(t) \in Nat
         /\ \A i \in 1..Len(s) : (s \o t)[i] = s[i]
         /\ \A i \in 1..Len(t) : (s \o t)[Len(s) + i] = t[i]
  OBVIOUS

Regrouped(a, b, c) == (a \o b) \o c = a \o (b \o c)
RegroupedTwice(a, b, c, d) == ((a \o b) \o c) \o d = a \o (b \o (c \o d))

LEMMA ConcatRegroups ==
  ASSUME NEW a \in Seq(Nat), NEW b \in Seq(Nat), NEW c \in Seq(Nat)
  PROVE  Regrouped(a, b, c)
  BY ConcatAssociative DEF Regrouped

LEMMA ConcatRegroupsTwice ==
  ASSUME NEW a \in Seq(Nat), NEW b \in Seq(Nat),
         NEW c \in Seq(Nat), NEW d \in Seq(Nat)
  PROVE  RegroupedTwice(a, b, c, d)
  <1>1. a \o b \in Seq(Nat) /\ c \o d \in Seq(Nat)
    BY ConcatFacts
  <1>2. Regrouped(a, b, c \o d) /\ Regrouped(a \o b, c, d)
    BY <1>1, ConcatRegroups
  <1> QED
    BY <1>2, Zenon DEF Regrouped, RegroupedTwice

LEMMA SeqWider ==
  ASSUME NEW S, NEW T, S \subseteq T, NEW s \in Seq(S)
  PROVE  s \in Seq(T)
  <1>1. Len(s) \in Nat /\ s \in [1..Len(s) -> S]
    OBVIOUS
  <1>2. s \in [1..Len(s) -> T]
    BY <1>1
  <1>3. \A n \in Nat : \A f \in [1..n -> T] : f \in Seq(T)
    OBVIOUS
  <1> QED
    BY <1>1, <1>2, <1>3

LEMMA EntryFields ==
  ASSUME NEW e, NEW l, NEW r, NEW o, e = [list |-> l, run |-> r, out |-> o]
  PROVE  e.list = l /\ e.run = r /\ e.out = o
  OBVIOUS
-----------------------------------------------------------------------------
Digit == {0, 1}

(* The lowest digit of a number and what is left of it.                    *)
Low(n) == (n + 1) % 2
High(n) == (n - 1) \div 2

LEMMA Halves ==
  ASSUME NEW n \in Nat \ {0}
  PROVE  Low(n) \in Digit /\ High(n) \in 0..(n - 1) /\ n = 2 * High(n) + Low(n) + 1
  BY DEF Low, High, Digit

LEMMA HalvesOf ==
  ASSUME NEW h \in Nat, NEW d \in Digit
  PROVE  /\ 2 * h + d + 1 \in Nat \ {0}
         /\ Low(2 * h + d + 1) = d /\ High(2 * h + d + 1) = h
  BY DEF Low, High, Digit

DigitsAre ==
  /\ digits \in [Nat -> Seq(Digit)] /\ digits[0] = << >>
  /\ \A n \in Nat \ {0} : digits[n] = <<Low(n)>> \o digits[High(n)]

LEMMA DigitsDefined == DigitsAre
  <1> DEFINE V == [Nat -> Seq(Digit)]
             Turn(f) == [n \in Nat |-> IF n = 0 THEN << >>
                                       ELSE <<Low(n)>> \o f[High(n)]]
             none == [n \in Nat |-> << >>]
             step == [p \in Nat \X V |-> Turn(p[2])]
  <1>1. ASSUME NEW f \in V
        PROVE  Turn(f) \in V
    <2>1. ASSUME NEW n \in Nat \ {0}
          PROVE  <<Low(n)>> \o f[High(n)] \in Seq(Digit)
      <3>1. Low(n) \in Digit /\ High(n) \in Nat
        BY Halves
      <3>2. <<Low(n)>> \in Seq(Digit) /\ f[High(n)] \in Seq(Digit)
        BY <3>1
      <3> QED
        BY <3>2
    <2>2. << >> \in Seq(Digit)
      OBVIOUS
    <2> QED
      BY <2>1, <2>2
  <1> HIDE DEF Turn
  <1>2. none \in V /\ step \in [Nat \X V -> V]
    <2>1. << >> \in Seq(Digit)
      OBVIOUS
    <2> HIDE DEF V
    <2>2. \A p \in Nat \X V : p[2] \in V
      OBVIOUS
    <2>3. step \in [Nat \X V -> V]
      BY <1>1, <2>2
    <2> QED
      BY <2>1, <2>3 DEF V
  <1> HIDE DEF V, none, step
  <1>3. PICK F \in [Nat -> V] : Iterates(F, none, step)
    BY <1>2, Recursion
  <1>4. F[0] = none /\ \A k \in Nat : F[k + 1] = Turn(F[k])
    <2>1. ASSUME NEW k \in Nat
          PROVE  step[<<k, F[k]>>] = Turn(F[k])
      <3>1. F[k] \in V
        OBVIOUS
      <3> QED
        BY <3>1 DEF step
    <2> QED
      BY <1>3, <2>1 DEF Iterates
  <1>5. \A f, n : n \in Nat => Turn(f)[n] = IF n = 0 THEN << >>
                                            ELSE <<Low(n)>> \o f[High(n)]
    BY DEF Turn
  <1>6. \A n \in Nat : none[n] = << >>
    BY DEF none
  <1> DEFINE P == {k \in Nat : \A n \in 0..k : F[k + 1][n] = F[k][n]}
             Q == {k \in Nat : \A n \in 0..k : F[k][n] = F[n][n]}
  <1>7. Nat \subseteq P
    <2>1. 0 \in P
      <3>1. F[0 + 1][0] = << >>
        BY <1>4, <1>5, Zenon, 0 \in Nat
      <3>2. F[0][0] = << >>
        BY <1>4, <1>6
      <3>3. \A n \in 0..0 : n = 0
        OBVIOUS
      <3> QED
        BY <3>1, <3>2, <3>3
    <2>2. ASSUME NEW k \in Nat, k \in P
          PROVE  k + 1 \in P
      <3>1. ASSUME NEW n \in 0..(k + 1)
            PROVE  F[(k + 1) + 1][n] = F[k + 1][n]
        <4>1. F[(k + 1) + 1] = Turn(F[k + 1]) /\ F[k + 1] = Turn(F[k]) /\ n \in Nat
          BY <1>4
        <4>2. CASE n = 0
          BY <1>5, <4>1, <4>2
        <4>3. CASE n # 0
          <5>1. High(n) \in 0..k
            BY <4>3, Halves
          <5>2. F[k + 1][High(n)] = F[k][High(n)]
            BY <2>2, <5>1
          <5>3. /\ Turn(F[k + 1])[n] = <<Low(n)>> \o F[k + 1][High(n)]
                /\ Turn(F[k])[n] = <<Low(n)>> \o F[k][High(n)]
            BY <1>5, <4>1, <4>3
          <5> QED
            BY <4>1, <5>2, <5>3, Zenon
        <4> QED
          BY <4>2, <4>3
      <3> QED
        BY <3>1
    <2> HIDE DEF P
    <2> QED
      BY <2>1, <2>2, Induction
  <1>8. Nat \subseteq Q
    <2>1. 0 \in Q
      OBVIOUS
    <2>2. ASSUME NEW k \in Nat, k \in Q
          PROVE  k + 1 \in Q
      <3>1. ASSUME NEW n \in 0..(k + 1)
            PROVE  F[k + 1][n] = F[n][n]
        <4>1. CASE n = k + 1
          BY <4>1
        <4>2. CASE n # k + 1
          <5>1. n \in 0..k
            BY <4>2
          <5>2. F[k + 1][n] = F[k][n]
            BY <1>7, <5>1
          <5> QED
            BY <2>2, <5>1, <5>2
        <4> QED
          BY <4>1, <4>2
      <3> QED
        BY <3>1
    <2> HIDE DEF Q
    <2> QED
      BY <2>1, <2>2, Induction
  <1> DEFINE g == [n \in Nat |-> F[n][n]]
  <1>9. g \in V
    BY DEF V
  <1>10. \A n \in Nat : g[n] = Turn(g)[n]
    <2> SUFFICES ASSUME NEW n \in Nat PROVE g[n] = Turn(g)[n]
      OBVIOUS
    <2>1. CASE n = 0
      BY <1>4, <1>5, <1>6, <2>1
    <2>2. CASE n # 0
      <3>1. n - 1 \in Nat /\ (n - 1) + 1 = n
        BY <2>2
      <3>2. F[n] = Turn(F[n - 1])
        BY <1>4, <3>1
      <3>3. High(n) \in 0..(n - 1) /\ High(n) \in Nat
        BY <2>2, Halves
      <3>4. F[n - 1][High(n)] = F[High(n)][High(n)]
        BY <1>8, <3>1, <3>3
      <3>5. g[n] = F[n][n] /\ g[High(n)] = F[High(n)][High(n)]
        BY <3>3
      <3>6. /\ Turn(F[n - 1])[n] = <<Low(n)>> \o F[n - 1][High(n)]
            /\ Turn(g)[n] = <<Low(n)>> \o g[High(n)]
        BY <1>5, <2>2
      <3> HIDE DEF g
      <3> QED
        BY <3>2, <3>4, <3>5, <3>6, Zenon
    <2> QED
      BY <2>1, <2>2
  <1>11. g = Turn(g)
    <2>1. Turn(g) \in V
      BY <1>1, <1>9
    <2> HIDE DEF g
    <2> QED
      BY <1>9, <1>10, <2>1 DEF V
  <1>12. digits = CHOOSE f : f = Turn(f)
    BY DEF digits, Turn, Low, High
  <1>13. digits = Turn(digits)
    <2> HIDE DEF g
    <2> QED
      BY <1>11, <1>12, Zenon
  <1>14. \A f : f = Turn(f) => f = g
    <2> SUFFICES ASSUME NEW f, f = Turn(f) PROVE f = g
      OBVIOUS
    <2>0. f = Turn(f)
      OBVIOUS
    <2> DEFINE S == {k \in Nat : \A n \in 0..k : f[n] = g[n]}
    <2> HIDE DEF g
    <2>1. 0 \in S
      <3>1. \A n \in 0..0 : n = 0
        OBVIOUS
      <3>2. f[0] = << >> /\ g[0] = << >>
        BY <1>5, <1>11, <2>0
      <3> QED
        BY <3>1, <3>2
    <2>2. ASSUME NEW k \in Nat, k \in S
          PROVE  k + 1 \in S
      <3>1. ASSUME NEW n \in 0..(k + 1), n # 0
            PROVE  f[n] = g[n]
        <4>1. High(n) \in 0..k /\ n \in Nat
          BY <3>1, Halves
        <4>2. f[High(n)] = g[High(n)]
          BY <2>2, <4>1
        <4> QED
          BY <1>5, <1>11, <2>0, <3>1, <4>1, <4>2
      <3>2. f[0] = g[0]
        BY <2>2
      <3> QED
        BY <3>1, <3>2
    <2> HIDE DEF S
    <2>3. Nat \subseteq S
      BY <2>1, <2>2, Induction
    <2>4. \A n \in Nat : f[n] = g[n]
      BY <2>3 DEF S
    <2>5. f = [n \in Nat |-> f[n]]
      BY <2>0 DEF Turn
    <2>6. g = [n \in Nat |-> g[n]]
      BY DEF g
    <2> QED
      BY <2>4, <2>5, <2>6
  <1>15. digits \in V
    BY <1>9, <1>13, <1>14
  <1> QED
    <2>1. digits[0] = << >>
      BY <1>5, <1>13
    <2>2. ASSUME NEW n \in Nat \ {0}
          PROVE  digits[n] = <<Low(n)>> \o digits[High(n)]
      BY <1>5, <1>13, <2>2
    <2> QED
      BY <1>15, <2>1, <2>2 DEF V, DigitsAre
-----------------------------------------------------------------------------
USE ListAssumption, SizesAssumption, TokensAssumption

(* The lists of the values, each once.                                     *)
Orders == {list \in [Indices -> Listed] :
             /\ \A x \in Listed : \E i \in Indices : list[i] = x
             /\ \A i, j \in Indices : list[i] = list[j] => i = j}

LEMMA SomeIndices ==
  /\ Len(InitialList) \in Nat \ {0} /\ Indices = DOMAIN InitialList
  /\ 1 \in Indices /\ InitialList \in [Indices -> Nat] /\ Listed \subseteq Nat
  /\ InitialList \in Orders
  <1>1. /\ Len(InitialList) \in Nat \ {0} /\ Indices = DOMAIN InitialList
        /\ 1 \in Indices /\ InitialList \in [Indices -> Nat]
    BY DEF Indices
  <1> QED
    BY <1>1 DEF Listed, Orders

LEMMA IndexRange ==
  /\ \A i \in Indices : i \in Nat /\ i > 0 /\ i <= Len(InitialList)
  /\ \A i \in Nat : i > 0 /\ i <= Len(InitialList) => i \in Indices
  <1>1. Len(InitialList) \in Nat
    BY SomeIndices
  <1>2. \A n \in Nat : /\ \A i \in 1..n : i \in Nat /\ i > 0 /\ i <= n
                       /\ \A i \in Nat : i > 0 /\ i <= n => i \in 1..n
    OBVIOUS
  <1> QED
    BY <1>1, <1>2, Zenon DEF Indices

LEMMA OrderSeq ==
  ASSUME NEW list \in Orders
  PROVE  /\ list \in Seq(Nat) /\ list \in Seq(Listed)
         /\ Len(list) = Len(InitialList) /\ Head(list) = list[1]
         /\ \A i \in Indices : list[i] \in Listed
  <1>1. list \in [1..Len(InitialList) -> Listed] /\ Len(InitialList) \in Nat \ {0}
        /\ Listed \subseteq Nat
    BY SomeIndices DEF Orders, Indices
  <1> HIDE DEF Listed
  <1>2. list \in Seq(Listed) /\ list \in Seq(Nat) /\ Len(list) = Len(InitialList)
    <2>1. \A n \in Nat : \A S : \A f \in [1..n -> S] : f \in Seq(S) /\ Len(f) = n
      OBVIOUS
    <2>2. list \in [1..Len(InitialList) -> Nat]
      BY <1>1
    <2> QED
      BY <1>1, <2>1, <2>2
  <1> QED
    BY <1>1, <1>2 DEF Indices

(* The value of a place, moved to the front.                               *)
Moved(list, place) ==
  [i \in Indices |-> IF i = 1 THEN list[place]
                     ELSE IF i <= place THEN list[i - 1] ELSE list[i]]

LEMMA MovedOrder ==
  ASSUME NEW list \in Orders, NEW place \in Indices
  PROVE  Moved(list, place) \in Orders
  <1> DEFINE moved == Moved(list, place)
             From(k) == IF k = 1 THEN place ELSE IF k <= place THEN k - 1 ELSE k
  <1>1. \A i \in Indices : i \in Nat /\ i > 0 /\ i <= Len(InitialList) /\ From(i) \in Indices
    <2>1. \A i \in Indices : i \in Nat /\ i > 0 /\ i <= Len(InitialList)
      BY IndexRange
    <2>2. \A i \in Indices : i # 1 => i - 1 \in Indices
      <3>1. ASSUME NEW i \in Indices, i # 1
            PROVE  i - 1 \in Indices
        <4>1. i \in Nat /\ i > 0 /\ i <= Len(InitialList) /\ Len(InitialList) \in Nat
          BY IndexRange, SomeIndices
        <4>2. i - 1 \in Nat /\ i - 1 > 0 /\ i - 1 <= Len(InitialList)
          BY <3>1, <4>1
        <4> QED
          BY <4>2, IndexRange
      <3> QED
        BY <3>1
    <2> QED
      BY <2>1, <2>2
  <1>2. \A i \in Indices : moved[i] = list[From(i)]
    BY DEF Moved
  <1>0. place \in Nat /\ place > 0 /\ place <= Len(InitialList)
    BY <1>1
  <1>3. \A i, j \in Indices : From(i) = From(j) => i = j
    BY <1>0, <1>1
  <1>4. \A j \in Indices : \E i \in Indices : From(i) = j
    <2> SUFFICES ASSUME NEW j \in Indices PROVE \E i \in Indices : From(i) = j
      OBVIOUS
    <2>1. CASE j = place
      BY <2>1, SomeIndices
    <2>2. CASE j < place
      <3>1. j + 1 \in Indices /\ From(j + 1) = j
        BY <1>1, <2>2 DEF Indices
      <3> QED
        BY <3>1
    <2>3. CASE j > place
      <3>1. From(j) = j
        BY <1>0, <1>1, <2>3
      <3> QED
        BY <3>1
    <2> QED
      BY <1>1, <2>1, <2>2, <2>3
  <1> HIDE DEF From
  <1>5. moved \in [Indices -> Listed]
    <2>1. \A i \in Indices : moved[i] \in Listed
      BY <1>1, <1>2 DEF Orders
    <2>2. moved = [i \in Indices |-> moved[i]]
      BY DEF Moved
    <2> HIDE DEF moved
    <2> QED
      BY <2>1, <2>2
  <1> HIDE DEF moved
  <1>6. ASSUME NEW x \in Listed
        PROVE  \E i \in Indices : moved[i] = x
    <2>1. PICK j \in Indices : list[j] = x
      BY DEF Orders
    <2>2. PICK i \in Indices : From(i) = j
      BY <1>4
    <2> QED
      BY <1>2, <2>1, <2>2
  <1>7. ASSUME NEW i \in Indices, NEW j \in Indices, moved[i] = moved[j]
        PROVE  i = j
    <2>1. From(i) = From(j)
      <3>1. \A a, b \in Indices : list[a] = list[b] => a = b
        BY DEF Orders
      <3> QED
        BY <1>1, <1>2, <1>7, <3>1
    <2> QED
      BY <1>3, <2>1
  <1>8. moved \in Orders
    BY <1>5, <1>6, <1>7 DEF Orders
  <1> QED
    BY <1>8 DEF moved
-----------------------------------------------------------------------------
(* The runs since the last move have written, or are about to write, one   *)
(* value less than the next power of two.                                  *)
RunsWritten ==
  /\ run_exponent <= index + (IF run_remaining # 0 THEN 1 ELSE 0)
  /\ Powers[run_exponent] <= index + run_remaining + 1

IInv == TypeOK /\ RunsWritten /\ ListIsPermutation /\ ValuesListed

LEMMA ListIsNonempty ==
  /\ Len(InitialList) \in Nat \ {0} /\ Indices = DOMAIN InitialList
  /\ 1 \in Indices /\ InitialList \in [Indices -> Nat]
  BY DEF Indices

LEMMA InitInv == Init => IInv
  <1> SUFFICES ASSUME Init PROVE IInv
    OBVIOUS
  <1>1. values = << >> /\ tokens = << >> /\ index = 0
    BY DEF Init, index
  <1>2. TypeOK
    BY <1>1, ListIsNonempty DEF Init, TypeOK
  <1>3. RunsWritten
    BY <1>1, PowersAssumption DEF Init, RunsWritten
  <1>4. ListIsPermutation
    BY ListIsNonempty DEF Init, ListIsPermutation
  <1>5. ValuesListed
    BY <1>1 DEF ValuesListed
  <1> QED
    BY <1>2, <1>3, <1>4, <1>5 DEF IInv

(* A value is appended and the list not touched.                           *)
LEMMA AppendKeepsValues ==
  ASSUME ValuesListed, values \in Seq(Nat), NEW v \in Nat, values' = Append(values, v),
         \/ v \in {InitialList[i] : i \in Indices}
         \/ skip_stride # 0 /\ v = 0
  PROVE  ValuesListed' /\ values' \in Seq(Nat) /\ index' = index + 1 /\ index \in Nat
  <1>1. values' \in Seq(Nat) /\ index' = index + 1 /\ index \in Nat
    BY DEF index
  <1>2. ASSUME NEW n \in 1..(index + 1)
        PROVE  \/ values'[n] \in {InitialList[i] : i \in Indices}
               \/ skip_stride # 0 /\ values'[n] = 0
    <2>1. CASE n = index + 1
      <3>1. values'[n] = v
        BY <2>1 DEF index
      <3> QED
        BY <3>1
    <2>2. CASE n # index + 1
      <3>1. n \in 1..index /\ values'[n] = values[n]
        BY <1>1, <2>2 DEF index
      <3> QED
        BY <3>1 DEF ValuesListed
    <2> QED
      BY <2>1, <2>2
  <1>3. ValuesListed'
    BY <1>1, <1>2 DEF ValuesListed
  <1> QED
    BY <1>1, <1>3

LEMMA ListFacts ==
  ASSUME IInv
  PROVE  /\ mtf \in [Indices -> Nat]
         /\ \A i \in Indices : /\ mtf[i] \in {InitialList[j] : j \in Indices}
                               /\ mtf[i] \in Nat
  <1>1. mtf \in [Indices -> Nat]
    BY DEF IInv, TypeOK, Indices
  <1> QED
    BY <1>1 DEF IInv, ListIsPermutation

LEMMA ImplicitZeroKeepsInv == IInv /\ ImplicitZero => IInv'
  <1> SUFFICES ASSUME IInv, ImplicitZero PROVE IInv'
    OBVIOUS
  <1>1. /\ values' = Append(values, 0) /\ UNCHANGED <<machine, tokens, pc>>
        /\ skip_stride # 0 /\ index < OutputLen
    BY DEF ImplicitZero, Implied
  <1>2. ValuesListed' /\ values' \in Seq(Nat) /\ index' = index + 1 /\ index \in Nat
    BY <1>1, AppendKeepsValues DEF IInv, TypeOK
  <1>3. TypeOK'
    BY <1>1, <1>2 DEF IInv, TypeOK, machine
  <1>4. RunsWritten'
    <2>1. run_exponent' = run_exponent /\ run_remaining' = run_remaining
      BY <1>1 DEF machine
    <2>2. /\ run_exponent \in 0..(OutputLen + 1) /\ run_remaining \in 0..(2 * OutputLen)
          /\ Powers[run_exponent] \in Nat
      BY PowersAssumption DEF IInv, TypeOK
    <2> QED
      BY <1>2, <2>1, <2>2 DEF IInv, RunsWritten
  <1>5. ListIsPermutation'
    BY <1>1 DEF IInv, ListIsPermutation, machine
  <1> QED
    BY <1>2, <1>3, <1>4, <1>5 DEF IInv

LEMMA RepeatFrontKeepsInv == IInv /\ RepeatFront => IInv'
  <1> SUFFICES ASSUME IInv, RepeatFront PROVE IInv'
    OBVIOUS
  <1>1. /\ values' = Append(values, mtf[1]) /\ run_remaining' = run_remaining - 1
        /\ UNCHANGED <<mtf, run_exponent, pending_move, tokens, pc>>
        /\ run_remaining # 0 /\ index < OutputLen
    BY DEF RepeatFront
  <1>2. mtf[1] \in Nat /\ mtf[1] \in {InitialList[i] : i \in Indices}
    BY ListIsNonempty, ListFacts
  <1>3. ValuesListed' /\ values' \in Seq(Nat) /\ index' = index + 1 /\ index \in Nat
    BY <1>1, <1>2, AppendKeepsValues DEF IInv, TypeOK
  <1>4. /\ run_exponent \in 0..(OutputLen + 1) /\ run_remaining \in 0..(2 * OutputLen)
        /\ Powers[run_exponent] \in Nat
    BY PowersAssumption DEF IInv, TypeOK
  <1>5. TypeOK'
    BY <1>1, <1>3, <1>4 DEF IInv, TypeOK
  <1>6. RunsWritten'
    BY <1>1, <1>3, <1>4 DEF IInv, RunsWritten
  <1>7. ListIsPermutation'
    BY <1>1 DEF IInv, ListIsPermutation
  <1> QED
    BY <1>3, <1>5, <1>6, <1>7 DEF IInv

(* promote moves one value to the front and those before it one back.      *)
LEMMA PromotedPermutes ==
  ASSUME IInv, NEW place \in Nat, place < Len(InitialList), mtf' = Promoted(place)
  PROVE  ListIsPermutation' /\ mtf' \in Seq(Nat) /\ Len(mtf') = Len(InitialList)
  <1>1. mtf \in Orders
    <2>1. {mtf[i] : i \in Indices} = Listed
      BY DEF IInv, ListIsPermutation, Listed
    <2>2. mtf \in [Indices -> Listed]
      BY <2>1, ListFacts
    <2>3. \A i, j \in Indices : mtf[i] = mtf[j] => i = j
      BY DEF IInv, ListIsPermutation
    <2> QED
      BY <2>1, <2>2, <2>3 DEF Orders
  <1>2. place + 1 \in Indices
    BY IndexRange
  <1>3. mtf' = Moved(mtf, place + 1)
    BY DEF Promoted, Moved
  <1>4. mtf' \in Orders
    BY <1>1, <1>2, <1>3, MovedOrder
  <1>5. ListIsPermutation'
    <2>1. {mtf'[i] : i \in Indices} = Listed /\ \A i, j \in Indices : mtf'[i] = mtf'[j] => i = j
      BY <1>4 DEF Orders
    <2> QED
      BY <2>1 DEF ListIsPermutation, Listed
  <1> QED
    BY <1>4, <1>5, OrderSeq

LEMMA PromotePendingKeepsInv == IInv /\ PromotePending => IInv'
  <1> SUFFICES ASSUME IInv, PromotePending PROVE IInv'
    OBVIOUS
  <1>1. /\ mtf' = Promoted(pending_move) /\ values' = Append(values, mtf'[1])
        /\ pending_move' = 0 /\ run_remaining = 0
        /\ UNCHANGED <<run_remaining, run_exponent, tokens, pc>>
        /\ index < OutputLen
    BY DEF PromotePending
  <1>2. pending_move \in Nat /\ pending_move < Len(InitialList)
    BY ListIsNonempty DEF IInv, TypeOK
  <1>3. ListIsPermutation' /\ mtf' \in Seq(Nat) /\ Len(mtf') = Len(InitialList)
    BY <1>1, <1>2, PromotedPermutes
  <1>4. mtf'[1] \in Nat /\ mtf'[1] \in {InitialList[i] : i \in Indices}
    <2>1. {mtf'[i] : i \in Indices} = {InitialList[i] : i \in Indices}
      BY <1>3 DEF ListIsPermutation
    <2>2. mtf'[1] \in {mtf'[i] : i \in Indices}
      BY ListIsNonempty
    <2>3. mtf'[1] \in Nat
      BY <1>3, ListIsNonempty
    <2> QED
      BY <2>1, <2>2, <2>3
  <1>5. ValuesListed' /\ values' \in Seq(Nat) /\ index' = index + 1 /\ index \in Nat
    BY <1>1, <1>4, AppendKeepsValues DEF IInv, TypeOK
  <1>6. 0 \in 0..(Len(InitialList) - 1)
    BY ListIsNonempty
  <1>7. TypeOK'
    BY <1>1, <1>3, <1>5, <1>6 DEF IInv, TypeOK
  <1>8. RunsWritten'
    <2>1. /\ run_exponent \in 0..(OutputLen + 1) /\ run_remaining \in 0..(2 * OutputLen)
          /\ Powers[run_exponent] \in Nat
      BY PowersAssumption DEF IInv, TypeOK
    <2> QED
      BY <1>1, <1>5, <2>1 DEF IInv, RunsWritten
  <1> QED
    BY <1>3, <1>5, <1>7, <1>8 DEF IInv

(* The value of an idle machine's next digit.                              *)
LEMMA AmountFits ==
  ASSUME IInv, Idle, NEW token \in 0..1
  PROVE  /\ Amount(token) = (token + 1) * Powers[run_exponent]
         /\ Amount(token) \in 1..(2 * OutputLen) /\ Amount(token) >= Powers[run_exponent]
         /\ 2 * Powers[run_exponent] < Word
         /\ Powers[run_exponent] <= index + 1 /\ index \in Nat
         /\ run_exponent <= index /\ run_exponent \in Nat
         /\ Powers[run_exponent] \in Nat \ {0} /\ index < OutputLen
  <1> DEFINE p == Powers[run_exponent]
  <1>1. /\ run_remaining = 0 /\ index < OutputLen /\ index \in Nat
        /\ run_exponent \in 0..(OutputLen + 1)
    BY DEF IInv, TypeOK, Idle, index
  <1>2. p \in Nat \ {0}
    BY <1>1, PowersAssumption
  <1>3. p <= index + 1 /\ run_exponent <= index
    BY <1>1, <1>2 DEF IInv, RunsWritten
  <1>4. Amount(token) = ((token + 1) * p) % Word
    BY DEF Amount
  <1> HIDE DEF p
  <1>5. (token + 1) * p = p \/ (token + 1) * p = 2 * p
    <2>1. CASE token = 0
      BY <1>2, <2>1
    <2>2. CASE token = 1
      BY <1>2, <2>2
    <2> QED
      BY <2>1, <2>2
  <1>6. p <= OutputLen /\ 2 * p < Word
    BY <1>1, <1>2, <1>3
  <1>7. \A n \in Nat : n < Word => n % Word = n
    BY SMTT(30)
  <1>8. Amount(token) = (token + 1) * p
    <2>1. (token + 1) * p \in Nat /\ (token + 1) * p < Word
      BY <1>2, <1>5, <1>6
    <2> QED
      BY <1>4, <1>7, <2>1
  <1>9. (token + 1) * p \in 1..(2 * OutputLen) /\ (token + 1) * p >= p
    BY <1>2, <1>5, <1>6
  <1> QED
    BY <1>1, <1>2, <1>3, <1>6, <1>8, <1>9 DEF p

LEMMA QueueRunKeepsInv == IInv /\ QueueRun => IInv'
  <1> SUFFICES ASSUME IInv, QueueRun PROVE IInv'
    OBVIOUS
  <1>1. PICK token \in Tokens :
          /\ token <= 1 /\ run_remaining' = run_remaining + Amount(token)
          /\ tokens' = Append(tokens, token)
    BY DEF QueueRun
  <1>2. /\ Idle /\ run_exponent' = run_exponent + 1
        /\ UNCHANGED <<mtf, pending_move, values, pc>> /\ run_remaining = 0
    BY DEF QueueRun, ExponentAfterRun, Idle
  <1>3. token \in 0..1
    BY <1>1, ListIsNonempty
  <1> DEFINE amount == Amount(token)
             p == Powers[run_exponent]
  <1>4. /\ amount \in 1..(2 * OutputLen) /\ amount >= p /\ p <= index + 1
        /\ index \in Nat /\ run_exponent <= index /\ run_exponent \in Nat
        /\ p \in Nat \ {0} /\ index < OutputLen
    BY <1>2, <1>3, AmountFits
  <1> HIDE DEF amount, p
  <1>5. run_remaining' = amount
    BY <1>1, <1>2, <1>4 DEF amount
  <1>6. index' = index
    BY <1>2 DEF index
  <1>7. run_exponent + 1 \in 1..(OutputLen + 1) /\ run_exponent = (run_exponent + 1) - 1
    BY <1>4
  <1>8. Powers[run_exponent + 1] = 2 * p
    BY <1>7, PowersAssumption DEF p
  <1>9. TypeOK'
    <2>1. /\ run_remaining' \in 0..(2 * OutputLen) /\ run_exponent' \in 0..(OutputLen + 1)
          /\ tokens' \in Seq(Tokens)
      BY <1>1, <1>2, <1>4, <1>5, <1>7 DEF IInv, TypeOK
    <2> QED
      BY <1>2, <1>6, <2>1 DEF IInv, TypeOK
  <1>10. RunsWritten'
    <2>1. run_exponent + 1 <= index + 1 /\ 2 * p <= index + amount + 1
      BY <1>4
    <2> QED
      BY <1>2, <1>4, <1>5, <1>6, <1>8, <2>1 DEF RunsWritten
  <1>11. ListIsPermutation' /\ ValuesListed'
    BY <1>2, <1>6 DEF IInv, ListIsPermutation, ValuesListed
  <1> QED
    BY <1>9, <1>10, <1>11 DEF IInv

LEMMA QueueMoveKeepsInv == IInv /\ QueueMove => IInv'
  <1> SUFFICES ASSUME IInv, QueueMove PROVE IInv'
    OBVIOUS
  <1>1. PICK token \in Tokens :
          /\ token > 1 /\ pending_move' = token - 1 /\ tokens' = Append(tokens, token)
    BY DEF QueueMove
  <1>2. /\ run_exponent' = 0 /\ run_remaining = 0
        /\ UNCHANGED <<mtf, run_remaining, values, pc>>
    BY DEF QueueMove, ExponentAfterMove, Idle
  <1>3. pending_move' \in 0..(Len(InitialList) - 1)
    BY <1>1, ListIsNonempty
  <1>4. index' = index /\ index \in Nat
    BY <1>2 DEF index, IInv, TypeOK
  <1>5. TypeOK'
    BY <1>1, <1>2, <1>3, <1>4 DEF IInv, TypeOK
  <1>6. RunsWritten'
    BY <1>2, <1>4, PowersAssumption DEF RunsWritten
  <1>7. ListIsPermutation' /\ ValuesListed'
    BY <1>2, <1>4 DEF IInv, ListIsPermutation, ValuesListed
  <1> QED
    BY <1>5, <1>6, <1>7 DEF IInv

LEMMA EndKeepsInv ==
  ASSUME IInv, UNCHANGED <<machine, values, tokens>>,
         pc' \in {"expand", "done", "no_token", "run_past_end"}
  PROVE  IInv'
  <1>1. /\ UNCHANGED <<mtf, run_remaining, run_exponent, pending_move, values, tokens>>
        /\ index' = index
    BY DEF machine, index
  <1>2. TypeOK'
    BY <1>1 DEF IInv, TypeOK
  <1>3. RunsWritten'
    BY <1>1 DEF IInv, RunsWritten
  <1>4. ListIsPermutation'
    BY <1>1 DEF IInv, ListIsPermutation
  <1>5. ValuesListed'
    BY <1>1 DEF IInv, ValuesListed
  <1> QED
    BY <1>2, <1>3, <1>4, <1>5 DEF IInv
-----------------------------------------------------------------------------
LEMMA NextKeepsInv == IInv /\ [Next]_vars => IInv'
  <1> SUFFICES ASSUME IInv, [Next]_vars PROVE IInv'
    OBVIOUS
  <1>1. CASE NoToken
    BY <1>1, EndKeepsInv DEF NoToken, Ends
  <1>2. CASE Finish
    BY <1>2, EndKeepsInv DEF Finish, Ends
  <1>3. CASE UNCHANGED vars
    <2>1. UNCHANGED <<machine, values, tokens>> /\ pc' = pc
      BY <1>3 DEF vars
    <2> QED
      BY <2>1, EndKeepsInv DEF IInv, TypeOK
  <1> QED
    BY <1>1, <1>2, <1>3, ImplicitZeroKeepsInv, RepeatFrontKeepsInv,
       PromotePendingKeepsInv, QueueRunKeepsInv, QueueMoveKeepsInv DEF Next

LEMMA Invariance == Spec => []IInv
  BY InitInv, NextKeepsInv, PTL DEF Spec

(* Runs and places stay in range for every sequence of tokens.             *)
THEOREM TypeCorrect == Spec => []TypeOK
  <1>1. IInv => TypeOK
    BY DEF IInv
  <1> QED
    BY <1>1, Invariance, PTL

(* The shift of queue loses no bit, and its checks for overflow never      *)
(* fail: a run is at most two longer than twice what is written before it. *)
THEOREM RunsNeverOverflow == Spec => []RunsFit
  <1>1. IInv => RunsFit
    <2>1. 0 \in 0..1
      OBVIOUS
    <2> QED
      BY <2>1, AmountFits DEF RunsFit
  <1> QED
    BY <1>1, Invariance, PTL

(* Moves permute the list.                                                 *)
THEOREM MovesPermute == Spec => []ListIsPermutation
  <1>1. IInv => ListIsPermutation
    BY DEF IInv
  <1> QED
    BY <1>1, Invariance, PTL

(* Every selector names a group, so the tests for InvalidSelector in       *)
(* decode_observed and decode_body never fail.                             *)
THEOREM SelectorsNameGroups == Spec => []ValuesListed
  <1>1. IInv => ValuesListed
    BY DEF IInv
  <1> QED
    BY <1>1, Invariance, PTL
-----------------------------------------------------------------------------
(* What an encoder writes, and what the machine makes of it.               *)

LEMMA DigitFirst ==
  ASSUME NEW d \in Digit, NEW u \in Seq(Digit), NEW t \in Digit
  PROVE  <<d>> \o Append(u, t) = Append(<<d>> \o u, t)
  <1>1. <<d>> \o Append(u, t) \in Seq(Digit) /\ Append(<<d>> \o u, t) \in Seq(Digit)
    OBVIOUS
  <1>2. Len(<<d>> \o Append(u, t)) = Len(u) + 2 /\ Len(Append(<<d>> \o u, t)) = Len(u) + 2
    OBVIOUS
  <1>3. ASSUME NEW i \in 1..(Len(u) + 2)
        PROVE  (<<d>> \o Append(u, t))[i] = Append(<<d>> \o u, t)[i]
    OBVIOUS
  <1> QED
    BY <1>1, <1>2, <1>3

DigitAdded(m, t) ==
  digits[m + (t + 1) * Powers[Len(digits[m])]] = Append(digits[m], t)

(* The next token of a run is its next digit.                              *)
LEMMA DigitsGrow ==
  ASSUME NEW m \in Nat, NEW t \in Digit, Len(digits[m]) <= OutputLen
  PROVE  DigitAdded(m, t)
  <1>1. /\ digits \in [Nat -> Seq(Digit)] /\ digits[0] = << >>
        /\ \A n \in Nat \ {0} : digits[n] = <<Low(n)>> \o digits[High(n)]
    BY DigitsDefined DEF DigitsAre
  <1> DEFINE S == {k \in Nat : \A n \in 0..k : Len(digits[n]) <= OutputLen => DigitAdded(n, t)}
  <1>2. 0 \in S
    <2>1. /\ Len(digits[0]) = 0 /\ Powers[0] = 1 /\ 0 + (t + 1) * 1 = t + 1
          /\ t + 1 \in Nat \ {0}
      <3>1. Len(digits[0]) = 0
        BY <1>1
      <3>2. Powers[0] = 1
        BY PowersAssumption
      <3>3. 0 + (t + 1) * 1 = t + 1 /\ t + 1 \in Nat \ {0}
        BY DEF Digit
      <3> QED
        BY <3>1, <3>2, <3>3
    <2>2. Low(t + 1) = t /\ High(t + 1) = 0
      <3>1. 2 * 0 + t + 1 = t + 1
        BY DEF Digit
      <3> QED
        BY <3>1, HalvesOf
    <2>3. digits[t + 1] = <<t>> \o << >>
      BY <1>1, <2>1, <2>2
    <2>4. DigitAdded(0, t)
      <3>1. Append(<< >>, t) = <<t>> \o << >>
        OBVIOUS
      <3> QED
        BY <1>1, <2>1, <2>3, <3>1, Zenon DEF DigitAdded
    <2>5. \A n \in 0..0 : n = 0
      OBVIOUS
    <2> QED
      BY <2>4, <2>5
  <1>3. ASSUME NEW k \in Nat, k \in S
        PROVE  k + 1 \in S
    <2> SUFFICES ASSUME NEW n \in 0..(k + 1), n # 0, Len(digits[n]) <= OutputLen
                 PROVE  DigitAdded(n, t)
      <3>1. Len(digits[0]) <= OutputLen => DigitAdded(0, t)
        BY <1>2
      <3> QED
        BY <3>1
    <2> DEFINE h == High(n)
               d == Low(n)
               l == Len(digits[h])
               x == h + (t + 1) * Powers[l]
    <2>1. n \in Nat \ {0} /\ h \in 0..k /\ h \in Nat /\ d \in Digit /\ n = 2 * h + d + 1
      BY Halves
    <2>2. digits[h] \in Seq(Digit) /\ digits[n] = <<d>> \o digits[h]
      BY <1>1, <2>1
    <2> HIDE DEF h, d
    <2>3. l \in Nat /\ Len(digits[n]) = l + 1 /\ l + 1 <= OutputLen
      <3>1. Len(<<d>> \o digits[h]) = 1 + Len(digits[h])
        BY <2>1, <2>2
      <3>2. Len(digits[n]) = 1 + Len(digits[h]) /\ Len(digits[h]) \in Nat
        BY <2>2, <3>1
      <3> QED
        BY <3>2
    <2>4. Powers[l + 1] = 2 * Powers[l] /\ Powers[l] \in Nat
      <3>1. l + 1 \in 1..(OutputLen + 1) /\ (l + 1) - 1 = l /\ l \in 0..(OutputLen + 1)
        BY <2>3
      <3> QED
        BY <3>1, PowersAssumption
    <2>5. digits[x] = Append(digits[h], t)
      <3>1. Len(digits[h]) <= OutputLen
        BY <2>3
      <3> HIDE DEF S
      <3>2. DigitAdded(h, t)
        <4>1. \A i \in 0..k : Len(digits[i]) <= OutputLen => DigitAdded(i, t)
          BY <1>3 DEF S
        <4> QED
          BY <2>1, <3>1, <4>1
      <3> QED
        BY <3>2 DEF DigitAdded
    <2>6. x \in Nat /\ n + (t + 1) * Powers[l + 1] = 2 * x + d + 1
      <3>1. (t + 1) * Powers[l] \in Nat /\ (t + 1) * (2 * Powers[l]) = 2 * ((t + 1) * Powers[l])
        BY <2>4 DEF Digit
      <3> DEFINE a == (t + 1) * Powers[l]
      <3>2. n + (t + 1) * Powers[l + 1] = n + 2 * a /\ a \in Nat
        BY <2>4, <3>1
      <3> HIDE DEF a
      <3>3. d \in Nat
        BY <2>1 DEF Digit
      <3>4. n + 2 * a = 2 * (h + a) + d + 1
        BY <2>1, <3>2, <3>3
      <3>5. h + a \in Nat /\ n + (t + 1) * Powers[l + 1] = 2 * (h + a) + d + 1
        BY <2>1, <3>2, <3>4
      <3> QED
        BY <3>5 DEF a, x
    <2> HIDE DEF x, l
    <2>7. digits[2 * x + d + 1] = <<d>> \o digits[x]
      BY <1>1, <2>1, <2>6, HalvesOf
    <2>8. <<d>> \o Append(digits[h], t) = Append(<<d>> \o digits[h], t)
      <3> PICK u \in Seq(Digit) : u = digits[h]
        BY <2>2
      <3>1. <<d>> \o Append(u, t) = Append(<<d>> \o u, t)
        BY <2>1, DigitFirst
      <3> QED
        BY <3>1
    <2> QED
      BY <2>2, <2>3, <2>5, <2>6, <2>7, <2>8 DEF DigitAdded
  <1> HIDE DEF S
  <1>4. Nat \subseteq S
    BY <1>2, <1>3, Induction
  <1>5. m \in S /\ m \in 0..m
    BY <1>4
  <1> QED
    BY <1>5 DEF S

Begins(s, t) == Len(s) <= Len(t) /\ \A i \in 1..Len(s) : s[i] = t[i]

LEMMA BeginsTail ==
  ASSUME NEW c \in Digit, NEW d \in Digit, NEW s \in Seq(Digit), NEW t \in Seq(Digit),
         Begins(<<c>> \o s, <<d>> \o t)
  PROVE  c = d /\ Begins(s, t)
  <1>1. /\ Len(<<c>> \o s) = 1 + Len(s) /\ (<<c>> \o s)[1] = c
        /\ \A i \in 1..Len(s) : (<<c>> \o s)[i + 1] = s[i]
    OBVIOUS
  <1>2. /\ Len(<<d>> \o t) = 1 + Len(t) /\ (<<d>> \o t)[1] = d
        /\ \A i \in 1..Len(t) : (<<d>> \o t)[i + 1] = t[i]
    OBVIOUS
  <1> DEFINE x == <<c>> \o s  y == <<d>> \o t
  <1>3. Len(x) <= Len(y) /\ \A i \in 1..Len(x) : x[i] = y[i]
    BY DEF Begins
  <1> HIDE DEF x, y
  <1>4. Len(s) \in Nat /\ Len(t) \in Nat /\ Len(x) = 1 + Len(s) /\ Len(y) = 1 + Len(t)
        /\ x[1] = c /\ y[1] = d
    BY <1>1, <1>2 DEF x, y
  <1>5. ASSUME NEW i \in 1..Len(s)
        PROVE  s[i] = t[i]
    <2>1. i \in 1..Len(t) /\ i + 1 \in 1..Len(x)
      BY <1>3, <1>4
    <2>2. x[i + 1] = s[i] /\ y[i + 1] = t[i]
      BY <1>1, <1>2, <2>1 DEF x, y
    <2> QED
      BY <1>3, <2>1, <2>2
  <1> QED
    BY <1>3, <1>4, <1>5 DEF Begins

(* Digits that begin those of another number are of a smaller one.         *)
LEMMA DigitsOrdered ==
  ASSUME NEW m \in Nat, NEW n \in Nat, Begins(digits[m], digits[n])
  PROVE  m <= n
  <1>1. /\ digits \in [Nat -> Seq(Digit)] /\ digits[0] = << >>
        /\ \A k \in Nat \ {0} : digits[k] = <<Low(k)>> \o digits[High(k)]
    BY DigitsDefined DEF DigitsAre
  <1> DEFINE S == {k \in Nat : \A a \in 0..k : \A b \in Nat :
                                 Begins(digits[a], digits[b]) => a <= b}
  <1>2. 0 \in S
    OBVIOUS
  <1>3. ASSUME NEW k \in Nat, k \in S
        PROVE  k + 1 \in S
    <2> SUFFICES ASSUME NEW a \in 0..(k + 1), NEW b \in Nat,
                        Begins(digits[a], digits[b]), a # 0
                 PROVE  a <= b
      OBVIOUS
    <2>1. /\ a \in Nat \ {0} /\ High(a) \in 0..k /\ High(a) \in Nat /\ Low(a) \in Digit
          /\ a = 2 * High(a) + Low(a) + 1
      BY Halves
    <2>2. digits[High(a)] \in Seq(Digit) /\ digits[a] = <<Low(a)>> \o digits[High(a)]
      BY <1>1, <2>1
    <2>3. b # 0
      <3>1. Len(digits[a]) = 1 + Len(digits[High(a)]) /\ Len(digits[High(a)]) \in Nat
        BY <2>1, <2>2
      <3>2. Len(digits[0]) = 0
        BY <1>1
      <3>3. Len(digits[a]) <= Len(digits[b])
        BY DEF Begins
      <3> QED
        BY <3>1, <3>2, <3>3
    <2>4. /\ High(b) \in Nat /\ Low(b) \in Digit /\ b = 2 * High(b) + Low(b) + 1
      BY <2>3, Halves
    <2>5. digits[High(b)] \in Seq(Digit) /\ digits[b] = <<Low(b)>> \o digits[High(b)]
      BY <1>1, <2>3, <2>4
    <2>6. Begins(digits[a], digits[b])
      OBVIOUS
    <2>7. Begins(digits[High(a)], digits[High(b)]) /\ Low(a) = Low(b)
      <3>1. Begins(<<Low(a)>> \o digits[High(a)], <<Low(b)>> \o digits[High(b)])
        BY <2>2, <2>5, <2>6, Zenon
      <3> HIDE DEF S
      <3> QED
        BY <2>1, <2>2, <2>4, <2>5, <3>1, BeginsTail
    <2>8. High(a) <= High(b)
      <3> HIDE DEF S
      <3>1. \A i \in 0..k : \A j \in Nat : Begins(digits[i], digits[j]) => i <= j
        BY <1>3 DEF S
      <3> QED
        BY <2>1, <2>4, <2>7, <3>1
    <2> QED
      BY <2>1, <2>4, <2>7, <2>8 DEF Digit
  <1> HIDE DEF S
  <1>4. Nat \subseteq S
    BY <1>2, <1>3, Induction
  <1>5. m \in S /\ m \in 0..m
    BY <1>4
  <1> QED
    BY <1>5 DEF S

LEMMA PlaceFound ==
  ASSUME NEW list \in Orders, NEW i \in Indices
  PROVE  PlaceIn(list, list[i]) = i
  BY DEF PlaceIn, Orders

(* Taking a value out and putting it in front moves it.                    *)
LEMMA RemovalMoves ==
  ASSUME NEW list \in Orders, NEW place \in Indices
  PROVE  <<list[place]>> \o RemoveAt(list, place) = Moved(list, place)
  <1> DEFINE m == Len(InitialList)
             a == SubSeq(list, 1, place - 1)
             b == SubSeq(list, place + 1, Len(list))
             x == list[place]
  <1>1. /\ list \in Seq(Nat) /\ Len(list) = m /\ m \in Nat \ {0} /\ x \in Nat
        /\ place \in 1..m
    BY OrderSeq, SomeIndices DEF Indices
  <1>2. /\ a \in Seq(Nat) /\ Len(a) = place - 1
        /\ \A i \in 1..(place - 1) : a[i] = list[i]
    BY <1>1
  <1>3. /\ b \in Seq(Nat) /\ Len(b) = m - place
        /\ \A i \in 1..(m - place) : b[i] = list[place + i]
    BY <1>1
  <1>4. RemoveAt(list, place) = a \o b
    BY DEF RemoveAt
  <1> HIDE DEF a, b, x, m
  <1> DEFINE c == a \o b
  <1>5. /\ c \in Seq(Nat) /\ Len(c) = m - 1
        /\ \A i \in 1..(m - 1) : c[i] = IF i < place THEN a[i] ELSE b[i - (place - 1)]
    <2>1. \A s, t \in Seq(Nat) : /\ s \o t \in Seq(Nat) /\ Len(s \o t) = Len(s) + Len(t)
                                 /\ \A i \in 1..(Len(s) + Len(t)) :
                                      (s \o t)[i] = IF i <= Len(s) THEN s[i]
                                                    ELSE t[i - Len(s)]
      OBVIOUS
    <2>2. /\ c \in Seq(Nat) /\ Len(c) = (place - 1) + (m - place)
          /\ \A i \in 1..((place - 1) + (m - place)) :
               c[i] = IF i <= place - 1 THEN a[i] ELSE b[i - (place - 1)]
      <3>1. /\ c \in Seq(Nat) /\ Len(c) = Len(a) + Len(b)
            /\ \A i \in 1..(Len(a) + Len(b)) :
                 c[i] = IF i <= Len(a) THEN a[i] ELSE b[i - Len(a)]
        BY <1>2, <1>3, <2>1
      <3> HIDE DEF c
      <3> QED
        BY <1>2, <1>3, <3>1
    <2>3. (place - 1) + (m - place) = m - 1 /\ \A i \in Nat : i < place <=> i <= place - 1
      BY <1>1
    <2> HIDE DEF c
    <2> QED
      BY <2>2, <2>3
  <1> HIDE DEF c
  <1> DEFINE d == <<x>> \o c
  <1>6. /\ d \in Seq(Nat) /\ Len(d) = m
        /\ \A i \in 1..m : d[i] = IF i = 1 THEN x ELSE c[i - 1]
    BY <1>1, <1>5
  <1> HIDE DEF d
  <1>7. ASSUME NEW i \in 1..m
        PROVE  d[i] = IF i = 1 THEN x ELSE IF i <= place THEN list[i - 1] ELSE list[i]
    <2>1. CASE i = 1
      BY <1>6, <2>1
    <2>2. CASE i # 1
      <3>1. d[i] = c[i - 1] /\ i - 1 \in 1..(m - 1)
        BY <1>1, <1>6, <2>2
      <3>2. CASE i <= place
        <4>1. i - 1 < place /\ i - 1 \in 1..(place - 1)
          BY <1>1, <2>2, <3>2
        <4> QED
          BY <1>2, <1>5, <2>2, <3>1, <3>2, <4>1
      <3>3. CASE ~(i <= place)
        <4>1. /\ ~(i - 1 < place) /\ (i - 1) - (place - 1) \in 1..(m - place)
              /\ place + ((i - 1) - (place - 1)) = i
          BY <1>1, <2>2, <3>3
        <4>2. c[i - 1] = b[(i - 1) - (place - 1)]
          BY <1>5, <3>1, <4>1
        <4>3. b[(i - 1) - (place - 1)] = list[i]
          BY <1>3, <4>1
        <4> QED
          BY <2>2, <3>1, <3>3, <4>2, <4>3
      <3> QED
        BY <3>2, <3>3
    <2> QED
      BY <2>1, <2>2
  <1>8. d = [i \in 1..m |-> d[i]]
    BY <1>6
  <1>9. Moved(list, place) = [i \in 1..m |-> IF i = 1 THEN x
                               ELSE IF i <= place THEN list[i - 1] ELSE list[i]]
    BY DEF Moved, Indices, m, x
  <1>10. d = Moved(list, place)
    BY <1>7, <1>8, <1>9
  <1> QED
    BY <1>4, <1>10 DEF d, c, x

States == [list: Orders, run: Nat, out: Seq(Nat)]

LEMMA DigitTypes ==
  ASSUME NEW n \in Nat
  PROVE  /\ digits[n] \in Seq(Nat) /\ digits[n] \in Seq(Digit)
         /\ \A i \in 1..Len(digits[n]) : digits[n][i] \in Digit
         /\ Len(digits[n]) \in Nat
  <1>1. digits[n] \in Seq(Digit)
    BY DigitsDefined DEF DigitsAre
  <1> QED
    BY <1>1 DEF Digit

LEMMA EncodesRepeat ==
  ASSUME NEW state \in States
  PROVE  /\ EncodeValue(state, state.list[1]) \in States
         /\ EncodeValue(state, state.list[1])
              = [list |-> state.list, run |-> state.run + 1, out |-> state.out]
  <1>1. state.list \in Orders /\ state.run \in Nat /\ state.out \in Seq(Nat)
        /\ state = [list |-> state.list, run |-> state.run, out |-> state.out]
    BY DEF States
  <1>2. Head(state.list) = state.list[1]
    BY <1>1, OrderSeq
  <1>3. EncodeValue(state, state.list[1]) = [state EXCEPT !.run = @ + 1]
    BY <1>2 DEF EncodeValue
  <1>4. [state EXCEPT !.run = @ + 1]
          = [list |-> state.list, run |-> state.run + 1, out |-> state.out]
    <2>1. [state EXCEPT !.run = @ + 1] = [state EXCEPT !.run = state.run + 1]
      OBVIOUS
    <2>2. \A l, r, o, n : [[list |-> l, run |-> r, out |-> o] EXCEPT !.run = n]
                           = [list |-> l, run |-> n, out |-> o]
      OBVIOUS
    <2> QED
      BY <1>1, <2>1, <2>2
  <1> QED
    BY <1>1, <1>3, <1>4 DEF States

LEMMA EncodesMove ==
  ASSUME NEW state \in States, NEW place \in Indices, place # 1
  PROVE  /\ EncodeValue(state, state.list[place]) \in States
         /\ EncodeValue(state, state.list[place])
              = [list |-> Moved(state.list, place), run |-> 0,
                 out |-> state.out \o digits[state.run] \o <<place>>]
  <1>1. state.list \in Orders /\ state.run \in Nat /\ state.out \in Seq(Nat)
    BY DEF States
  <1>2. Head(state.list) = state.list[1] /\ state.list[place] # state.list[1]
    BY <1>1, OrderSeq, SomeIndices DEF Orders
  <1>3. PlaceIn(state.list, state.list[place]) = place
    BY <1>1, PlaceFound
  <1>4. EncodeValue(state, state.list[place])
          = [list |-> Moved(state.list, place), run |-> 0,
             out |-> state.out \o digits[state.run] \o <<place>>]
    BY <1>1, <1>2, <1>3, RemovalMoves, Zenon DEF EncodeValue
  <1>5. Moved(state.list, place) \in Orders
    BY <1>1, MovedOrder
  <1>6. state.out \o digits[state.run] \o <<place>> \in Seq(Nat)
    <2>1. digits[state.run] \in Seq(Nat) /\ place \in Nat
      BY <1>1, DigitTypes DEF Indices
    <2> QED
      BY <1>1, <2>1
  <1> QED
    BY <1>4, <1>5, <1>6 DEF States

(* A value is the one at the front or one behind it.                       *)
LEMMA ValueHasPlace ==
  ASSUME NEW list \in Orders, NEW value \in Listed
  PROVE  value = list[1] \/ \E place \in Indices : place # 1 /\ value = list[place]
  BY DEF Orders

LEMMA EncodeType ==
  ASSUME NEW state \in States, NEW value \in Listed
  PROVE  EncodeValue(state, value) \in States
  <1>1. state.list \in Orders
    BY DEF States
  <1> QED
    BY <1>1, ValueHasPlace, EncodesRepeat, EncodesMove

EncoderAre(v, after) ==
  /\ after \in [0..Len(v) -> States] /\ after[0] = Start
  /\ \A n \in 1..Len(v) : after[n] = IF ImpliedIn(v, n) THEN after[n - 1]
                                     ELSE EncodeValue(after[n - 1], v[n])

LEMMA EncoderDefined ==
  ASSUME NEW v \in Seq(Listed)
  PROVE  EncoderAre(v, Encoder(v))
  <1> DEFINE m == Len(v)
             Turn(f) == [n \in 0..m |-> IF n = 0 THEN Start
                                        ELSE IF ImpliedIn(v, n) THEN f[n - 1]
                                        ELSE EncodeValue(f[n - 1], v[n])]
             step == [p \in Nat \X States |->
                        IF p[1] + 1 \notin 1..m \/ ImpliedIn(v, p[1] + 1) THEN p[2]
                        ELSE EncodeValue(p[2], v[p[1] + 1])]
  <1>1. m \in Nat /\ \A n \in 1..m : v[n] \in Listed
    OBVIOUS
  <1>2. Start \in States
    <2>1. << >> \in Seq(Nat)
      OBVIOUS
    <2> QED
      BY <2>1, SomeIndices DEF Start, States
  <1>3. ASSUME NEW p \in Nat \X States
        PROVE  step[p] \in States
    <2>1. p[1] \in Nat /\ p[2] \in States
      OBVIOUS
    <2> HIDE DEF m
    <2>2. p[1] + 1 \in 1..m => EncodeValue(p[2], v[p[1] + 1]) \in States
      BY <1>1, <2>1, EncodeType
    <2> QED
      BY <2>1, <2>2
  <1>4. step \in [Nat \X States -> States]
    <2>1. step = [p \in Nat \X States |-> step[p]]
      OBVIOUS
    <2> HIDE DEF step
    <2> QED
      BY <1>3, <2>1
  <1>5. PICK f \in [0..m -> States] : IteratesUpTo(f, m, Start, step)
    BY <1>1, <1>2, <1>4, RecursionUpTo
  <1>6. f = [k \in 0..m |-> IF k = 0 THEN Start ELSE step[<<k - 1, f[k - 1]>>]]
    BY <1>5 DEF IteratesUpTo
  <1>7. ASSUME NEW k \in 0..m, k # 0
        PROVE  step[<<k - 1, f[k - 1]>>] = IF ImpliedIn(v, k) THEN f[k - 1]
                                           ELSE EncodeValue(f[k - 1], v[k])
    <2>1. k - 1 \in Nat /\ k - 1 \in 0..m /\ (k - 1) + 1 = k /\ k \in 1..m
      BY <1>1, <1>7
    <2>2. f[k - 1] \in States
      BY <1>5, <2>1
    <2>3. <<k - 1, f[k - 1]>> \in Nat \X States
      BY <2>1, <2>2
    <2> HIDE DEF m
    <2> QED
      BY <2>1, <2>3
  <1> HIDE DEF step
  <1>8. f = Turn(f)
    BY <1>6, <1>7
  <1>9. Encoder(v) = CHOOSE g : g = Turn(g)
    BY DEF Encoder
  <1> DEFINE g == Encoder(v)
  <1> HIDE DEF Turn
  <1>10. g = Turn(g)
    BY <1>8, <1>9, Zenon
  <1> HIDE DEF g
  <1>11. /\ g[0] = Start
         /\ \A n \in 1..m : g[n] = IF ImpliedIn(v, n) THEN g[n - 1]
                                   ELSE EncodeValue(g[n - 1], v[n])
    <2>1. \A h : \A n \in 0..m : Turn(h)[n] = IF n = 0 THEN Start
                                        ELSE IF ImpliedIn(v, n) THEN h[n - 1]
                                        ELSE EncodeValue(h[n - 1], v[n])
      BY DEF Turn
    <2> HIDE DEF m
    <2>2. \A n \in 0..m : g[n] = IF n = 0 THEN Start
                                        ELSE IF ImpliedIn(v, n) THEN g[n - 1]
                                        ELSE EncodeValue(g[n - 1], v[n])
      BY <1>10, <2>1
    <2>3. 0 \in 0..m /\ \A n \in 1..m : n \in 0..m /\ n # 0
      BY <1>1
    <2> QED
      BY <2>2, <2>3
  <1> DEFINE S == {n \in 0..m : g[n] \in States}
  <1>12. 0 \in S
    BY <1>1, <1>2, <1>11
  <1>13. ASSUME NEW n \in 0..(m - 1), n \in S
         PROVE  n + 1 \in S
    <2>1. n + 1 \in 1..m /\ n + 1 \in 0..m /\ (n + 1) - 1 = n /\ g[n] \in States
      BY <1>1, <1>13
    <2>2. EncodeValue(g[n], v[n + 1]) \in States
      BY <1>1, <2>1, EncodeType
    <2>3. g[n + 1] \in States
      BY <1>11, <2>1, <2>2
    <2> QED
      BY <2>1, <2>3
  <1> HIDE DEF S, m
  <1>14. 0..m \subseteq S
    BY <1>1, <1>12, <1>13, InductionUpTo
  <1>15. g \in [0..m -> States]
    <2>1. \A n \in 0..m : g[n] \in States
      BY <1>14 DEF S
    <2>2. g = [n \in 0..m |-> g[n]]
      BY <1>10 DEF Turn
    <2> QED
      BY <2>1, <2>2
  <1> QED
    BY <1>11, <1>15 DEF EncoderAre, m, g

LEMMA BeginsAfter ==
  ASSUME NEW a \in Seq(Nat), NEW s \in Seq(Nat), NEW t \in Seq(Nat),
         Begins(a \o s, a \o t)
  PROVE  Begins(s, t)
  <1> DEFINE x == a \o s  y == a \o t
  <1>1. /\ Len(x) = Len(a) + Len(s) /\ Len(y) = Len(a) + Len(t)
        /\ Len(a) \in Nat /\ Len(s) \in Nat /\ Len(t) \in Nat
        /\ \A i \in 1..Len(s) : x[Len(a) + i] = s[i]
        /\ \A i \in 1..Len(t) : y[Len(a) + i] = t[i]
    BY ConcatFacts
  <1>2. Len(x) <= Len(y) /\ \A i \in 1..Len(x) : x[i] = y[i]
    BY DEF Begins
  <1> HIDE DEF x, y
  <1>3. ASSUME NEW i \in 1..Len(s)
        PROVE  s[i] = t[i]
    <2>1. i \in 1..Len(t) /\ Len(a) + i \in 1..Len(x)
      BY <1>1, <1>2
    <2> QED
      BY <1>1, <1>2, <2>1
  <1> QED
    BY <1>1, <1>2, <1>3 DEF Begins

(* A run that is longer than another is not taken for that and a move.     *)
LEMMA RunBeforeMove ==
  ASSUME NEW a \in Seq(Nat), NEW m \in Nat, NEW n \in Nat, NEW p \in Nat, p >= 2,
         NEW rest \in Seq(Nat),
         Begins(a \o digits[m], a \o (digits[n] \o (<<p>> \o rest)))
  PROVE  m <= n
  <1> DEFINE s == digits[m]  t == digits[n]  u == <<p>> \o rest
  <1>1. /\ s \in Seq(Nat) /\ t \in Seq(Nat) /\ \A i \in 1..Len(s) : s[i] \in Digit
        /\ Len(s) \in Nat /\ Len(t) \in Nat
    BY DigitTypes
  <1>2. u \in Seq(Nat) /\ Len(u) >= 1 /\ Len(u) \in Nat /\ u[1] = p
    OBVIOUS
  <1> HIDE DEF s, t, u
  <1>3. t \o u \in Seq(Nat)
    BY <1>1, <1>2
  <1>4. Begins(s, t \o u)
    <2>1. Begins(a \o s, a \o (t \o u))
      BY DEF s, t, u
    <2> QED
      BY <1>1, <1>3, <2>1, BeginsAfter
  <1>5. /\ \A i \in 1..Len(t) : (t \o u)[i] = t[i]
        /\ (t \o u)[Len(t) + 1] = p
    <2>1. 1 \in 1..Len(u)
      BY <1>2
    <2> QED
      BY <1>1, <1>2, <2>1, ConcatFacts
  <1> DEFINE y == t \o u
  <1>6. \A i \in 1..Len(s) : s[i] = y[i]
    BY <1>4 DEF Begins
  <1> HIDE DEF y
  <1>7. Len(s) <= Len(t)
    <2> SUFFICES ASSUME Len(t) + 1 <= Len(s) PROVE FALSE
      BY <1>1
    <2>1. Len(t) + 1 \in 1..Len(s)
      BY <1>1
    <2>2. s[Len(t) + 1] = y[Len(t) + 1]
      BY <1>6, <2>1, Zenon
    <2>3. y[Len(t) + 1] = p
      BY <1>5 DEF y
    <2>4. s[Len(t) + 1] \in Digit
      BY <1>1, <2>1, Zenon
    <2>5. p \in Digit
      BY <2>2, <2>3, <2>4, Zenon
    <2> QED
      BY <2>5 DEF Digit
  <1>8. Begins(s, t)
    <2>1. \A i \in 1..Len(s) : i \in 1..Len(t)
      BY <1>1, <1>7, RangesGrow, Zenon
    <2>2. \A i \in 1..Len(t) : y[i] = t[i]
      BY <1>5 DEF y
    <2>3. \A i \in 1..Len(s) : s[i] = t[i]
      BY <1>6, <2>1, <2>2, Zenon
    <2> QED
      BY <1>7, <2>3 DEF Begins
  <1> QED
    BY <1>8, DigitsOrdered DEF s, t

(* A run and a move are not taken for a longer run.                        *)
LEMMA MoveBeforeRun ==
  ASSUME NEW a \in Seq(Nat), NEW m \in Nat, NEW n \in Nat, NEW p \in Nat, p >= 2,
         NEW rest \in Seq(Nat),
         Begins(a \o (digits[m] \o <<p>>), a \o (digits[n] \o rest))
  PROVE  n <= m
  <1> DEFINE s == digits[m]  t == digits[n]  one == <<p>>
  <1>1. /\ s \in Seq(Nat) /\ t \in Seq(Nat) /\ \A i \in 1..Len(t) : t[i] \in Digit
        /\ Len(s) \in Nat /\ Len(t) \in Nat
    BY DigitTypes
  <1>2. one \in Seq(Nat) /\ Len(one) = 1 /\ one[1] = p
    OBVIOUS
  <1> HIDE DEF s, t, one
  <1> DEFINE x == s \o one  y == t \o rest
  <1>3. /\ x \in Seq(Nat) /\ y \in Seq(Nat) /\ Len(x) = Len(s) + 1
        /\ Len(y) = Len(t) + Len(rest) /\ Len(rest) \in Nat /\ x[Len(s) + 1] = p
        /\ \A i \in 1..Len(s) : x[i] = s[i]
        /\ \A i \in 1..Len(t) : y[i] = t[i]
    <2>1. 1 \in 1..Len(one)
      BY <1>2
    <2>2. /\ x \in Seq(Nat) /\ Len(x) = Len(s) + Len(one)
          /\ \A i \in 1..Len(s) : x[i] = s[i]
          /\ \A i \in 1..Len(one) : x[Len(s) + i] = one[i]
      BY <1>1, <1>2, ConcatFacts
    <2>3. /\ y \in Seq(Nat) /\ Len(y) = Len(t) + Len(rest) /\ Len(rest) \in Nat
          /\ \A i \in 1..Len(t) : y[i] = t[i]
      BY <1>1, ConcatFacts
    <2> HIDE DEF x, y
    <2> QED
      BY <1>2, <2>1, <2>2, <2>3
  <1>4. Begins(x, y)
    <2>1. Begins(a \o x, a \o y)
      BY DEF s, t, one
    <2> QED
      BY <1>3, <2>1, BeginsAfter
  <1> HIDE DEF x, y
  <1>5. \A i \in 1..Len(x) : x[i] = y[i]
    BY <1>4 DEF Begins
  <1>6. Len(t) <= Len(s)
    <2> SUFFICES ASSUME Len(s) + 1 <= Len(t) PROVE FALSE
      BY <1>1
    <2>1. Len(s) + 1 \in 1..Len(x) /\ Len(s) + 1 \in 1..Len(t)
      BY <1>1, <1>3
    <2>2. t[Len(s) + 1] = p
      BY <1>3, <1>5, <2>1, Zenon
    <2>3. t[Len(s) + 1] \in Digit
      BY <1>1, <2>1, Zenon
    <2>4. p \in Digit
      BY <2>2, <2>3, Zenon
    <2> QED
      BY <2>4 DEF Digit
  <1>7. Begins(t, s)
    <2>1. \A i \in 1..Len(t) : i \in 1..Len(s) /\ i \in 1..(Len(s) + 1)
      BY <1>1, <1>6, RangesGrow, Zenon
    <2>2. \A i \in 1..Len(t) : t[i] = s[i]
      BY <1>3, <1>5, <2>1, Zenon
    <2> QED
      BY <1>6, <2>2 DEF Begins
  <1> QED
    BY <1>7, DigitsOrdered DEF s, t

LEMMA SameMove ==
  ASSUME NEW a \in Seq(Nat), NEW s \in Seq(Nat), NEW p \in Nat, NEW q \in Nat,
         NEW rest \in Seq(Nat),
         Begins(a \o (s \o <<p>>), a \o (s \o (<<q>> \o rest)))
  PROVE  p = q
  <1>1. <<p>> \in Seq(Nat) /\ <<q>> \o rest \in Seq(Nat)
    OBVIOUS
  <1>2. s \o <<p>> \in Seq(Nat) /\ s \o (<<q>> \o rest) \in Seq(Nat)
    BY <1>1
  <1>3. Begins(s \o <<p>>, s \o (<<q>> \o rest))
    BY <1>2, BeginsAfter
  <1>4. Begins(<<p>>, <<q>> \o rest)
    BY <1>1, <1>3, BeginsAfter
  <1>5. Len(<<p>>) = 1 /\ <<p>>[1] = p /\ (<<q>> \o rest)[1] = q
    OBVIOUS
  <1> QED
    BY <1>4, <1>5 DEF Begins
-----------------------------------------------------------------------------
LEMMA EncodersAgree ==
  ASSUME NEW v \in Seq(Listed), NEW w \in Seq(Listed), NEW n \in Nat,
         n <= Len(v), n <= Len(w), \A i \in 1..n : v[i] = w[i]
  PROVE  Encoder(v)[n] = Encoder(w)[n]
  <1> DEFINE S == {k \in 0..n : Encoder(v)[k] = Encoder(w)[k]}
  <1>1. EncoderAre(v, Encoder(v)) /\ EncoderAre(w, Encoder(w))
    BY EncoderDefined
  <1>2. Len(v) \in Nat /\ Len(w) \in Nat
    OBVIOUS
  <1>3. 0 \in S
    BY <1>1 DEF EncoderAre
  <1>4. ASSUME NEW k \in 0..(n - 1), k \in S
        PROVE  k + 1 \in S
    <2>1. /\ k + 1 \in 1..n /\ k + 1 \in 0..n /\ (k + 1) - 1 = k
          /\ k + 1 \in 1..Len(v) /\ k + 1 \in 1..Len(w)
      BY <1>2
    <2>2. ImpliedIn(v, k + 1) <=> ImpliedIn(w, k + 1)
      <3>1. k + 1 > skip_stride /\ skip_stride # 0 => (k + 1) - skip_stride \in 1..n
        BY <2>1
      <3> QED
        BY <3>1 DEF ImpliedIn
    <2>3. v[k + 1] = w[k + 1] /\ Encoder(v)[k] = Encoder(w)[k]
      BY <1>4, <2>1
    <2>4. /\ Encoder(v)[k + 1] = IF ImpliedIn(v, k + 1) THEN Encoder(v)[k]
                                 ELSE EncodeValue(Encoder(v)[k], v[k + 1])
          /\ Encoder(w)[k + 1] = IF ImpliedIn(w, k + 1) THEN Encoder(w)[k]
                                 ELSE EncodeValue(Encoder(w)[k], w[k + 1])
      <3>1. \A i \in 1..Len(v) :
              Encoder(v)[i] = IF ImpliedIn(v, i) THEN Encoder(v)[i - 1]
                              ELSE EncodeValue(Encoder(v)[i - 1], v[i])
        BY <1>1 DEF EncoderAre
      <3>2. \A i \in 1..Len(w) :
              Encoder(w)[i] = IF ImpliedIn(w, i) THEN Encoder(w)[i - 1]
                              ELSE EncodeValue(Encoder(w)[i - 1], w[i])
        BY <1>1 DEF EncoderAre
      <3> QED
        BY <2>1, <3>1, <3>2
    <2>5. Encoder(v)[k + 1] = Encoder(w)[k + 1]
      BY <2>2, <2>3, <2>4, Zenon
    <2> QED
      BY <2>1, <2>5
  <1> HIDE DEF S
  <1>5. 0..n \subseteq S
    BY <1>3, <1>4, InductionUpTo
  <1>6. n \in S
    BY <1>5
  <1> QED
    BY <1>6 DEF S

(* t goes on from a state of the encoder, which will not shorten a run.    *)
GoesOn(t, state) ==
  \E r \in Nat, rest \in Seq(Nat) :
    r >= state.run /\ t = state.out \o (digits[r] \o rest)
RunsOn(t, state) ==
  \E r \in Nat, rest \in Seq(Nat) :
    r > state.run /\ t = state.out \o (digits[r] \o rest)
MovesOn(t, state, place) ==
  \E rest \in Seq(Nat) :
    t = state.out \o (digits[state.run] \o (<<place>> \o rest))

LEMMA AfterRepeat ==
  ASSUME NEW t, NEW state \in States,
         GoesOn(t, EncodeValue(state, state.list[1]))
  PROVE  RunsOn(t, state)
  <1>1. state.run \in Nat
    BY DEF States
  <1>2. /\ EncodeValue(state, state.list[1]).run = state.run + 1
        /\ EncodeValue(state, state.list[1]).out = state.out
    <2>1. EncodeValue(state, state.list[1])
            = [list |-> state.list, run |-> state.run + 1, out |-> state.out]
      BY EncodesRepeat
    <2> QED
      BY <2>1, EntryFields
  <1>3. PICK r \in Nat, rest \in Seq(Nat) :
          r >= state.run + 1 /\ t = state.out \o (digits[r] \o rest)
    BY <1>2 DEF GoesOn
  <1>4. r > state.run
    BY <1>1, <1>3
  <1> QED
    BY <1>3, <1>4 DEF RunsOn

LEMMA MoveFields ==
  ASSUME NEW state \in States, NEW place \in Indices, place # 1
  PROVE  /\ EncodeValue(state, state.list[place]).list = Moved(state.list, place)
         /\ EncodeValue(state, state.list[place]).run = 0
         /\ EncodeValue(state, state.list[place]).out
              = state.out \o digits[state.run] \o <<place>>
  <1> DEFINE o == state.out \o digits[state.run] \o <<place>>
             l == Moved(state.list, place)
             e == EncodeValue(state, state.list[place])
  <1>1. e = [list |-> l, run |-> 0, out |-> o]
    BY EncodesMove
  <1> HIDE DEF o, l, e
  <1>2. e.list = l /\ e.run = 0 /\ e.out = o
    BY <1>1
  <1> QED
    BY <1>2, Zenon DEF e, l, o

LEMMA AfterMove ==
  ASSUME NEW t, NEW state \in States, NEW place \in Indices, place # 1,
         GoesOn(t, EncodeValue(state, state.list[place]))
  PROVE  MovesOn(t, state, place)
  <1>1. state.out \in Seq(Nat) /\ digits[state.run] \in Seq(Nat) /\ place \in Nat
    BY DigitTypes, IndexRange DEF States
  <1>2. EncodeValue(state, state.list[place]).out
          = state.out \o digits[state.run] \o <<place>>
    BY MoveFields, Zenon
  <1>3. PICK r \in Nat, rest \in Seq(Nat) :
          t = (state.out \o digits[state.run] \o <<place>>) \o (digits[r] \o rest)
    BY <1>2 DEF GoesOn
  <1>4. digits[r] \in Seq(Nat)
    BY DigitTypes
  <1> DEFINE a == state.out  b == digits[state.run]  c == <<place>>
             d == digits[r] \o rest
  <1>5. a \in Seq(Nat) /\ b \in Seq(Nat) /\ c \in Seq(Nat) /\ d \in Seq(Nat)
    BY <1>1, <1>4
  <1>6. t = ((a \o b) \o c) \o d
    BY <1>3
  <1> HIDE DEF a, b, c, d
  <1>7. a \o b \in Seq(Nat) /\ c \o d \in Seq(Nat)
    BY <1>5
  <1>8. t = a \o (b \o (c \o d))
    <2>1. RegroupedTwice(a, b, c, d)
      BY <1>5, ConcatRegroupsTwice
    <2> QED
      BY <1>6, <2>1, Zenon DEF RegroupedTwice
  <1>9. t = state.out \o (digits[state.run] \o (<<place>> \o d))
    BY <1>8 DEF a, b, c
  <1> QED
    BY <1>5, <1>9, Zenon DEF MovesOn

LEMMA RunsOrMovesOn ==
  ASSUME NEW t, NEW state \in States,
         \/ RunsOn(t, state)
         \/ \E place \in Indices : MovesOn(t, state, place)
  PROVE  GoesOn(t, state)
  <1>1. state.run \in Nat
    BY DEF States
  <1>2. ASSUME RunsOn(t, state)
        PROVE  GoesOn(t, state)
    <2>1. PICK r \in Nat, rest \in Seq(Nat) :
            r > state.run /\ t = state.out \o (digits[r] \o rest)
      BY <1>2 DEF RunsOn
    <2>2. r >= state.run
      BY <1>1, <2>1
    <2> QED
      BY <2>1, <2>2 DEF GoesOn
  <1>3. ASSUME NEW place \in Indices, MovesOn(t, state, place)
        PROVE  GoesOn(t, state)
    <2>1. PICK rest \in Seq(Nat) :
            t = state.out \o (digits[state.run] \o (<<place>> \o rest))
      BY <1>3 DEF MovesOn
    <2>2. <<place>> \o rest \in Seq(Nat)
      BY IndexRange
    <2>3. state.run >= state.run
      BY <1>1
    <2> QED
      BY <1>1, <2>1, <2>2, <2>3 DEF GoesOn
  <1> QED
    BY <1>2, <1>3

(* What follows from a later state follows from an earlier one.            *)
LEMMA NextOn ==
  ASSUME NEW v \in Seq(Listed), NEW n \in 0..(Len(v) - 1), NEW t,
         GoesOn(t, Encoder(v)[n + 1]), ~ImpliedIn(v, n + 1)
  PROVE  /\ Encoder(v)[n] \in States
         /\ \/ v[n + 1] = Encoder(v)[n].list[1] /\ RunsOn(t, Encoder(v)[n])
            \/ \E place \in Indices : /\ place # 1 /\ v[n + 1] = Encoder(v)[n].list[place]
                                      /\ MovesOn(t, Encoder(v)[n], place)
  <1> DEFINE state == Encoder(v)[n]  value == v[n + 1]
  <1>1. /\ Len(v) \in Nat /\ n + 1 \in 1..Len(v) /\ n \in 0..Len(v) /\ (n + 1) - 1 = n
        /\ value \in Listed
    OBVIOUS
  <1>2. EncoderAre(v, Encoder(v))
    BY EncoderDefined
  <1>3. state \in States /\ Encoder(v)[n + 1] = EncodeValue(state, value)
    BY <1>1, <1>2 DEF EncoderAre
  <1>4. state.list \in Orders
    BY <1>3 DEF States
  <1>5. GoesOn(t, EncodeValue(state, value))
    BY <1>3
  <1> HIDE DEF state, value
  <1>6. CASE value = state.list[1]
    BY <1>3, <1>5, <1>6, AfterRepeat DEF state, value
  <1>7. ASSUME NEW place \in Indices, place # 1, value = state.list[place]
        PROVE  MovesOn(t, state, place)
    BY <1>3, <1>5, <1>7, AfterMove
  <1>8. CASE \E place \in Indices : place # 1 /\ value = state.list[place]
    BY <1>3, <1>7, <1>8 DEF state, value
  <1> QED
    BY <1>1, <1>4, <1>6, <1>8, ValueHasPlace

LEMMA EncodingGoesOn ==
  ASSUME NEW v \in Seq(Listed), NEW n \in 0..Len(v)
  PROVE  GoesOn(Encode(v), Encoder(v)[n])
  <1> DEFINE m == Len(v)
             S == {k \in 0..m : GoesOn(Encode(v), Encoder(v)[m - k])}
  <1>1. EncoderAre(v, Encoder(v))
    BY EncoderDefined
  <1>2. m \in Nat
    OBVIOUS
  <1>3. 0 \in S
    <2> DEFINE state == Encoder(v)[m]
    <2>1. state \in States /\ m - 0 = m
      BY <1>1, <1>2 DEF EncoderAre
    <2>2. state.run \in Nat /\ state.out \in Seq(Nat) /\ state.run >= state.run
      BY <2>1 DEF States
    <2>3. digits[state.run] \o << >> = digits[state.run] /\ << >> \in Seq(Nat)
      BY <2>2, DigitTypes
    <2>4. Encode(v) = state.out \o (digits[state.run] \o << >>)
      BY <2>3 DEF Encode, Encoded
    <2> HIDE DEF state
    <2>5. GoesOn(Encode(v), state)
      BY <2>2, <2>3, <2>4 DEF GoesOn
    <2> QED
      BY <1>2, <2>1, <2>5 DEF state
  <1>4. ASSUME NEW k \in 0..(m - 1), k \in S
        PROVE  k + 1 \in S
    <2> DEFINE i == m - (k + 1)
    <2>1. /\ i \in 0..(Len(v) - 1) /\ i + 1 = m - k /\ k + 1 \in 0..m
          /\ i + 1 \in 1..Len(v) /\ i \in 0..Len(v) /\ (i + 1) - 1 = i
      BY <1>2
    <2>2. GoesOn(Encode(v), Encoder(v)[i + 1])
      BY <1>4, <2>1
    <2> HIDE DEF i
    <2>3. CASE ImpliedIn(v, i + 1)
      <3>1. Encoder(v)[i + 1] = Encoder(v)[i]
        BY <1>1, <2>1, <2>3 DEF EncoderAre
      <3> QED
        BY <2>1, <2>2, <3>1 DEF i
    <2>4. CASE ~ImpliedIn(v, i + 1)
      <3>1. GoesOn(Encode(v), Encoder(v)[i])
        BY <2>1, <2>2, <2>4, NextOn, RunsOrMovesOn
      <3> QED
        BY <2>1, <3>1 DEF i
    <2> QED
      BY <2>3, <2>4
  <1> HIDE DEF S, m
  <1>5. 0..m \subseteq S
    BY <1>2, <1>3, <1>4, InductionUpTo
  <1>6. m - n \in 0..m /\ m - (m - n) = n
    BY <1>2 DEF m
  <1>7. m - n \in S
    BY <1>5, <1>6
  <1> QED
    BY <1>6, <1>7 DEF S

(* The state of an encoder that has been given what is written.            *)
End == Encoder(values)[index]

(* The machine and the encoder agree: the list is the same, and the tokens *)
(* read beyond those of the values written are the run or the move that    *)
(* the machine still holds.                                                *)
Held(state) ==
  /\ mtf = state.list
  /\ pending_move = 0 =>
       /\ tokens = state.out \o digits[state.run + run_remaining]
       /\ run_exponent = Len(digits[state.run + run_remaining])
  /\ pending_move # 0 =>
       /\ run_remaining = 0 /\ run_exponent = 0
       /\ tokens = state.out \o (digits[state.run] \o <<pending_move + 1>>)

ZerosImplied == \A n \in 1..index : ImpliedIn(values, n) => values[n] = 0

(* An encoding that begins with the tokens read is of values that begin    *)
(* with those written.                                                     *)
Agrees(v) == Begins(tokens, Encode(v)) => \A n \in 1..index : values[n] = v[n]

AtEnds ==
  /\ pc = "done" => index = OutputLen /\ FinishClean
  /\ pc = "run_past_end" => index = OutputLen /\ ~FinishClean
  /\ pc = "no_token" => /\ index < OutputLen /\ ~Implied(index)
                        /\ run_remaining = 0 /\ pending_move = 0

CodeInv ==
  /\ values \in Seq(Listed) /\ ZerosImplied /\ Held(End)
  /\ \A v \in Encodable : Agrees(v)
  /\ AtEnds

LEMMA EncodableSeq ==
  ASSUME NEW v \in Encodable
  PROVE  v \in Seq(Listed) /\ Len(v) = OutputLen
  <1>1. v \in [1..OutputLen -> Listed]
    BY DEF Encodable
  <1> HIDE DEF Listed
  <1>2. \A n \in Nat : \A S : \A f \in [1..n -> S] : f \in Seq(S) /\ Len(f) = n
    OBVIOUS
  <1> QED
    BY <1>1, <1>2

LEMMA EncoderStates ==
  ASSUME NEW v \in Seq(Listed), NEW n \in 0..Len(v)
  PROVE  /\ Encoder(v)[n] \in States
         /\ Encoder(v)[n].list \in Orders /\ Encoder(v)[n].run \in Nat
         /\ Encoder(v)[n].out \in Seq(Nat)
  <1>1. Encoder(v)[n] \in States
    BY EncoderDefined DEF EncoderAre
  <1> QED
    BY <1>1 DEF States

LEMMA EndType ==
  ASSUME values \in Seq(Listed)
  PROVE  /\ index \in Nat /\ End \in States
         /\ End.list \in Orders /\ End.run \in Nat /\ End.out \in Seq(Nat)
  <1>1. index \in Nat /\ index \in 0..Len(values)
    BY DEF index
  <1> QED
    BY <1>1, EncoderStates DEF End

LEMMA ImpliedNext ==
  ASSUME values \in Seq(Listed), NEW v \in Seq(Listed), index < Len(v),
         \A n \in 1..index : values[n] = v[n]
  PROVE  ImpliedIn(v, index + 1) <=> Implied(index)
  <1>1. index \in Nat
    BY DEF index
  <1> HIDE DEF index
  <1>2. index + 1 > skip_stride <=> index >= skip_stride
    BY <1>1
  <1>3. skip_stride # 0 /\ index >= skip_stride =>
          (index + 1) - skip_stride = index - skip_stride + 1
          /\ index - skip_stride + 1 \in 1..index
    BY <1>1
  <1> QED
    BY <1>2, <1>3, Zenon DEF ImpliedIn, Implied

LEMMA InitCode == Init => CodeInv
  <1> SUFFICES ASSUME Init PROVE CodeInv
    OBVIOUS
  <1>1. /\ values = << >> /\ tokens = << >> /\ index = 0 /\ mtf = InitialList
        /\ run_remaining = 0 /\ run_exponent = 0 /\ pending_move = 0 /\ pc = "expand"
    BY DEF Init, index
  <1>2. values \in Seq(Listed)
    BY <1>1
  <1>3. End = Start
    <2>1. EncoderAre(values, Encoder(values))
      BY <1>2, EncoderDefined
    <2> QED
      BY <1>1, <2>1 DEF End, EncoderAre
  <1>4. Held(End)
    <2>1. Start.list = InitialList /\ Start.run = 0 /\ Start.out = << >>
      BY DEF Start
    <2>2. digits[0 + 0] = << >> /\ Len(digits[0 + 0]) = 0
      BY DigitsDefined DEF DigitsAre
    <2>3. << >> \o << >> = << >>
      OBVIOUS
    <2> QED
      BY <1>1, <1>3, <2>1, <2>2, <2>3 DEF Held
  <1>5. ZerosImplied /\ \A v \in Encodable : Agrees(v)
    BY <1>1 DEF ZerosImplied, Agrees
  <1>6. AtEnds
    BY <1>1 DEF AtEnds
  <1> QED
    BY <1>2, <1>4, <1>5, <1>6 DEF CodeInv

(* What appending a value does to the encoder.                             *)
LEMMA EncoderAppends ==
  ASSUME values \in Seq(Listed), NEW x \in Listed, values' = Append(values, x)
  PROVE  /\ values' \in Seq(Listed) /\ index' = index + 1 /\ index \in Nat
         /\ \A n \in 1..index : values'[n] = values[n]
         /\ values'[index + 1] = x
         /\ End' = IF Implied(index) THEN End ELSE EncodeValue(End, x)
  <1>1. /\ values' \in Seq(Listed) /\ index' = index + 1 /\ index \in Nat
        /\ Len(values') = index + 1
        /\ \A n \in 1..index : values'[n] = values[n]
        /\ values'[index + 1] = x
    BY DEF index
  <1>2. EncoderAre(values', Encoder(values'))
    BY <1>1, EncoderDefined
  <1>3. Encoder(values')[index] = End
    <2>1. index <= Len(values) /\ index <= Len(values')
      BY <1>1 DEF index
    <2>2. \A n \in 1..index : values[n] = values'[n]
      BY <1>1
    <2>3. Encoder(values)[index] = Encoder(values')[index]
      BY <1>1, <2>1, <2>2, EncodersAgree
    <2> QED
      BY <2>3 DEF End
  <1>4. End' = Encoder(values')[index + 1]
    BY <1>1 DEF End
  <1>5. ImpliedIn(values', index + 1) <=> Implied(index)
    <2>1. \A n \in 1..index : values[n] = values'[n]
      BY <1>1
    <2>2. index < Len(values')
      BY <1>1
    <2> QED
      BY <1>1, <2>1, <2>2, ImpliedNext
  <1>6. Encoder(values')[index + 1] = IF ImpliedIn(values', index + 1)
                                      THEN Encoder(values')[index]
                                      ELSE EncodeValue(Encoder(values')[index], x)
    <2>1. index + 1 \in 1..Len(values') /\ (index + 1) - 1 = index
      BY <1>1
    <2> QED
      BY <1>1, <1>2, <2>1 DEF EncoderAre
  <1>7. End' = IF Implied(index) THEN End ELSE EncodeValue(End, x)
    BY <1>3, <1>4, <1>5, <1>6, Zenon
  <1> QED
    BY <1>1, <1>7

(* What an encoding that begins with the tokens says next.                 *)
LEMMA NextSaid ==
  ASSUME values \in Seq(Listed), mtf = End.list, index < OutputLen,
         NEW v \in Encodable, Agrees(v), Begins(tokens, Encode(v))
  PROVE  /\ ImpliedIn(v, index + 1) <=> Implied(index)
         /\ Encoder(v)[index] = End
         /\ ~Implied(index) =>
              \/ v[index + 1] = mtf[1] /\ RunsOn(Encode(v), End)
              \/ \E place \in Indices : /\ place # 1 /\ v[index + 1] = mtf[place]
                                        /\ MovesOn(Encode(v), End, place)
  <1>1. v \in Seq(Listed) /\ Len(v) = OutputLen
    BY EncodableSeq
  <1>2. \A n \in 1..index : values[n] = v[n]
    BY DEF Agrees
  <1>3. index \in Nat /\ index <= Len(v) /\ index <= Len(values) /\ index < Len(v)
    BY <1>1 DEF index
  <1>4. ImpliedIn(v, index + 1) <=> Implied(index)
    BY <1>1, <1>2, <1>3, ImpliedNext
  <1>5. Encoder(v)[index] = End
    <2>1. Encoder(values)[index] = Encoder(v)[index]
      BY <1>1, <1>2, <1>3, EncodersAgree
    <2> QED
      BY <2>1 DEF End
  <1>6. ASSUME ~Implied(index)
        PROVE  \/ v[index + 1] = mtf[1] /\ RunsOn(Encode(v), End)
               \/ \E place \in Indices : /\ place # 1 /\ v[index + 1] = mtf[place]
                                         /\ MovesOn(Encode(v), End, place)
    <2>1. index \in 0..(Len(v) - 1) /\ index + 1 \in 0..Len(v)
      BY <1>1, <1>3
    <2>2. GoesOn(Encode(v), Encoder(v)[index + 1]) /\ ~ImpliedIn(v, index + 1)
      BY <1>1, <1>4, <1>6, <2>1, EncodingGoesOn
    <2>3. \/ v[index + 1] = Encoder(v)[index].list[1] /\ RunsOn(Encode(v), Encoder(v)[index])
          \/ \E place \in Indices :
               /\ place # 1 /\ v[index + 1] = Encoder(v)[index].list[place]
               /\ MovesOn(Encode(v), Encoder(v)[index], place)
      BY <1>1, <2>1, <2>2, NextOn
    <2> QED
      BY <1>5, <2>3
  <1> QED
    BY <1>4, <1>5, <1>6

(* What a value has to be for the parts that do not say what is held.      *)
LEMMA AppendKeepsCode ==
  ASSUME CodeInv, IInv, pc = "expand", NEW x \in Listed, values' = Append(values, x),
         index < OutputLen, UNCHANGED <<tokens, pc>>, Held(End)',
         Implied(index) => x = 0,
         \A v \in Encodable : Begins(tokens, Encode(v)) => v[index + 1] = x
  PROVE  CodeInv'
  <1>1. /\ values' \in Seq(Listed) /\ index' = index + 1 /\ index \in Nat
        /\ \A n \in 1..index : values'[n] = values[n]
        /\ values'[index + 1] = x
    BY EncoderAppends DEF CodeInv
  <1>2. ASSUME NEW n \in 1..(index + 1), ImpliedIn(values', n)
        PROVE  values'[n] = 0
    <2>1. CASE n = index + 1
      <3>1. Len(values') = index + 1
        BY <1>1 DEF index
      <3>2. Implied(index)
        <4>1. \A k \in 1..index : values[k] = values'[k]
          BY <1>1
        <4>2. index < Len(values')
          BY <1>1, <3>1
        <4>3. ImpliedIn(values', index + 1) <=> Implied(index)
          BY <1>1, <4>1, <4>2, ImpliedNext DEF CodeInv
        <4> QED
          BY <1>2, <2>1, <4>3
      <3> QED
        BY <1>1, <2>1, <3>2
    <2>2. CASE n # index + 1
      <3>1. n \in 1..index
        BY <1>1, <2>2
      <3>2. ImpliedIn(values, n)
        <4>1. skip_stride # 0 /\ n > skip_stride => n - skip_stride \in 1..index
          BY <1>1, <3>1
        <4> QED
          BY <1>1, <1>2, <4>1 DEF ImpliedIn
      <3> QED
        BY <1>1, <3>1, <3>2 DEF CodeInv, ZerosImplied
    <2> QED
      BY <2>1, <2>2
  <1>3. ZerosImplied'
    BY <1>1, <1>2 DEF ZerosImplied
  <1>4. ASSUME NEW v \in Encodable
        PROVE  Agrees(v)'
    <2> SUFFICES ASSUME Begins(tokens, Encode(v))
                 PROVE  \A n \in 1..(index + 1) : values'[n] = v[n]
      BY <1>1 DEF Agrees
    <2>1. v[index + 1] = x
      OBVIOUS
    <2>2. \A n \in 1..index : values[n] = v[n]
      BY DEF CodeInv, Agrees
    <2>3. \A n \in 1..(index + 1) : n = index + 1 \/ n \in 1..index
      BY <1>1
    <2> QED
      BY <1>1, <2>1, <2>2, <2>3, Zenon
  <1>5. AtEnds'
    BY DEF AtEnds
  <1> QED
    BY <1>1, <1>3, <1>4, <1>5 DEF CodeInv

LEMMA ImplicitZeroKeepsCode == CodeInv /\ IInv /\ ImplicitZero => CodeInv'
  <1> SUFFICES ASSUME CodeInv, IInv, ImplicitZero PROVE CodeInv'
    OBVIOUS
  <1>1. /\ values' = Append(values, 0) /\ UNCHANGED <<machine, tokens, pc>>
        /\ pc = "expand" /\ index < OutputLen /\ Implied(index)
    BY DEF ImplicitZero
  <1>2. values \in Seq(Listed) /\ index \in Nat
    BY EndType DEF CodeInv
  <1>3. 0 \in Listed
    <2>1. index - skip_stride + 1 \in 1..index
      BY <1>1, <1>2 DEF Implied
    <2>2. values[index - skip_stride + 1] \in Listed
      BY <1>2, <2>1 DEF index
    <2> QED
      BY <1>1, <2>2 DEF Implied
  <1>4. Held(End)'
    <2>1. End' = End
      BY <1>1, <1>2, <1>3, EncoderAppends
    <2> QED
      BY <1>1, <2>1 DEF CodeInv, Held, machine
  <1>5. ASSUME NEW v \in Encodable, Begins(tokens, Encode(v))
        PROVE  v[index + 1] = 0
    <2>1. ImpliedIn(v, index + 1)
      <3>1. values \in Seq(Listed) /\ mtf = End.list /\ Agrees(v)
        BY DEF CodeInv, Held
      <3> QED
        BY <1>1, <1>5, <3>1, NextSaid
    <2>2. index + 1 \in 1..OutputLen
      BY <1>1, <1>2
    <2> QED
      BY <2>1, <2>2 DEF Encodable
  <1> QED
    BY <1>1, <1>3, <1>4, <1>5, AppendKeepsCode

LEMMA RepeatFrontKeepsCode == CodeInv /\ IInv /\ RepeatFront => CodeInv'
  <1> SUFFICES ASSUME CodeInv, IInv, RepeatFront PROVE CodeInv'
    OBVIOUS
  <1>1. /\ values' = Append(values, mtf[1]) /\ run_remaining' = run_remaining - 1
        /\ UNCHANGED <<mtf, run_exponent, pending_move, tokens, pc>>
        /\ pc = "expand" /\ index < OutputLen /\ ~Implied(index) /\ run_remaining # 0
    BY DEF RepeatFront
  <1>2. /\ values \in Seq(Listed) /\ index \in Nat /\ End \in States
        /\ End.list \in Orders /\ End.run \in Nat /\ End.out \in Seq(Nat)
        /\ mtf = End.list /\ run_remaining \in Nat
    BY EndType DEF CodeInv, Held, IInv, TypeOK
  <1>3. /\ pending_move = 0 /\ tokens = End.out \o digits[End.run + run_remaining]
        /\ run_exponent = Len(digits[End.run + run_remaining])
    BY <1>1 DEF CodeInv, Held
  <1>4. mtf[1] \in Listed
    BY <1>2, OrderSeq, SomeIndices
  <1>5. Held(End)'
    <2>1. End' = EncodeValue(End, mtf[1])
      BY <1>1, <1>2, <1>4, EncoderAppends
    <2>2. EncodeValue(End, End.list[1])
            = [list |-> End.list, run |-> End.run + 1, out |-> End.out]
      BY <1>2, EncodesRepeat
    <2>3. End'.list = End.list /\ End'.run = End.run + 1 /\ End'.out = End.out
      BY <1>2, <2>1, <2>2, EntryFields
    <2>4. (End.run + 1) + (run_remaining - 1) = End.run + run_remaining
      BY <1>2
    <2> QED
      BY <1>1, <1>2, <1>3, <2>3, <2>4 DEF Held
  <1>6. ASSUME NEW v \in Encodable, Begins(tokens, Encode(v))
        PROVE  v[index + 1] = mtf[1]
    <2>1. \/ v[index + 1] = mtf[1]
          \/ \E place \in Indices : place # 1 /\ MovesOn(Encode(v), End, place)
      <3>1. Agrees(v)
        BY DEF CodeInv
      <3> QED
        BY <1>1, <1>2, <1>6, <3>1, NextSaid
    <2>2. ASSUME NEW place \in Indices, place # 1, MovesOn(Encode(v), End, place)
          PROVE  FALSE
      <3>1. PICK rest \in Seq(Nat) :
              Encode(v) = End.out \o (digits[End.run] \o (<<place>> \o rest))
        BY <2>2 DEF MovesOn
      <3>2. Begins(End.out \o digits[End.run + run_remaining],
                   End.out \o (digits[End.run] \o (<<place>> \o rest)))
        BY <1>3, <1>6, <3>1
      <3>3. End.run + run_remaining \in Nat /\ place \in Nat /\ place >= 2
        BY <1>2, <2>2, IndexRange
      <3>4. End.run + run_remaining <= End.run
        BY <1>2, <3>2, <3>3, RunBeforeMove
      <3> QED
        BY <1>1, <1>2, <3>4
    <2> QED
      BY <2>1, <2>2
  <1> QED
    BY <1>1, <1>4, <1>5, <1>6, AppendKeepsCode

LEMMA PromotePendingKeepsCode == CodeInv /\ IInv /\ PromotePending => CodeInv'
  <1> SUFFICES ASSUME CodeInv, IInv, PromotePending PROVE CodeInv'
    OBVIOUS
  <1>1. /\ mtf' = Promoted(pending_move) /\ values' = Append(values, mtf'[1])
        /\ pending_move' = 0 /\ run_remaining = 0 /\ pending_move # 0
        /\ UNCHANGED <<run_remaining, run_exponent, tokens, pc>>
        /\ pc = "expand" /\ index < OutputLen /\ ~Implied(index)
    BY DEF PromotePending
  <1> DEFINE place == pending_move + 1
  <1>2. /\ values \in Seq(Listed) /\ index \in Nat /\ End \in States
        /\ End.list \in Orders /\ End.run \in Nat /\ End.out \in Seq(Nat)
        /\ mtf = End.list
    BY EndType DEF CodeInv, Held
  <1>3. /\ run_exponent = 0
        /\ tokens = End.out \o (digits[End.run] \o <<place>>)
    BY <1>1 DEF CodeInv, Held
  <1>4. place \in Indices /\ place # 1 /\ place \in Nat /\ place >= 2
    <2>1. pending_move \in Nat /\ pending_move > 0 /\ pending_move < Len(InitialList)
      <3>1. pending_move \in 0..(Len(InitialList) - 1) /\ Len(InitialList) \in Nat
        BY SomeIndices DEF IInv, TypeOK
      <3> QED
        BY <1>1, <3>1
    <2> QED
      BY <2>1, IndexRange, SomeIndices
  <1>5. mtf' = Moved(End.list, place) /\ mtf'[1] = End.list[place]
        /\ End.list[place] \in Listed
    <2>1. mtf' = Moved(End.list, place)
      BY <1>1, <1>2 DEF Promoted, Moved
    <2> QED
      BY <1>2, <1>4, <2>1, SomeIndices, OrderSeq DEF Moved
  <1> HIDE DEF place
  <1>6. Held(End)'
    <2>1. End' = EncodeValue(End, End.list[place])
      BY <1>1, <1>2, <1>5, EncoderAppends
    <2>2. /\ End'.list = Moved(End.list, place) /\ End'.run = 0
          /\ End'.out = End.out \o digits[End.run] \o <<place>>
      BY <1>2, <1>4, <2>1, MoveFields
    <2>3. tokens = (End.out \o digits[End.run] \o <<place>>) \o digits[0 + 0]
      <3>1. digits[End.run] \in Seq(Nat) /\ <<place>> \in Seq(Nat)
        BY <1>2, <1>4, DigitTypes
      <3>2. Regrouped(End.out, digits[End.run], <<place>>)
        BY <1>2, <3>1, ConcatRegroups
      <3>3. End.out \o digits[End.run] \o <<place>> \in Seq(Nat)
        BY <1>2, <3>1
      <3>4. digits[0 + 0] = << >>
        BY DigitsDefined DEF DigitsAre
      <3>5. \A s \in Seq(Nat) : s \o << >> = s
        OBVIOUS
      <3> QED
        BY <1>3, <3>2, <3>3, <3>4, <3>5 DEF Regrouped
    <2>4. Len(digits[0 + 0]) = 0
      BY DigitsDefined DEF DigitsAre
    <2> QED
      BY <1>1, <1>3, <1>5, <2>2, <2>3, <2>4 DEF Held
  <1>7. ASSUME NEW v \in Encodable, Begins(tokens, Encode(v))
        PROVE  v[index + 1] = mtf'[1]
    <2>1. \/ RunsOn(Encode(v), End)
          \/ \E to \in Indices : v[index + 1] = mtf[to] /\ MovesOn(Encode(v), End, to)
      <3>1. Agrees(v)
        BY DEF CodeInv
      <3> QED
        BY <1>1, <1>2, <1>7, <3>1, NextSaid
    <2>2. digits[End.run] \in Seq(Nat)
      BY <1>2, DigitTypes
    <2>3. ASSUME RunsOn(Encode(v), End)
          PROVE  FALSE
      <3>1. PICK r \in Nat, rest \in Seq(Nat) :
              r > End.run /\ Encode(v) = End.out \o (digits[r] \o rest)
        BY <2>3 DEF RunsOn
      <3>2. Begins(End.out \o (digits[End.run] \o <<place>>), End.out \o (digits[r] \o rest))
        BY <1>3, <1>7, <3>1
      <3>3. r <= End.run
        BY <1>2, <1>4, <3>2, MoveBeforeRun
      <3> QED
        BY <1>2, <3>1, <3>3
    <2>4. ASSUME NEW to \in Indices, v[index + 1] = mtf[to], MovesOn(Encode(v), End, to)
          PROVE  v[index + 1] = mtf'[1]
      <3>1. PICK rest \in Seq(Nat) :
              Encode(v) = End.out \o (digits[End.run] \o (<<to>> \o rest))
        BY <2>4 DEF MovesOn
      <3>2. Begins(End.out \o (digits[End.run] \o <<place>>),
                   End.out \o (digits[End.run] \o (<<to>> \o rest)))
        BY <1>3, <1>7, <3>1
      <3>3. to \in Nat
        BY IndexRange
      <3>4. place = to
        BY <1>2, <1>4, <2>2, <3>2, <3>3, SameMove
      <3> QED
        BY <1>2, <1>5, <2>4, <3>4
    <2> QED
      BY <2>1, <2>3, <2>4
  <1>8. mtf'[1] \in Listed
    BY <1>5
  <1> DEFINE x == mtf'[1]
  <1>9. x \in Listed /\ values' = Append(values, x)
        /\ \A v \in Encodable : Begins(tokens, Encode(v)) => v[index + 1] = x
    BY <1>1, <1>7, <1>8
  <1> HIDE DEF x
  <1> QED
    BY <1>1, <1>6, <1>9, AppendKeepsCode

LEMMA BeginsShorter ==
  ASSUME NEW s \in Seq(Nat), NEW x \in Nat, NEW t, Len(t) \in Nat,
         Begins(Append(s, x), t)
  PROVE  Begins(s, t)
  <1>1. /\ Len(Append(s, x)) = Len(s) + 1 /\ Len(s) \in Nat
        /\ \A i \in 1..Len(s) : Append(s, x)[i] = s[i] /\ i \in 1..(Len(s) + 1)
    OBVIOUS
  <1>2. Len(s) + 1 <= Len(t) /\ \A i \in 1..(Len(s) + 1) : Append(s, x)[i] = t[i]
    BY <1>1 DEF Begins
  <1>3. Len(s) <= Len(t)
    BY <1>1, <1>2
  <1>4. \A i \in 1..Len(s) : s[i] = t[i]
    BY <1>1, <1>2, Zenon
  <1> QED
    BY <1>3, <1>4 DEF Begins

LEMMA EncodingLength ==
  ASSUME NEW v \in Encodable
  PROVE  Len(Encode(v)) \in Nat
  <1>1. v \in Seq(Listed) /\ Len(v) \in 0..Len(v)
    BY EncodableSeq, SizesAssumption
  <1> DEFINE state == Encoder(v)[Len(v)]
  <1>2. state.run \in Nat /\ state.out \in Seq(Nat)
    BY <1>1, EncoderStates
  <1> HIDE DEF state
  <1>3. digits[state.run] \in Seq(Nat)
    BY <1>2, DigitTypes
  <1>4. state.out \o digits[state.run] \in Seq(Nat)
    BY <1>2, <1>3, ConcatFacts
  <1>5. Encode(v) \in Seq(Nat)
    BY <1>4 DEF Encode, Encoded, state
  <1> QED
    BY <1>5

AppendRegrouped(a, s, x) == Append(a \o s, x) = a \o (s \o <<x>>)

LEMMA AppendRegroups ==
  ASSUME NEW a \in Seq(Nat), NEW s \in Seq(Nat), NEW x \in Nat
  PROVE  AppendRegrouped(a, s, x)
  <1>1. <<x>> \in Seq(Nat) /\ a \o s \in Seq(Nat)
    OBVIOUS
  <1>2. Regrouped(a, s, <<x>>)
    BY <1>1, ConcatRegroups
  <1>3. \A u \in Seq(Nat) : Append(u, x) = u \o <<x>>
    OBVIOUS
  <1> QED
    BY <1>1, <1>2, <1>3, Zenon DEF Regrouped, AppendRegrouped

(* A token is read and nothing is written.                                 *)
LEMMA TokenKeepsCode ==
  ASSUME CodeInv, IInv, pc = "expand", NEW token \in Tokens,
         tokens' = Append(tokens, token), UNCHANGED <<values, pc>>, Held(End)'
  PROVE  CodeInv'
  <1>1. values \in Seq(Listed) /\ ZerosImplied /\ \A v \in Encodable : Agrees(v)
    BY DEF CodeInv
  <1>2. index' = index
    BY DEF index
  <1>3. ZerosImplied'
    BY <1>1, <1>2 DEF ZerosImplied, ImpliedIn
  <1>4. ASSUME NEW v \in Encodable
        PROVE  Agrees(v)'
    <2> SUFFICES ASSUME Begins(tokens', Encode(v))
                 PROVE  \A n \in 1..index : values[n] = v[n]
      BY <1>2 DEF Agrees
    <2>1. tokens \in Seq(Nat) /\ token \in Nat
      <3>1. Tokens \subseteq Nat
        BY SomeIndices
      <3>2. tokens \in Seq(Tokens)
        BY DEF IInv, TypeOK
      <3>3. tokens \in Seq(Nat)
        BY <3>1, <3>2, SeqWider
      <3> QED
        BY <3>1, <3>3
    <2>2. Begins(tokens, Encode(v))
      BY <2>1, BeginsShorter, EncodingLength
    <2> QED
      BY <1>1, <2>2 DEF Agrees
  <1>5. AtEnds'
    BY DEF AtEnds
  <1> QED
    BY <1>1, <1>3, <1>4, <1>5 DEF CodeInv

LEMMA QueueRunKeepsCode == CodeInv /\ IInv /\ QueueRun => CodeInv'
  <1> SUFFICES ASSUME CodeInv, IInv, QueueRun PROVE CodeInv'
    OBVIOUS
  <1>1. PICK token \in Tokens :
          /\ token <= 1 /\ run_remaining' = run_remaining + Amount(token)
          /\ tokens' = Append(tokens, token)
    BY DEF QueueRun
  <1>2. /\ Idle /\ run_exponent' = run_exponent + 1
        /\ UNCHANGED <<mtf, pending_move, values, pc>>
        /\ run_remaining = 0 /\ pending_move = 0 /\ pc = "expand"
    BY DEF QueueRun, ExponentAfterRun, Idle
  <1>3. token \in 0..1 /\ token \in Digit
    <2>1. token \in 0..1
      BY <1>1, SomeIndices
    <2> QED
      BY <2>1 DEF Digit
  <1>4. /\ values \in Seq(Listed) /\ End.run \in Nat /\ End.out \in Seq(Nat) /\ mtf = End.list
    BY EndType DEF CodeInv, Held
  <1> DEFINE run == End.run  amount == Amount(token)
  <1>5. /\ tokens = End.out \o digits[run] /\ run_exponent = Len(digits[run])
    <2>1. End.run + 0 = End.run
      BY <1>4
    <2> QED
      BY <1>2, <2>1 DEF CodeInv, Held
  <1>6. /\ amount = (token + 1) * Powers[run_exponent]
        /\ amount \in 1..(2 * OutputLen) /\ run_exponent <= OutputLen
    <2>1. /\ amount = (token + 1) * Powers[run_exponent] /\ amount \in 1..(2 * OutputLen)
          /\ run_exponent <= index /\ index < OutputLen /\ index \in Nat /\ run_exponent \in Nat
      BY <1>2, <1>3, AmountFits
    <2> HIDE DEF amount
    <2> QED
      BY <2>1
  <1> HIDE DEF amount
  <1>7. run_remaining' = amount /\ amount \in Nat
    BY <1>1, <1>2, <1>6 DEF amount
  <1>8. digits[run + amount] = Append(digits[run], token)
    <2>1. DigitAdded(run, token)
      BY <1>3, <1>4, <1>5, <1>6, DigitsGrow
    <2> QED
      BY <1>5, <1>6, <2>1, Zenon DEF DigitAdded
  <1>9. digits[run] \in Seq(Nat)
    BY <1>4, DigitTypes
  <1>10. tokens' = End.out \o digits[run + amount]
    <2>1. AppendRegrouped(End.out, digits[run], token)
      BY <1>3, <1>4, <1>9, AppendRegroups
    <2>2. \A u \in Seq(Nat) : Append(u, token) = u \o <<token>>
      BY <1>3
    <2> QED
      BY <1>1, <1>5, <1>8, <1>9, <2>1, <2>2, Zenon DEF AppendRegrouped
  <1>11. run_exponent' = Len(digits[run + amount])
    BY <1>2, <1>5, <1>8, <1>9
  <1>12. Held(End)'
    <2>1. End' = End
      BY <1>2 DEF End, index
    <2> QED
      BY <1>2, <1>4, <1>7, <1>10, <1>11, <2>1 DEF Held
  <1> QED
    BY <1>1, <1>2, <1>12, TokenKeepsCode

LEMMA QueueMoveKeepsCode == CodeInv /\ IInv /\ QueueMove => CodeInv'
  <1> SUFFICES ASSUME CodeInv, IInv, QueueMove PROVE CodeInv'
    OBVIOUS
  <1>1. PICK token \in Tokens :
          /\ token > 1 /\ pending_move' = token - 1 /\ tokens' = Append(tokens, token)
    BY DEF QueueMove
  <1>2. /\ run_exponent' = 0 /\ run_remaining = 0 /\ pending_move = 0 /\ pc = "expand"
        /\ UNCHANGED <<mtf, run_remaining, values, pc>>
    BY DEF QueueMove, ExponentAfterMove, Idle
  <1>3. token \in Nat
    BY SomeIndices
  <1>4. /\ values \in Seq(Listed) /\ End.run \in Nat /\ End.out \in Seq(Nat) /\ mtf = End.list
    BY EndType DEF CodeInv, Held
  <1>5. tokens = End.out \o digits[End.run]
    <2>1. End.run + 0 = End.run
      BY <1>4
    <2> QED
      BY <1>2, <2>1 DEF CodeInv, Held
  <1>6. tokens' = End.out \o (digits[End.run] \o <<token>>)
    <2>1. digits[End.run] \in Seq(Nat)
      BY <1>4, DigitTypes
    <2>2. AppendRegrouped(End.out, digits[End.run], token)
      BY <1>3, <1>4, <2>1, AppendRegroups
    <2> QED
      BY <1>1, <1>5, <2>2, Zenon DEF AppendRegrouped
  <1>7. pending_move' # 0 /\ pending_move' + 1 = token
    BY <1>1, <1>3
  <1>8. Held(End)'
    <2>1. End' = End
      BY <1>2 DEF End, index
    <2> QED
      BY <1>2, <1>4, <1>6, <1>7, <2>1 DEF Held
  <1> QED
    BY <1>1, <1>2, <1>8, TokenKeepsCode

(* Only pc changes, if anything does.                                      *)
LEMMA StopKeepsCode ==
  ASSUME CodeInv, UNCHANGED <<machine, values, tokens>>, AtEnds'
  PROVE  CodeInv'
  <1>1. /\ UNCHANGED <<mtf, run_remaining, run_exponent, pending_move>>
        /\ index' = index /\ End' = End
    BY DEF machine, index, End
  <1>2. Held(End)'
    BY <1>1 DEF CodeInv, Held
  <1>3. ZerosImplied' /\ \A v \in Encodable : Agrees(v)'
    BY <1>1 DEF CodeInv, ZerosImplied, ImpliedIn, Agrees
  <1> QED
    BY <1>2, <1>3 DEF CodeInv

LEMMA NextKeepsCode == CodeInv /\ IInv /\ [Next]_vars => CodeInv'
  <1> SUFFICES ASSUME CodeInv, IInv, [Next]_vars PROVE CodeInv'
    OBVIOUS
  <1>1. CASE ImplicitZero
    BY <1>1, ImplicitZeroKeepsCode
  <1>2. CASE RepeatFront
    BY <1>2, RepeatFrontKeepsCode
  <1>3. CASE PromotePending
    BY <1>3, PromotePendingKeepsCode
  <1>4. CASE QueueRun
    BY <1>4, QueueRunKeepsCode
  <1>5. CASE QueueMove
    BY <1>5, QueueMoveKeepsCode
  <1>6. CASE NoToken
    <2>1. /\ pc' = "no_token" /\ UNCHANGED <<machine, values, tokens>>
          /\ index < OutputLen /\ ~Implied(index) /\ run_remaining = 0 /\ pending_move = 0
      BY <1>6 DEF NoToken, Ends, Idle
    <2>2. AtEnds'
      BY <2>1 DEF AtEnds, Implied, index, machine
    <2> QED
      BY <2>1, <2>2, StopKeepsCode
  <1>7. CASE Finish
    <2>1. /\ UNCHANGED <<machine, values, tokens>> /\ index = OutputLen
          /\ \/ FinishClean /\ pc' = "done"
             \/ ~FinishClean /\ pc' = "run_past_end"
      BY <1>7 DEF Finish, Ends
    <2>2. AtEnds'
      BY <2>1 DEF AtEnds, FinishClean, index, machine
    <2> QED
      BY <2>1, <2>2, StopKeepsCode
  <1>8. CASE UNCHANGED vars
    <2>1. UNCHANGED <<machine, values, tokens>> /\ pc' = pc
      BY <1>8 DEF vars
    <2>2. AtEnds'
      BY <2>1 DEF CodeInv, AtEnds, FinishClean, Implied, index, machine
    <2> QED
      BY <2>1, <2>2, StopKeepsCode
  <1> QED
    BY <1>1, <1>2, <1>3, <1>4, <1>5, <1>6, <1>7, <1>8 DEF Next

LEMMA AcceptedByCode == CodeInv => AcceptedIsEncoding
  <1> SUFFICES ASSUME CodeInv, pc = "done"
               PROVE  values \in Encodable /\ tokens = Encode(values)
    BY DEF AcceptedIsEncoding
  <1>1. /\ index = OutputLen /\ run_remaining = 0 /\ pending_move = 0
    BY DEF CodeInv, AtEnds, FinishClean
  <1>2. values \in Seq(Listed) /\ End.run \in Nat
    BY EndType DEF CodeInv
  <1>3. values \in Encodable
    <2>1. values \in [1..OutputLen -> Listed]
      BY <1>1, <1>2 DEF index
    <2> QED
      BY <1>1, <2>1 DEF Encodable, CodeInv, ZerosImplied
  <1>4. tokens = End.out \o digits[End.run]
    <2>1. End.run + 0 = End.run
      BY <1>2
    <2> QED
      BY <1>1, <2>1 DEF CodeInv, Held
  <1>5. tokens = Encode(values)
    BY <1>4 DEF Encode, Encoded, End, index
  <1> QED
    BY <1>3, <1>5

LEMMA BeginsItself ==
  ASSUME NEW s
  PROVE  Len(s) \in Nat => Begins(s, s)
  BY DEF Begins

LEMMA SameLength ==
  ASSUME NEW a \in Seq(Nat), NEW s \in Seq(Nat), NEW t \in Seq(Nat), a \o s = a \o t
  PROVE  Begins(s, t) /\ Begins(t, s)
  <1>1. a \o s \in Seq(Nat)
    OBVIOUS
  <1>2. Begins(a \o s, a \o t) /\ Begins(a \o t, a \o s)
    BY <1>1, BeginsItself
  <1> QED
    BY <1>2, BeginsAfter

(* A move that is held is a token more than the runs before it.            *)
LEMMA MoveIsMore ==
  ASSUME NEW a \in Seq(Nat), NEW s \in Seq(Nat), NEW p \in Nat, NEW rest \in Seq(Nat)
  PROVE  a \o s # a \o (s \o (<<p>> \o rest))
  <1> SUFFICES ASSUME a \o s = a \o (s \o (<<p>> \o rest)) PROVE FALSE
    OBVIOUS
  <1> DEFINE one == <<p>> \o rest
             t == s \o one
  <1>1. one \in Seq(Nat) /\ Len(one) = 1 + Len(rest) /\ Len(rest) \in Nat
    OBVIOUS
  <1> HIDE DEF one
  <1>2. t \in Seq(Nat) /\ Len(t) = Len(s) + Len(one) /\ Len(s) \in Nat
    BY <1>1, ConcatFacts
  <1>3. a \o s = a \o t
    BY DEF one
  <1> HIDE DEF t
  <1>4. Len(a \o s) = Len(a) + Len(s) /\ Len(a \o t) = Len(a) + Len(t) /\ Len(a) \in Nat
    BY <1>2, ConcatFacts
  <1> QED
    BY <1>1, <1>2, <1>3, <1>4

LEMMA RefusedByCode == CodeInv /\ IInv => NoEncodingRefused
  <1> SUFFICES ASSUME CodeInv, IInv, pc \in {"run_past_end", "no_token"},
                      tokens \in Encodings
               PROVE  FALSE
    BY DEF NoEncodingRefused
  <1>1. PICK v \in Encodable : tokens = Encode(v)
    BY DEF Encodings
  <1>2. /\ values \in Seq(Listed) /\ mtf = End.list /\ index \in Nat /\ Agrees(v)
        /\ End.run \in Nat /\ End.out \in Seq(Nat) /\ digits[End.run] \in Seq(Nat)
    <2>1. values \in Seq(Listed) /\ mtf = End.list /\ Agrees(v)
      BY DEF CodeInv, Held
    <2>2. index \in Nat /\ End.run \in Nat /\ End.out \in Seq(Nat)
      BY <2>1, EndType
    <2> QED
      BY <2>1, <2>2, DigitTypes
  <1>3. v \in Seq(Listed) /\ Len(v) = OutputLen
    BY EncodableSeq
  <1>4. Begins(tokens, Encode(v))
    <2>1. Len(tokens) \in Nat
      BY DEF IInv, TypeOK
    <2> QED
      BY <1>1, <2>1, BeginsItself
  <1>5. ASSUME pc = "run_past_end"
        PROVE  FALSE
    <2>1. index = OutputLen /\ ~FinishClean
      BY <1>5 DEF CodeInv, AtEnds
    <2>2. Encoder(v)[OutputLen] = End
      <3>1. \A n \in 1..index : values[n] = v[n]
        BY <1>2, <1>4 DEF Agrees
      <3>2. index <= Len(v) /\ index <= Len(values)
        BY <1>3, <2>1 DEF index
      <3>3. Encoder(values)[index] = Encoder(v)[index]
        BY <1>2, <1>3, <3>1, <3>2, EncodersAgree
      <3> QED
        BY <2>1, <3>3 DEF End
    <2>3. tokens = End.out \o digits[End.run]
      BY <1>1, <1>3, <2>2 DEF Encode, Encoded
    <2>4. CASE pending_move # 0
      <3>1. tokens = End.out \o (digits[End.run] \o <<pending_move + 1>>)
        BY <2>4 DEF CodeInv, Held
      <3>2. PICK p \in Nat : p = pending_move + 1
        <4>1. pending_move \in Nat
          BY DEF IInv, TypeOK
        <4> QED
          BY <4>1
      <3>3. PICK rest \in Seq(Nat) : <<p>> \o rest = <<p>>
        <4>1. << >> \in Seq(Nat) /\ <<p>> \o << >> = <<p>>
          OBVIOUS
        <4> QED
          BY <4>1, Zenon
      <3>4. tokens = End.out \o (digits[End.run] \o (<<p>> \o rest))
        BY <3>1, <3>2, <3>3, Zenon
      <3> QED
        BY <1>2, <2>3, <3>4, MoveIsMore
    <2>5. CASE pending_move = 0
      <3>1. run_remaining # 0 /\ run_remaining \in Nat
        BY <2>1, <2>5 DEF FinishClean, IInv, TypeOK
      <3>2. tokens = End.out \o digits[End.run + run_remaining]
        BY <2>5 DEF CodeInv, Held
      <3>3. /\ End.run + run_remaining \in Nat
            /\ digits[End.run + run_remaining] \in Seq(Nat)
        <4>1. PICK n \in Nat : n = End.run + run_remaining
          BY <1>2, <3>1
        <4> QED
          BY <4>1, DigitTypes
      <3>4. Begins(digits[End.run + run_remaining], digits[End.run])
        BY <1>2, <2>3, <3>2, <3>3, SameLength
      <3>5. End.run + run_remaining <= End.run
        BY <1>2, <3>3, <3>4, DigitsOrdered
      <3> QED
        BY <1>2, <3>1, <3>5
    <2> QED
      BY <2>4, <2>5
  <1>6. ASSUME pc = "no_token"
        PROVE  FALSE
    <2>1. /\ index < OutputLen /\ ~Implied(index)
          /\ run_remaining = 0 /\ pending_move = 0
      BY <1>6 DEF CodeInv, AtEnds
    <2>2. tokens = End.out \o digits[End.run]
      <3>1. End.run + 0 = End.run
        BY <1>2
      <3> QED
        BY <2>1, <3>1 DEF CodeInv, Held
    <2>3. \/ RunsOn(tokens, End)
          \/ \E place \in Indices : MovesOn(tokens, End, place)
      BY <1>1, <1>2, <1>4, <2>1, NextSaid
    <2>4. ASSUME RunsOn(tokens, End)
          PROVE  FALSE
      <3>1. PICK r \in Nat, rest \in Seq(Nat) :
              r > End.run /\ tokens = End.out \o (digits[r] \o rest)
        BY <2>4 DEF RunsOn
      <3>2. digits[r] \in Seq(Nat) /\ digits[r] \o rest \in Seq(Nat)
        BY DigitTypes, ConcatFacts
      <3>3. Begins(digits[r] \o rest, digits[End.run])
        BY <1>2, <2>2, <3>1, <3>2, SameLength
      <3>4. Begins(digits[r], digits[End.run])
        <4> DEFINE d == digits[r]  e == d \o rest  x == digits[End.run]
        <4>1. /\ Len(e) = Len(d) + Len(rest) /\ Len(d) \in Nat /\ Len(rest) \in Nat
              /\ \A i \in 1..Len(d) : e[i] = d[i]
          BY <3>2, ConcatFacts
        <4>2. Begins(e, x) /\ x \in Seq(Nat)
          BY <1>2, <3>3
        <4> HIDE DEF e, d, x
        <4>3. Len(e) <= Len(x) /\ \A i \in 1..Len(e) : e[i] = x[i]
          BY <4>2 DEF Begins
        <4>4. Len(x) \in Nat
          BY <4>2
        <4>5. Len(d) <= Len(x) /\ \A i \in 1..Len(d) : i \in 1..Len(e)
          BY <4>1, <4>3, <4>4
        <4>6. \A i \in 1..Len(d) : d[i] = x[i]
          BY <4>1, <4>3, <4>5, Zenon
        <4>7. Begins(d, x)
          BY <4>5, <4>6 DEF Begins
        <4> QED
          BY <4>7 DEF d, x
      <3>5. r <= End.run
        BY <1>2, <3>4, DigitsOrdered
      <3> QED
        BY <1>2, <3>1, <3>5
    <2>5. ASSUME NEW place \in Indices, MovesOn(tokens, End, place)
          PROVE  FALSE
      <3>1. PICK rest \in Seq(Nat) :
              tokens = End.out \o (digits[End.run] \o (<<place>> \o rest))
        BY <2>5 DEF MovesOn
      <3>2. place \in Nat
        BY IndexRange
      <3> QED
        BY <1>2, <2>2, <3>1, <3>2, MoveIsMore
    <2> QED
      BY <2>3, <2>4, <2>5
  <1> QED
    BY <1>5, <1>6

LEMMA CodeIsInvariant == Spec => [](IInv /\ CodeInv)
  <1>1. IInv /\ CodeInv /\ [Next]_vars => IInv' /\ CodeInv'
    BY NextKeepsInv, NextKeepsCode
  <1>2. Init => IInv /\ CodeInv
    BY InitInv, InitCode
  <1> QED
    BY <1>1, <1>2, PTL DEF Spec

(* expand_tokens accepts only what an encoder writes for the values it     *)
(* returns: runs, moves and implied zeros are read as they were meant,     *)
(* whatever the list, the stride and the length of the output.             *)
THEOREM AcceptedAreEncodings == Spec => []AcceptedIsEncoding
  BY CodeIsInvariant, AcceptedByCode, PTL

(* It refuses no encoding, as too long a run or as an incomplete move, and *)
(* asks for no token after the last of one.                                *)
THEOREM EncodingsPass == Spec => []NoEncodingRefused
  BY CodeIsInvariant, RefusedByCode, PTL
-----------------------------------------------------------------------------
USE WidthsAssumption, SectionSizes

(* The sectors of a window cover it, and none begins beyond it.            *)
LEMMA SectorsSuffice ==
  ASSUME NEW len \in Nat \ {0}, NEW size \in Nat \ {0}
  PROVE  /\ DivCeil(len, size) \in 0..len
         /\ \A n \in 0..(len - 1) : /\ n \div size \in 0..(DivCeil(len, size) - 1)
                                    /\ n >= (n \div size) * size
                                    /\ n < (n \div size + 1) * size
  <1> DEFINE count == DivCeil(len, size)
  <1>1. count \in 0..len
    <2>1. len + size - 1 \in Nat /\ len + size - 1 <= size * len
      <3>1. PICK a \in Nat, b \in Nat : len = a + 1 /\ size = b + 1
        <4>1. len - 1 \in Nat /\ size - 1 \in Nat /\ len = (len - 1) + 1
              /\ size = (size - 1) + 1
          OBVIOUS
        <4> QED
          BY <4>1
      <3>2. size * len = b * a + a + b + 1 /\ b * a \in Nat
        BY <3>1
      <3> QED
        BY <3>1, <3>2
    <2> QED
      BY <2>1, DivAtMost DEF DivCeil
  <1>2. ASSUME NEW n \in 0..(len - 1)
        PROVE  /\ n \div size \in 0..(count - 1)
               /\ n >= (n \div size) * size /\ n < (n \div size + 1) * size
    <2> DEFINE q == n \div size r == n % size
    <2>1. n = size * q + r /\ r \in 0..(size - 1) /\ q \in Int
      <3>1. n \in Nat
        OBVIOUS
      <3>2. n = size * (n \div size) + (n % size) /\ n \div size \in Int
        BY <3>1, ModDivision
      <3> QED
        BY <3>1, <3>2, ModRange
    <2>2. q \in Nat
      <3>1. n <= size * n
        <4>1. PICK b \in Nat : size = b + 1
          <5>1. size - 1 \in Nat /\ size = (size - 1) + 1
            OBVIOUS
          <5> QED
            BY <5>1
        <4>2. size * n = b * n + n /\ b * n \in Nat
          BY <4>1
        <4> QED
          BY <4>2
      <3> QED
        BY <3>1, DivAtMost
    <2> HIDE DEF q, r
    <2>3. size * (q + 1) <= len + size - 1
      <3>1. size * (q + 1) = size * q + size /\ size * q \in Int
        BY <2>2
      <3> QED
        BY <2>1, <3>1
    <2>4. q + 1 <= count
      BY <2>2, <2>3, DivAtLeast DEF DivCeil
    <2>5. q * size = size * q /\ (q + 1) * size = size * q + size /\ size * q \in Int
      BY <2>2
    <2>6. n >= q * size /\ n < (q + 1) * size
      BY <2>1, <2>5
    <2>7. q \in 0..(count - 1)
      BY <1>1, <2>2, <2>4
    <2> QED
      BY <2>6, <2>7 DEF q
  <1> QED
    BY <1>1, <1>2

(* The layout of the sectors, once it is read, and the bits read so far.   *)
SectorsPlanned ==
  /\ stage \notin {"groups", "truncated", "io"} => group_count >= 1
  /\ stage \notin {"groups", "sectors", "truncated", "memory", "io"} =>
       sector_size >= 1 /\ sector_count = DivCeil(output_len, sector_size)
SectorsSelected ==
  stage \in {"body", "done", "trailing"} => group_count = 1 \/ Len(selectors) = sector_count
BitsCounted == total_bits + BYTE = position * BYTE + used
BytesCovered ==
  \A n \in 1..Len(output) :
    IF group_count = 1 THEN output[n] = 0
    ELSE \E s \in 1..Len(selectors) : /\ output[n] = selectors[s]
                                      /\ n > (s - 1) * sector_size
                                      /\ n <= s * sector_size
OutputWritten == stage \in {"groups", "sectors", "tables", "selectors"} => output = << >>
GroupsChosen == stage \in {"groups", "sectors", "tables"} => selectors = << >>
SectionDone == stage = "done" => Len(output) = output_len /\ position = section_end

SectionInv == /\ SectionTypeOK /\ SectorsPlanned /\ SectorsSelected /\ BitsCounted /\ BytesCovered /\ OutputWritten
        /\ GroupsChosen /\ SectionDone

LEMMA SectionBounds ==
  ASSUME SectionTypeOK
  PROVE  /\ output_len \in Nat \ {0} /\ section_end \in Nat /\ budget \in Nat
         /\ position \in Nat /\ used \in Nat /\ total_bits \in Nat
         /\ Len(output) \in Nat /\ Len(selectors) \in Nat
         /\ group_count \in Nat /\ sector_size \in Nat /\ sector_count \in Nat
  BY DEF SectionTypeOK

LEMMA SectionInitInv == SectionInit => SectionInv
  <1> SUFFICES ASSUME SectionInit PROVE SectionInv
    OBVIOUS
  <1>1. SectionTypeOK
    <2>1. << >> \in Seq(0..(group_count - 1)) /\ Len(<< >>) = 0
      OBVIOUS
    <2> QED
      BY <2>1 DEF SectionInit, SectionTypeOK, Ended
  <1>2. BitsCounted
    BY DEF SectionInit, BitsCounted
  <1> QED
    BY <1>1, <1>2 DEF SectionInit, SectionInv, SectorsPlanned, SectorsSelected, BytesCovered, OutputWritten, GroupsChosen, SectionDone

LEMMA ReadBitKeepsInv == SectionInv /\ ReadBit => SectionInv'
  <1> SUFFICES ASSUME SectionInv, ReadBit PROVE SectionInv'
    OBVIOUS
  <1>1. /\ want > 0 /\ ~Ended
        /\ UNCHANGED <<arguments, layout, reserved, selectors, output>>
        /\ \/ stage' \in {"truncated", "io"} /\ UNCHANGED <<bits, want>>
           \/ /\ ~(UsedUp /\ AtEnd)
              /\ position' = IF UsedUp THEN position + 1 ELSE position
              /\ used' = IF UsedUp THEN 1 ELSE used + 1
              /\ total_bits' = total_bits + 1
              /\ want' = want - 1
              /\ stage' = stage
    BY DEF ReadBit
  <1>2. UNCHANGED <<output_len, section_end, budget, group_count, sector_size,
                    sector_count, reserved, selectors, output>>
    BY <1>1 DEF arguments, layout
  <1>3. stage' # "done" /\ (stage' = stage \/ stage' \in {"truncated", "io"})
    BY <1>1 DEF Ended
  <1>4. /\ position' \in 0..section_end /\ used' \in 1..BYTE /\ total_bits' \in Nat
        /\ want' \in Nat /\ BitsCounted'
    <2>1. /\ position \in 0..section_end /\ used \in 1..BYTE /\ total_bits \in Nat
          /\ want \in Nat /\ total_bits + BYTE = position * BYTE + used
          /\ section_end \in Nat
      BY SectionBounds DEF SectionInv, SectionTypeOK, BitsCounted
    <2>2. CASE stage' \in {"truncated", "io"} /\ UNCHANGED <<bits, want>>
      BY <2>1, <2>2 DEF bits, BitsCounted
    <2>3. CASE /\ ~(UsedUp /\ AtEnd)
               /\ position' = IF UsedUp THEN position + 1 ELSE position
               /\ used' = IF UsedUp THEN 1 ELSE used + 1
               /\ total_bits' = total_bits + 1
               /\ want' = want - 1
      <3>1. CASE UsedUp
        <4>1. position' = position + 1 /\ used' = 1 /\ position < section_end /\ used = BYTE
          BY <2>1, <2>3, <3>1 DEF UsedUp, AtEnd
        <4>2. (position + 1) * BYTE = position * BYTE + BYTE /\ position * BYTE \in Int
          BY <2>1
        <4>3. total_bits' + BYTE = position' * BYTE + used'
          BY <2>1, <2>3, <4>1, <4>2
        <4> QED
          BY <1>1, <2>1, <2>3, <4>1, <4>3 DEF BitsCounted
      <3>2. CASE ~UsedUp
        <4>1. position' = position /\ used' = used + 1 /\ used < BYTE
          BY <2>1, <2>3, <3>2 DEF UsedUp
        <4>2. position * BYTE \in Int
          BY <2>1
        <4>3. total_bits' + BYTE = position' * BYTE + used'
          BY <2>1, <2>3, <4>1, <4>2
        <4> QED
          BY <1>1, <2>1, <2>3, <4>1, <4>3 DEF BitsCounted
      <3> QED
        BY <3>1, <3>2
    <2> QED
      BY <1>1, <2>2, <2>3
  <1>5. SectionTypeOK'
    BY <1>2, <1>3, <1>4 DEF SectionInv, SectionTypeOK, Ended
  <1>6. SectorsPlanned' /\ SectorsSelected' /\ OutputWritten' /\ GroupsChosen' /\ SectionDone'
    <2> USE <1>2 DEF SectionInv, SectorsPlanned, SectorsSelected, OutputWritten, GroupsChosen, SectionDone
    <2>1. CASE stage' = stage
      BY <1>3, <2>1
    <2>2. CASE stage' = "truncated"
      BY <2>2
    <2>3. CASE stage' = "io"
      BY <2>3
    <2> QED
      BY <1>3, <2>1, <2>2, <2>3
  <1>7. BytesCovered'
    BY <1>2 DEF SectionInv, BytesCovered
  <1> QED
    BY <1>4, <1>5, <1>6, <1>7 DEF SectionInv

(* What the steps have in common that read no bit.                         *)
LEMMA BitsKept ==
  ASSUME SectionInv, UNCHANGED <<arguments, bits>>
  PROVE  /\ BitsCounted'
         /\ UNCHANGED <<output_len, section_end, budget, position, used, total_bits>>
  BY DEF SectionInv, BitsCounted, arguments, bits

LEMMA ReadGroupsKeepsInv == SectionInv /\ ReadGroups => SectionInv'
  <1> SUFFICES ASSUME SectionInv, ReadGroups PROVE SectionInv'
    OBVIOUS
  <1>1. /\ stage = "groups" /\ UNCHANGED <<arguments, bits, reserved, selectors, output>>
        /\ \/ /\ group_count' = 1 /\ sector_size' = output_len
              /\ sector_count' = DivCeil(output_len, sector_size')
              /\ stage' = "tables" /\ want' = TableField
           \/ /\ stage' = "sectors" /\ want' = SectorField
              /\ UNCHANGED <<sector_size, sector_count>>
    BY DEF ReadGroups
  <1>2. group_count' \in 1..GroupValues
    <2>1. PICK field \in 0..(GroupValues - 1) : group_count' = field + 1
      BY DEF ReadGroups
    <2> QED
      BY <2>1
  <1>3. /\ BitsCounted'
        /\ UNCHANGED <<output_len, section_end, budget, position, used, total_bits>>
    BY <1>1, BitsKept
  <1>4. output = << >> /\ selectors = << >> /\ output_len \in Nat \ {0}
    BY <1>1, SectionBounds DEF SectionInv, OutputWritten, GroupsChosen
  <1>5. sector_size' \in Nat /\ sector_count' \in 0..output_len
    <2>1. DivCeil(output_len, output_len) \in 0..output_len
      BY <1>4, SectorsSuffice
    <2> QED
      BY <1>1, <1>4, <2>1 DEF SectionInv, SectionTypeOK
  <1>6. output' = << >> /\ selectors' = << >> /\ << >> \in Seq(0..(group_count' - 1))
        /\ Len(<< >>) = 0
    BY <1>1, <1>4
  <1>7. want' \in Nat /\ stage' \in {"tables", "sectors"} /\ group_count' \in 0..GroupValues
    BY <1>1, <1>2
  <1>8. SectionTypeOK'
    BY <1>1, <1>3, <1>5, <1>6, <1>7 DEF SectionInv, SectionTypeOK, Ended
  <1>9. SectorsPlanned'
    BY <1>1, <1>2, <1>3, <1>4 DEF SectorsPlanned, DivCeil
  <1>10. SectorsSelected' /\ BytesCovered' /\ OutputWritten' /\ GroupsChosen' /\ SectionDone'
    BY <1>6, <1>7 DEF SectorsSelected, BytesCovered, OutputWritten, GroupsChosen, SectionDone
  <1> QED
    BY <1>3, <1>8, <1>9, <1>10 DEF SectionInv

LEMMA ReadSectorsKeepsInv == SectionInv /\ ReadSectors => SectionInv'
  <1> SUFFICES ASSUME SectionInv, ReadSectors PROVE SectionInv'
    OBVIOUS
  <1>1. /\ stage = "sectors"
        /\ sector_count' = DivCeil(output_len, sector_size')
        /\ UNCHANGED <<arguments, bits, group_count, selectors, output>>
        /\ \/ /\ Fits(sector_count')
              /\ reserved' = sector_count' /\ stage' = "tables" /\ want' = TableField
           \/ stage' = "memory" /\ UNCHANGED <<reserved, want>>
    BY DEF ReadSectors
  <1>2. sector_size' \in Nat \ {0}
    <2>1. PICK field \in 0..(SectorValues - 1) : sector_size' = (field + 1) * SECTOR_STEP
      BY DEF ReadSectors
    <2>2. (field + 1) * SECTOR_STEP = field * SECTOR_STEP + SECTOR_STEP
          /\ field * SECTOR_STEP \in Nat
      OBVIOUS
    <2> QED
      BY <2>1, <2>2
  <1>3. /\ BitsCounted'
        /\ UNCHANGED <<output_len, section_end, budget, position, used, total_bits>>
    BY <1>1, BitsKept
  <1>4. output = << >> /\ selectors = << >> /\ output_len \in Nat \ {0} /\ budget \in Nat
    BY <1>1, SectionBounds DEF SectionInv, OutputWritten, GroupsChosen
  <1>5. sector_count' \in 0..output_len
    BY <1>1, <1>2, <1>4, SectorsSuffice
  <1>6. reserved' \in 0..budget /\ want' \in Nat /\ stage' \in {"tables", "memory"}
    BY <1>1, <1>4, <1>5 DEF SectionInv, SectionTypeOK, Fits
  <1>7. SectionTypeOK'
    BY <1>1, <1>2, <1>3, <1>4, <1>5, <1>6 DEF SectionInv, SectionTypeOK, Ended
  <1>8. SectorsPlanned'
    BY <1>1, <1>2, <1>3 DEF SectionInv, SectorsPlanned
  <1>9. SectorsSelected' /\ BytesCovered' /\ OutputWritten' /\ GroupsChosen' /\ SectionDone'
    BY <1>1, <1>4, <1>6 DEF SectorsSelected, BytesCovered, OutputWritten, GroupsChosen, SectionDone
  <1> QED
    BY <1>3, <1>7, <1>8, <1>9 DEF SectionInv

(* Steps that only change what is read next.                               *)
LEMMA QuietKeepsInv ==
  ASSUME SectionInv, UNCHANGED <<arguments, bits, layout, reserved, selectors, output>>,
         want' \in Nat, stage \in {"tables", "selectors", "body"},
         \/ stage' = stage
         \/ stage' \in {"selectors", "refused"} /\ output = << >>
         \/ stage' = "refused"
         \/ /\ stage' = "body" /\ stage \in {"tables", "selectors"}
            /\ group_count = 1 \/ Len(selectors) = sector_count
         \/ /\ stage' \in {"done", "trailing"} /\ stage = "body" /\ Len(output) = output_len
            /\ stage' = "done" => position = section_end
  PROVE  SectionInv'
  <1>1. UNCHANGED <<output_len, section_end, budget, position, used, total_bits,
                    group_count, sector_size, sector_count, reserved, selectors,
                    output>>
    BY DEF arguments, bits, layout
  <1>2. BitsCounted' /\ BytesCovered'
    BY <1>1 DEF SectionInv, BitsCounted, BytesCovered
  <1>3. SectionTypeOK'
    BY <1>1 DEF SectionInv, SectionTypeOK, Ended
  <1>4. SectorsPlanned'
    BY <1>1 DEF SectionInv, SectorsPlanned
  <1>5. SectorsSelected' /\ OutputWritten' /\ GroupsChosen' /\ SectionDone'
    BY <1>1 DEF SectionInv, SectorsSelected, OutputWritten, GroupsChosen, SectionDone
  <1> QED
    BY <1>2, <1>3, <1>4, <1>5 DEF SectionInv

LEMMA ReadSelectorKeepsInv == SectionInv /\ ReadSelector => SectionInv'
  <1> SUFFICES ASSUME SectionInv, ReadSelector PROVE SectionInv'
    OBVIOUS
  <1>1. PICK group \in 0..(group_count - 1) : selectors' = Append(selectors, group)
    BY DEF ReadSelector
  <1>2. /\ stage = "selectors" /\ stage' = stage /\ Len(selectors) < sector_count
        /\ want' \in Nat
        /\ UNCHANGED <<arguments, bits, layout, reserved, output>>
    BY DEF ReadSelector
  <1>3. UNCHANGED <<output_len, section_end, budget, position, used, total_bits,
                    group_count, sector_size, sector_count, reserved, output>>
    BY <1>2 DEF arguments, bits, layout
  <1>4. /\ selectors \in Seq(0..(group_count - 1))
        /\ output = << >> /\ sector_count \in Nat
    BY <1>2, SectionBounds DEF SectionInv, SectionTypeOK, OutputWritten
  <1>5. selectors' \in Seq(0..(group_count - 1)) /\ Len(selectors') <= sector_count
    <2>1. Len(selectors') = Len(selectors) + 1 /\ Len(selectors) \in Nat
      BY <1>1, <1>4
    <2> QED
      BY <1>1, <1>2, <1>4, <2>1
  <1>6. SectionTypeOK'
    BY <1>2, <1>3, <1>5 DEF SectionInv, SectionTypeOK, Ended
  <1>7. BitsCounted' /\ SectorsPlanned'
    BY <1>2, <1>3 DEF SectionInv, BitsCounted, SectorsPlanned
  <1>8. BytesCovered' /\ SectorsSelected' /\ OutputWritten' /\ GroupsChosen' /\ SectionDone'
    BY <1>2, <1>3, <1>4 DEF BytesCovered, SectorsSelected, OutputWritten, GroupsChosen, SectionDone
  <1> QED
    BY <1>6, <1>7, <1>8 DEF SectionInv

(* The selector of the next byte is that of its sector.                    *)
LEMMA NextByte ==
  ASSUME SectionInv, stage = "body", Len(output) < output_len
  PROVE  /\ GroupOfNext \in 0..(group_count - 1)
         /\ group_count = 1 => GroupOfNext = 0
         /\ group_count # 1 =>
              /\ SectorOfNext + 1 \in 1..Len(selectors)
              /\ GroupOfNext = selectors[SectorOfNext + 1]
              /\ Len(output) + 1 > ((SectorOfNext + 1) - 1) * sector_size
              /\ Len(output) + 1 <= (SectorOfNext + 1) * sector_size
  <1>1. /\ output_len \in Nat \ {0} /\ sector_size \in Nat \ {0} /\ Len(output) \in Nat
        /\ sector_count = DivCeil(output_len, sector_size)
        /\ group_count = 1 \/ Len(selectors) = sector_count
        /\ group_count \in Nat /\ group_count >= 1
        /\ selectors \in Seq(0..(group_count - 1))
    BY SectionBounds DEF SectionInv, SectorsPlanned, SectorsSelected, SectionTypeOK
  <1> DEFINE n == Len(output) q == n \div sector_size
  <1>2. n \in 0..(output_len - 1)
    BY <1>1
  <1>3. q \in 0..(sector_count - 1) /\ n >= q * sector_size /\ n < (q + 1) * sector_size
    BY <1>1, <1>2, SectorsSuffice
  <1>4. SectorOfNext = q
    BY DEF SectorOfNext
  <1> HIDE DEF n, q
  <1>5. CASE group_count = 1
    BY <1>5 DEF GroupOfNext
  <1>6. CASE group_count # 1
    <2>1. q + 1 \in 1..Len(selectors) /\ (q + 1) - 1 = q
      BY <1>1, <1>3, <1>6
    <2>2. GroupOfNext = selectors[q + 1]
      BY <1>4, <1>6 DEF GroupOfNext
    <2>3. selectors[q + 1] \in 0..(group_count - 1)
      BY <1>1, <2>1
    <2>4. n + 1 > q * sector_size /\ n + 1 <= (q + 1) * sector_size
      <3>1. n \in Nat /\ q * sector_size \in Int /\ (q + 1) * sector_size \in Int
        BY <1>1, <1>2, <1>3
      <3> QED
        BY <1>3, <3>1
    <2> QED
      BY <1>4, <1>6, <2>1, <2>2, <2>3, <2>4 DEF n
  <1> QED
    BY <1>5, <1>6

LEMMA DecodeByteKeepsInv == SectionInv /\ DecodeByte => SectionInv'
  <1> SUFFICES ASSUME SectionInv, DecodeByte PROVE SectionInv'
    OBVIOUS
  <1>1. /\ stage = "body" /\ stage' = stage /\ Len(output) < output_len
        /\ output' = Append(output, GroupOfNext) /\ want' \in Nat
        /\ UNCHANGED <<arguments, bits, layout, reserved, selectors>>
    BY DEF DecodeByte
  <1>2. UNCHANGED <<output_len, section_end, budget, position, used, total_bits,
                    group_count, sector_size, sector_count, reserved, selectors>>
    BY <1>1 DEF arguments, bits, layout
  <1>3. /\ output \in Seq(0..(group_count - 1)) /\ Len(output) \in Nat
        /\ output_len \in Nat
    BY SectionBounds DEF SectionInv, SectionTypeOK
  <1> DEFINE s == SectorOfNext + 1 g == GroupOfNext m == Len(output) + 1
  <1>4. /\ g \in 0..(group_count - 1)
        /\ group_count = 1 => g = 0
        /\ group_count # 1 => /\ s \in 1..Len(selectors) /\ g = selectors[s]
                              /\ m > (s - 1) * sector_size /\ m <= s * sector_size
    BY <1>1, NextByte
  <1> HIDE DEF s, g
  <1>5. output' = Append(output, g)
    BY <1>1 DEF g
  <1>6. /\ output' \in Seq(0..(group_count - 1)) /\ Len(output') = m
        /\ output'[m] = g /\ \A n \in 1..Len(output) : output'[n] = output[n]
    BY <1>3, <1>4, <1>5
  <1>7. SectionTypeOK'
    BY <1>1, <1>2, <1>3, <1>6 DEF SectionInv, SectionTypeOK, Ended
  <1>8. BytesCovered'
    <2>1. ASSUME NEW n \in 1..m
          PROVE  IF group_count = 1 THEN output'[n] = 0
                 ELSE \E t \in 1..Len(selectors) :
                        /\ output'[n] = selectors[t]
                        /\ n > (t - 1) * sector_size
                        /\ n <= t * sector_size
      <3>1. CASE n = m
        BY <1>4, <1>6, <3>1
      <3>2. CASE n # m
        <4>1. n \in 1..Len(output)
          BY <1>3, <3>2
        <4> QED
          BY <1>6, <4>1 DEF SectionInv, BytesCovered
      <3> QED
        BY <3>1, <3>2
    <2> QED
      BY <1>2, <1>6, <2>1 DEF BytesCovered
  <1>9. SectorsPlanned' /\ SectorsSelected' /\ BitsCounted' /\ OutputWritten' /\ GroupsChosen' /\ SectionDone'
    BY <1>1, <1>2 DEF SectionInv, SectorsPlanned, SectorsSelected, BitsCounted, OutputWritten, GroupsChosen, SectionDone
  <1> QED
    BY <1>7, <1>8, <1>9 DEF SectionInv

LEMMA SectionNextKeepsInv == SectionInv /\ [SectionNext]_section_vars => SectionInv'
  <1> SUFFICES ASSUME SectionInv, [SectionNext]_section_vars PROVE SectionInv'
    OBVIOUS
  <1>1. CASE Refuse
    BY <1>1, QuietKeepsInv DEF Refuse, SectionInv, SectionTypeOK
  <1>2. CASE ReadCode
    BY <1>2, QuietKeepsInv DEF ReadCode
  <1>3. CASE TablesBuilt
    BY <1>3, QuietKeepsInv DEF TablesBuilt, SectionInv, OutputWritten
  <1>4. CASE SelectorsRead
    BY <1>4, QuietKeepsInv DEF SelectorsRead
  <1>5. CASE FinishSection
    BY <1>5, QuietKeepsInv DEF FinishSection, WholeSection, SectionInv, SectionTypeOK
  <1>6. CASE UNCHANGED section_vars
    <2>1. UNCHANGED <<output_len, section_end, budget, position, used, total_bits,
                      group_count, sector_size, sector_count, reserved, selectors,
                      output, want, stage>>
      BY <1>6 DEF section_vars, arguments, bits, layout
    <2>2. SectionTypeOK' /\ BitsCounted' /\ BytesCovered'
      BY <2>1 DEF SectionInv, SectionTypeOK, BitsCounted, BytesCovered, Ended
    <2> QED
      BY <2>1, <2>2 DEF SectionInv, SectorsPlanned, SectorsSelected, OutputWritten, GroupsChosen, SectionDone
  <1> QED
    BY <1>1, <1>2, <1>3, <1>4, <1>5, <1>6, ReadBitKeepsInv, ReadGroupsKeepsInv,
       ReadSectorsKeepsInv, ReadSelectorKeepsInv, DecodeByteKeepsInv DEF SectionNext

LEMMA SectionInvariance == SectionSpec => []SectionInv
  BY SectionInitInv, SectionNextKeepsInv, PTL DEF SectionSpec

(* Every byte of a window is read with the codes of its sector, for every  *)
(* length of the output and every size of the sectors.                     *)
THEOREM SectorsCoverWindow == SectionSpec => []SectorsCover
  <1>1. SectionInv => SectorsCover
    <2> SUFFICES ASSUME SectionInv PROVE SectorsCover
      OBVIOUS
    <2>1. ASSUME stage = "body", group_count > 1, Len(output) < output_len
          PROVE  SectorOfNext < Len(selectors)
      <3>1. group_count # 1 /\ Len(selectors) \in Nat /\ Len(output) \in Nat
        BY <2>1, SectionBounds DEF SectionInv
      <3>2. SectorOfNext + 1 \in 1..Len(selectors)
        BY <2>1, <3>1, NextByte
      <3>3. SectorOfNext \in Int
        <4>1. sector_size \in Nat \ {0}
          BY <2>1, SectionBounds DEF SectionInv, SectorsPlanned
        <4> QED
          BY <3>1, <4>1, ModDivision DEF SectorOfNext
      <3> QED
        BY <3>1, <3>2, <3>3
    <2> QED
      BY <2>1 DEF SectionInv, BytesCovered, SectorsCover
  <1> QED
    BY <1>1, SectionInvariance, PTL

(* The bits of a section that is accepted end in its last byte.            *)
THEOREM AcceptedSectionsWhole == SectionSpec => []AcceptedIsWhole
  <1>1. SectionInv => AcceptedIsWhole
    <2> SUFFICES ASSUME SectionInv, stage = "done"
                 PROVE  /\ Len(output) = output_len
                        /\ section_end = DivCeil(total_bits, BYTE)
      BY DEF AcceptedIsWhole
    <2>1. /\ Len(output) = output_len /\ position = section_end
          /\ total_bits + BYTE = position * BYTE + used
          /\ position \in Nat /\ used \in 1..BYTE /\ total_bits \in Nat
      BY SectionBounds DEF SectionInv, SectionDone, BitsCounted, SectionTypeOK
    <2>2. total_bits + BYTE - 1 = BYTE * position + (used - 1)
          /\ used - 1 \in 0..(BYTE - 1)
      <3>1. position * BYTE = BYTE * position /\ position * BYTE \in Int
        BY <2>1
      <3> QED
        BY <2>1, <3>1
    <2>3. (BYTE * position + (used - 1)) \div BYTE = position
      <3> DEFINE r == used - 1 a == BYTE * position + r
      <3>1. r \in 0..(BYTE - 1) /\ BYTE * position \in Nat /\ a \in Nat
        BY <2>1
      <3>2. position <= a \div BYTE
        <4>1. BYTE * position <= a
          BY <3>1
        <4> QED
          BY <2>1, <3>1, <4>1, DivAtLeast
      <3>3. ~(position + 1 <= a \div BYTE)
        <4>1. a \div BYTE \in Int /\ a = BYTE * (a \div BYTE) + (a % BYTE)
              /\ a % BYTE \in 0..(BYTE - 1)
          BY <3>1, ModDivision, ModRange
        <4> SUFFICES ASSUME position + 1 <= a \div BYTE PROVE FALSE
          OBVIOUS
        <4> DEFINE e == (a \div BYTE) - (position + 1)
        <4>2. e \in Nat /\ a \div BYTE = (position + 1) + e
          BY <2>1, <4>1
        <4> HIDE DEF e
        <4>3. BYTE * ((position + 1) + e) = BYTE * position + BYTE + BYTE * e
              /\ BYTE * e \in Nat
          BY <2>1, <4>2
        <4> DEFINE b == BYTE * position d == BYTE * e m == a % BYTE
        <4>4. b + r = b + BYTE + d + m
          BY <4>1, <4>2, <4>3
        <4>5. b \in Nat /\ d \in Nat /\ r \in 0..(BYTE - 1) /\ m \in 0..(BYTE - 1)
          BY <3>1, <4>1, <4>3
        <4> HIDE DEF b, d, m, r
        <4> QED
          BY <4>4, <4>5
      <3>4. a \div BYTE \in Int
        BY <3>1, ModDivision
      <3> HIDE DEF a
      <3>5. a \div BYTE = position
        BY <2>1, <3>2, <3>3, <3>4
      <3> QED
        BY <3>5 DEF a
    <2>4. section_end = (total_bits + BYTE - 1) \div BYTE
      BY <2>1, <2>2, <2>3
    <2> QED
      BY <2>1, <2>4 DEF DivCeil
  <1> QED
    BY <1>1, SectionInvariance, PTL
====
