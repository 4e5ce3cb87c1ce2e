----------------------------- MODULE DataLemmas -----------------------------
(***************************************************************************)
(* What the proofs of several components use: the arithmetic of            *)
(* remainders, and induction and recursion over data, stated with sets and *)
(* functions where the library's theorems have predicates and operators as *)
(* parameters.  What a recursive function or a fold computes follows.      *)
(***************************************************************************)
EXTENDS Integers, Sequences, FiniteSetTheorems, WellFoundedInduction, TLAPS

(* Remainders.                                                             *)
LEMMA ModRange ==
  ASSUME NEW d \in Nat \ {0}, NEW n \in Nat
  PROVE  n % d \in 0..(d - 1)
  OBVIOUS

LEMMA ModUnique ==
  ASSUME NEW d \in Nat \ {0}, NEW q \in Int, NEW r \in 0..(d - 1)
  PROVE  (d * q + r) % d = r
  BY SMTT(30)

LEMMA ModSmall ==
  ASSUME NEW d \in Nat \ {0}, NEW r \in 0..(d - 1)
  PROVE  r % d = r
  BY SMTT(30)

LEMMA ModDivision ==
  ASSUME NEW d \in Nat \ {0}, NEW n \in Nat
  PROVE  n = d * (n \div d) + (n % d) /\ n \div d \in Int
  BY SMTT(30)

(* A full period more leaves the phase as it is.                           *)
LEMMA PeriodKept ==
  ASSUME NEW x \in Nat, NEW d \in Nat \ {0}
  PROVE  (x + d) % d = x % d
  <1>1. PICK q \in Int, r \in 0..(d - 1) : x = d * q + r /\ x % d = r
    BY ModRange, ModDivision
  <1>2. x + d = d * (q + 1) + r
    <2>1. d * (q + 1) = d * q + d
      BY <1>1
    <2> QED
      BY <1>1, <2>1
  <1> QED
    BY <1>1, <1>2, ModUnique

(* Going on from a phase is going on from the place it is the phase of.    *)
LEMMA PhaseAdds ==
  ASSUME NEW x \in Nat, NEW y \in Nat, NEW d \in Nat \ {0}
  PROVE  ((x % d) + y) % d = (x + y) % d
  <1>1. PICK q \in Int, r \in 0..(d - 1) : x = d * q + r /\ x % d = r
    BY ModRange, ModDivision
  <1>2. r + y \in Nat
    BY <1>1
  <1>3. PICK p \in Int, s \in 0..(d - 1) : r + y = d * p + s /\ (r + y) % d = s
    BY <1>2, ModRange, ModDivision
  <1>4. x + y = d * (q + p) + s
    <2>1. d * (q + p) = d * q + d * p
      OBVIOUS
    <2> QED
      BY <1>1, <1>3, <2>1
  <1>5. (x + y) % d = s
    <2>1. \A m \in Int : (d * m + s) % d = s
      BY ModUnique
    <2> QED
      BY <1>4, <2>1, q + p \in Int
  <1> QED
    BY <1>1, <1>3, <1>5

(* What the quotient is at least and at most.                             *)
LEMMA DivAtLeast ==
  ASSUME NEW a \in Nat, NEW d \in Nat \ {0}, NEW k \in Nat, d * k <= a
  PROVE  k <= a \div d
  <1>1. a = d * (a \div d) + (a % d) /\ a % d \in 0..(d - 1) /\ a \div d \in Int
    BY ModDivision, ModRange
  <1> DEFINE q == a \div d r == a % d
  <1> SUFFICES ASSUME q + 1 <= k PROVE FALSE
    BY <1>1
  <1>2. a = d * q + r /\ r \in 0..(d - 1) /\ q \in Int
    BY <1>1
  <1> HIDE DEF q, r
  <1>3. PICK e \in Nat : k = (q + 1) + e
    <2>1. k - (q + 1) \in Nat /\ k = (q + 1) + (k - (q + 1))
      BY <1>2
    <2> QED
      BY <2>1
  <1>4. d * k = d * q + d + d * e /\ d * e \in Nat /\ d * q \in Int
    BY <1>2, <1>3
  <1> QED
    BY <1>2, <1>4

LEMMA DivAtMost ==
  ASSUME NEW a \in Nat, NEW d \in Nat \ {0}, NEW k \in Nat, a <= d * k
  PROVE  a \div d <= k /\ a \div d \in Nat
  <1>1. a = d * (a \div d) + (a % d) /\ a % d \in 0..(d - 1) /\ a \div d \in Int
    BY ModDivision, ModRange
  <1> DEFINE q == a \div d r == a % d
  <1>2. a = d * q + r /\ r \in 0..(d - 1) /\ q \in Int
    BY <1>1
  <1> HIDE DEF q, r
  <1>3. q <= k
    <2> SUFFICES ASSUME k + 1 <= q PROVE FALSE
      BY <1>2
    <2>1. PICK e \in Nat : q = (k + 1) + e
      <3>1. q - (k + 1) \in Nat /\ q = (k + 1) + (q - (k + 1))
        BY <1>2
      <3> QED
        BY <3>1
    <2>2. d * q = d * k + d + d * e /\ d * e \in Nat /\ d * k \in Int
      BY <2>1
    <2> QED
      BY <1>2, <2>2
  <1>4. q \in Nat
    <2> SUFFICES ASSUME q <= -1 PROVE FALSE
      BY <1>2
    <2>1. PICK e \in Nat : q = (-1) - e
      <3>1. (-1) - q \in Nat /\ q = (-1) - ((-1) - q)
        BY <1>2
      <3> QED
        BY <3>1
    <2>2. d * q = (-d) - d * e /\ d * e \in Nat
      BY <2>1
    <2> QED
      BY <1>2, <2>2
  <1> QED
    BY <1>3, <1>4 DEF q

LEMMA ModSuccessor ==
  ASSUME NEW d \in Nat \ {0}, NEW n \in Nat
  PROVE  ((n % d) + 1) % d = (n + 1) % d
  BY PhaseAdds

(* The blocks of a table lie one behind the other.                         *)
LEMMA BlockIndex ==
  ASSUME NEW c \in Nat \ {0}, NEW b \in Nat \ {0},
         NEW k \in 0..(c - 1), NEW n \in 0..(b - 1)
  PROVE  k * b + n \in 0..(c * b - 1)
  <1>1. k * b \in Nat /\ k * b <= (c - 1) * b
    BY SMTT(30)
  <1>2. (c - 1) * b = c * b - b
    BY SMTT(30)
  <1>3. c * b \in Nat
    BY SMTT(30)
  <1> QED
    BY <1>1, <1>2, <1>3

-----------------------------------------------------------------------------
(* f is what a first value and a step to each next value give, for all     *)
(* numbers or up to one.                                                   *)
Iterates(f, b, step) ==
  f[0] = b /\ \A n \in Nat : f[n + 1] = step[<<n, f[n]>>]
IteratesUpTo(f, m, b, step) ==
  f = [k \in 0..m |-> IF k = 0 THEN b ELSE step[<<k - 1, f[k - 1]>>]]

(* f folds every subset of S, whose elements are picked in some order.     *)
Folds(f, S, b, step, pick) ==
  f = [s \in SUBSET S |->
         IF s = {} THEN b ELSE step[<<pick[s], f[s \ {pick[s]}]>>]]
Picks(pick, S) == \A s \in SUBSET S : s # {} => pick[s] \in s
-----------------------------------------------------------------------------
(* A set that has 0, and with each number the next, has them all.          *)
LEMMA Induction ==
  ASSUME NEW S, 0 \in S, \A n \in Nat : n \in S => n + 1 \in S
  PROVE  Nat \subseteq S
  <1> DEFINE T == Nat \ S
             R == OpToRel(<, Nat)
  <1>1. IsWellFoundedOn(R, Nat)
    BY NatLessThanWellFounded
  <1>2. ASSUME NEW x \in Nat, NEW y \in Nat, y < x
        PROVE  <<y, x>> \in R
    BY <1>2 DEF OpToRel
  <1> HIDE DEF R
  <1>3. SUFFICES ASSUME T # {} PROVE FALSE
    OBVIOUS
  <1>4. PICK x \in T : \A y \in T : ~ (<<y, x>> \in R)
    BY <1>1, <1>3, WFMin
  <1>5. x # 0 /\ x - 1 \in Nat
    OBVIOUS
  <1>6. <<x - 1, x>> \in R
    BY <1>2, <1>5
  <1>7. x - 1 \in S
    BY <1>4, <1>5, <1>6
  <1> QED
    BY <1>5, <1>7

(* The same up to a number.                                                *)
LEMMA InductionUpTo ==
  ASSUME NEW m \in Nat, NEW S, 0 \in S,
         \A n \in 0..(m - 1) : n \in S => n + 1 \in S
  PROVE  0..m \subseteq S
  <1> DEFINE U == {n \in Nat : n <= m => n \in S}
  <1>1. 0 \in U
    OBVIOUS
  <1>2. ASSUME NEW n \in Nat, n \in U
        PROVE  n + 1 \in U
    BY <1>2
  <1> HIDE DEF U
  <1>3. Nat \subseteq U
    BY <1>1, <1>2, Induction
  <1> QED
    BY <1>3 DEF U

(* A first value and a step from each value to the next define a function. *)
LEMMA Recursion ==
  ASSUME NEW V, NEW b \in V, NEW step \in [Nat \X V -> V]
  PROVE  \E f \in [Nat -> V] : Iterates(f, b, step)
  <1> DEFINE Part(n) ==
               {g \in [0..n -> V] :
                  /\ g[0] = b
                  /\ \A k \in 0..(n - 1) : g[k + 1] = step[<<k, g[k]>>]}
  <1>1. \A n \in Nat : Part(n) # {}
    <2> DEFINE S == {n \in Nat : Part(n) # {}}
    <2>1. 0 \in S
      <3>1. [i \in 0..0 |-> b] \in Part(0)
        OBVIOUS
      <3> QED
        BY <3>1
    <2>2. ASSUME NEW n \in Nat, n \in S
          PROVE  n + 1 \in S
      <3>1. PICK g : g \in Part(n)
        BY <2>2
      <3>2. /\ g \in [0..n -> V] /\ g[0] = b
            /\ \A k \in 0..(n - 1) : g[k + 1] = step[<<k, g[k]>>]
        BY <3>1
      <3> DEFINE last == step[<<n, g[n]>>]
                 h == [i \in 0..(n + 1) |-> IF i = n + 1 THEN last ELSE g[i]]
      <3>3. last \in V
        <4>1. <<n, g[n]>> \in Nat \X V
          BY <3>2
        <4> QED
          BY <4>1
      <3>4. h \in [0..(n + 1) -> V] /\ h[0] = b
        BY <3>2, <3>3
      <3>5. h[n + 1] = last /\ \A k \in 0..n : h[k] = g[k]
        OBVIOUS
      <3> HIDE DEF h
      <3>6. ASSUME NEW k \in 0..((n + 1) - 1)
            PROVE  h[k + 1] = step[<<k, h[k]>>]
        <4>1. CASE k = n
          BY <3>5, <4>1
        <4>2. CASE k # n
          <5>1. k \in 0..(n - 1) /\ k \in 0..n /\ k + 1 \in 0..n
            BY <4>2
          <5> QED
            BY <3>2, <3>5, <5>1
        <4> QED
          BY <4>1, <4>2
      <3>7. h \in Part(n + 1)
        BY <3>4, <3>6
      <3> QED
        BY <3>7
    <2> HIDE DEF S
    <2>3. Nat \subseteq S
      BY <2>1, <2>2, Induction
    <2> QED
      BY <2>3 DEF S
  <1>2. ASSUME NEW n \in Nat, NEW g \in Part(n)
        PROVE  /\ g \in [0..n -> V] /\ g[0] = b
               /\ \A k \in 0..(n - 1) : g[k + 1] = step[<<k, g[k]>>]
    OBVIOUS
  <1>3. ASSUME NEW m \in Nat, NEW n \in Nat, m <= n,
               NEW g \in Part(m), NEW h \in Part(n), NEW k \in 0..m
        PROVE  g[k] = h[k]
    <2> DEFINE S == {i \in 0..m : g[i] = h[i]}
    <2>1. 0 \in S
      OBVIOUS
    <2>2. ASSUME NEW i \in 0..(m - 1), i \in S
          PROVE  i + 1 \in S
      <3>1. i \in 0..(n - 1) /\ i + 1 \in 0..m
        BY <1>3
      <3>2. g[i + 1] = step[<<i, g[i]>>] /\ h[i + 1] = step[<<i, h[i]>>]
        BY <3>1
      <3> QED
        BY <2>2, <3>1, <3>2
    <2> HIDE DEF S
    <2>3. 0..m \subseteq S
      BY <2>1, <2>2, InductionUpTo
    <2> QED
      BY <2>3 DEF S
  <1> HIDE DEF Part
  <1> DEFINE part == [n \in Nat |-> CHOOSE g : g \in Part(n)]
             f == [n \in Nat |-> part[n][n]]
  <1>4. ASSUME NEW n \in Nat
        PROVE  part[n] \in Part(n)
    BY <1>1
  <1> HIDE DEF part
  <1>5. ASSUME NEW n \in Nat
        PROVE  f[n] \in V /\ f[n] = part[n + 1][n]
    <2>1. /\ n + 1 \in Nat /\ n <= n + 1 /\ n \in 0..n
          /\ part[n] \in Part(n) /\ part[n + 1] \in Part(n + 1)
      BY <1>4
    <2>2. part[n][n] = part[n + 1][n]
      BY <1>3, <2>1
    <2>3. part[n] \in [0..n -> V]
      BY <1>2, <2>1
    <2> QED
      BY <2>1, <2>2, <2>3
  <1>6. f \in [Nat -> V] /\ f[0] = b
    BY <1>2, <1>4, <1>5
  <1>7. ASSUME NEW n \in Nat
        PROVE  f[n + 1] = step[<<n, f[n]>>]
    <2>1. /\ n + 1 \in Nat /\ n \in 0..((n + 1) - 1)
          /\ part[n + 1] \in Part(n + 1)
      BY <1>4
    <2>2. part[n + 1][n + 1] = step[<<n, part[n + 1][n]>>]
      BY <1>2, <2>1
    <2>3. f[n + 1] = part[n + 1][n + 1] /\ f[n] = part[n + 1][n]
      BY <1>5, <2>1
    <2> HIDE DEF f
    <2> QED
      BY <2>2, <2>3
  <1> HIDE DEF f
  <1> QED
    BY <1>6, <1>7 DEF Iterates

(* The same up to a number, as a recursive definition has it.              *)
LEMMA RecursionUpTo ==
  ASSUME NEW m \in Nat, NEW V, NEW b \in V, NEW step \in [Nat \X V -> V]
  PROVE  \E f \in [0..m -> V] : IteratesUpTo(f, m, b, step)
  <1>1. PICK g \in [Nat -> V] : Iterates(g, b, step)
    BY Recursion
  <1> DEFINE f == [k \in 0..m |-> g[k]]
  <1>2. ASSUME NEW k \in 0..m, k # 0
        PROVE  f[k] = step[<<k - 1, f[k - 1]>>]
    <2>1. k - 1 \in Nat /\ k - 1 \in 0..m /\ (k - 1) + 1 = k
      BY <1>2
    <2>2. g[k] = step[<<k - 1, g[k - 1]>>]
      BY <1>1, <2>1 DEF Iterates
    <2>3. f[k] = g[k] /\ f[k - 1] = g[k - 1]
      BY <2>1
    <2> HIDE DEF f
    <2> QED
      BY <2>2, <2>3
  <1>3. f \in [0..m -> V] /\ f[0] = b
    BY <1>1 DEF Iterates
  <1> HIDE DEF f
  <1>4. IteratesUpTo(f, m, b, step)
    BY <1>2, <1>3 DEF IteratesUpTo
  <1> QED
    BY <1>3, <1>4

(* Recursion over the subsets of a finite set, one element at a time.      *)
LEMMA SetRecursion ==
  ASSUME NEW S, IsFiniteSet(S), NEW V, NEW b \in V,
         NEW step \in [S \X V -> V],
         NEW pick, Picks(pick, S)
  PROVE  \E f \in [SUBSET S -> V] : Folds(f, S, b, step, pick)
  <1> DEFINE F == [SUBSET S -> V]
             turn(g) == [s \in SUBSET S |->
                           IF s = {} THEN b
                           ELSE step[<<pick[s], g[s \ {pick[s]}]>>]]
             turns == [x \in Nat \X F |-> turn(x[2])]
  <1>0. ASSUME NEW s \in SUBSET S, s # {}
        PROVE  pick[s] \in s
    BY <1>0 DEF Picks
  <1>1. ASSUME NEW g \in F
        PROVE  turn(g) \in F
    <2>1. ASSUME NEW s \in SUBSET S, s # {}
          PROVE  step[<<pick[s], g[s \ {pick[s]}]>>] \in V
      <3>1. pick[s] \in S /\ s \ {pick[s]} \in SUBSET S
        BY <1>0, <2>1
      <3>2. <<pick[s], g[s \ {pick[s]}]>> \in S \X V
        BY <3>1
      <3> QED
        BY <3>2
    <2> QED
      BY <2>1
  <1>2. turns \in [Nat \X F -> F]
    <2>1. \A x \in Nat \X F : x[2] \in F
      OBVIOUS
    <2> HIDE DEF turn, F
    <2> QED
      BY <1>1, <2>1
  <1>3. [s \in SUBSET S |-> b] \in F
    OBVIOUS
  <1>4. ASSUME NEW n \in Nat, NEW g \in F
        PROVE  turns[<<n, g>>] = turn(g)
    OBVIOUS
  <1> HIDE DEF F, turns
  <1>5. PICK G \in [Nat -> F] : \A n \in Nat : G[n + 1] = turns[<<n, G[n]>>]
    <2>1. \E g \in [Nat -> F] : Iterates(g, [s \in SUBSET S |-> b], turns)
      BY <1>2, <1>3, Recursion
    <2> QED
      BY <2>1 DEF Iterates
  <1> DEFINE f == [s \in SUBSET S |-> G[Cardinality(s) + 1][s]]
  <1>6. ASSUME NEW n \in Nat
        PROVE  G[n + 1] = turn(G[n])
    <2>1. G[n] \in F
      BY <1>5
    <2> QED
      BY <1>4, <1>5, <2>1
  <1>7. ASSUME NEW s \in SUBSET S, s # {}
        PROVE  f[s] = step[<<pick[s], f[s \ {pick[s]}]>>]
    <2> DEFINE r == s \ {pick[s]}
    <2>1. IsFiniteSet(s) /\ pick[s] \in s
      BY <1>0, <1>7, FS_Subset
    <2>2. r \in SUBSET S /\ Cardinality(r) \in Nat
          /\ Cardinality(s) = Cardinality(r) + 1
      <3>1. r \in SUBSET S /\ IsFiniteSet(r)
        BY <2>1, FS_Subset
      <3>2. Cardinality(r) = Cardinality(s) - 1
        BY <2>1, FS_RemoveElement
      <3>3. Cardinality(r) \in Nat /\ Cardinality(s) \in Nat
        BY <2>1, <3>1, FS_CardinalityType
      <3> HIDE DEF r
      <3> QED
        BY <3>1, <3>2, <3>3
    <2>3. G[Cardinality(s) + 1] = turn(G[Cardinality(s)])
      <3>1. Cardinality(s) \in Nat
        BY <2>1, FS_CardinalityType
      <3> QED
        BY <1>6, <3>1
    <2>4. f[s] = step[<<pick[s], G[Cardinality(s)][r]>>]
      BY <1>7, <2>3
    <2>5. f[r] = G[Cardinality(r) + 1][r]
      BY <2>2
    <2> HIDE DEF f, r
    <2>6. f[s] = step[<<pick[s], f[r]>>]
      BY <2>2, <2>4, <2>5
    <2> QED
      BY <2>6 DEF r
  <1>8. f[{}] = b
    <2>1. Cardinality({}) = 0 /\ {} \in SUBSET S
      BY FS_EmptySet
    <2>2. G[0 + 1] = turn(G[0])
      BY <1>6
    <2>3. turn(G[0])[{}] = b
      BY <2>1
    <2>4. f[{}] = G[0 + 1][{}]
      BY <2>1
    <2> QED
      BY <2>2, <2>3, <2>4
  <1>9. f \in [SUBSET S -> V]
    <2>1. ASSUME NEW s \in SUBSET S
          PROVE  f[s] \in V
      <3>1. Cardinality(s) + 1 \in Nat
        BY FS_Subset, FS_CardinalityType
      <3>2. G[Cardinality(s) + 1] \in [SUBSET S -> V]
        BY <1>5, <3>1 DEF F
      <3> QED
        BY <3>2
    <2> QED
      BY <2>1
  <1> HIDE DEF f
  <1>10. Folds(f, S, b, step, pick)
    BY <1>7, <1>8, <1>9 DEF Folds
  <1> QED
    BY <1>9, <1>10

(* f sums v over every subset of S, as the folds of the libraries do.      *)
Sums(f, S, v) ==
  f = [s \in SUBSET S |->
         IF s = {} THEN 0
         ELSE v[CHOOSE x \in s : TRUE] + f[s \ {CHOOSE x \in s : TRUE}]]

LEMMA SumExists ==
  ASSUME NEW S, IsFiniteSet(S), NEW v \in [S -> Nat]
  PROVE  \E f : Sums(f, S, v)
  <1> DEFINE pick == [s \in SUBSET S |-> CHOOSE x \in s : TRUE]
             step == [y \in S \X Nat |-> v[y[1]] + y[2]]
  <1>1. Picks(pick, S)
    BY DEF Picks
  <1>2. step \in [S \X Nat -> Nat]
    <2>1. ASSUME NEW y \in S \X Nat
          PROVE  v[y[1]] + y[2] \in Nat
      <3>1. v[y[1]] \in Nat /\ y[2] \in Nat
        OBVIOUS
      <3> QED
        BY <3>1
    <2> QED
      BY <2>1
  <1>3. ASSUME NEW s \in SUBSET S
        PROVE  pick[s] = CHOOSE x \in s : TRUE
    OBVIOUS
  <1>4. ASSUME NEW x \in S, NEW n \in Nat
        PROVE  step[<<x, n>>] = v[x] + n
    OBVIOUS
  <1> HIDE DEF pick, step
  <1>5. 0 \in Nat
    OBVIOUS
  <1>6. PICK f \in [SUBSET S -> Nat] : Folds(f, S, 0, step, pick)
    BY <1>1, <1>2, <1>5, SetRecursion, Zenon
  <1>7. ASSUME NEW s \in SUBSET S, s # {}
        PROVE  step[<<pick[s], f[s \ {pick[s]}]>>] = v[pick[s]] + f[s \ {pick[s]}]
    <2>1. pick[s] \in S /\ s \ {pick[s]} \in SUBSET S
      BY <1>1, <1>7 DEF Picks
    <2>2. f[s \ {pick[s]}] \in Nat
      BY <2>1
    <2> QED
      BY <1>4, <2>1, <2>2
  <1>8. Sums(f, S, v)
    <2> DEFINE left(s) == step[<<pick[s], f[s \ {pick[s]}]>>]
               right(s) == v[CHOOSE x \in s : TRUE]
                           + f[s \ {CHOOSE x \in s : TRUE}]
    <2>1. \A s \in SUBSET S : s # {} => left(s) = right(s)
      BY <1>3, <1>7
    <2>2. f = [s \in SUBSET S |-> IF s = {} THEN 0 ELSE left(s)]
      BY <1>6 DEF Folds
    <2> HIDE DEF left, right
    <2>3. [s \in SUBSET S |-> IF s = {} THEN 0 ELSE left(s)]
          = [s \in SUBSET S |-> IF s = {} THEN 0 ELSE right(s)]
      BY <2>1
    <2> QED
      BY <2>2, <2>3, Zenon DEF Sums, right
  <1> QED
    BY <1>8

LEMMA SumType ==
  ASSUME NEW S, IsFiniteSet(S), NEW v \in [S -> Nat],
         NEW f, Sums(f, S, v)
  PROVE  f \in [SUBSET S -> Nat]
  <1> DEFINE Natural(n) == \A t \in SUBSET S : Cardinality(t) = n => f[t] \in Nat
             U == {n \in Nat : Natural(n)}
  <1>1. 0 \in U
    <2>1. ASSUME NEW t \in SUBSET S, Cardinality(t) = 0
          PROVE  f[t] \in Nat
      <3>1. t = {}
        BY <2>1, FS_Subset, FS_EmptySet
      <3> QED
        BY <3>1 DEF Sums
    <2> QED
      BY <2>1
  <1>2. ASSUME NEW n \in Nat, n \in U
        PROVE  n + 1 \in U
    <2>1. ASSUME NEW t \in SUBSET S, Cardinality(t) = n + 1
          PROVE  f[t] \in Nat
      <3> DEFINE p == CHOOSE x \in t : TRUE
                 r == t \ {p}
      <3>1. IsFiniteSet(t) /\ t # {}
        BY <2>1, FS_Subset, FS_EmptySet
      <3>2. p \in t /\ p \in S /\ r \in SUBSET S
        BY <3>1
      <3>3. f[t] = v[p] + f[r]
        BY <3>1 DEF Sums
      <3> HIDE DEF p
      <3>4. Cardinality(r) = n
        <4>1. Cardinality(r) = Cardinality(t) - 1
          BY <3>1, <3>2, FS_RemoveElement
        <4> QED
          BY <2>1, <4>1
      <3> HIDE DEF r
      <3>5. v[p] \in Nat /\ f[r] \in Nat
        BY <1>2, <3>2, <3>4
      <3> QED
        BY <3>3, <3>5
    <2> QED
      BY <2>1
  <1> HIDE DEF U
  <1>3. Nat \subseteq U
    BY <1>1, <1>2, Induction
  <1>4. \A t \in SUBSET S : f[t] \in Nat
    BY <1>3, FS_Subset, FS_CardinalityType DEF U
  <1>5. f = [t \in SUBSET S |-> f[t]]
    BY DEF Sums
  <1> QED
    BY <1>4, <1>5

(* A sum over a set does not depend on the order it is taken in.           *)
Adds(f, S, v) ==
  f \in [SUBSET S -> Nat]
  /\ \A s \in SUBSET S : \A x \in s : f[s] = v[x] + f[s \ {x}]

LEMMA SumAdds ==
  ASSUME NEW S, IsFiniteSet(S), NEW v \in [S -> Nat],
         NEW f, Sums(f, S, v)
  PROVE  Adds(f, S, v)
  <1>0. f \in [SUBSET S -> Nat]
    BY SumType
  <1> DEFINE AddsAt(n) == \A t \in SUBSET S : Cardinality(t) = n =>
                          \A y \in t : f[t] = v[y] + f[t \ {y}]
             U == {n \in Nat : AddsAt(n)}
  <1>1. 0 \in U
    <2>1. ASSUME NEW t \in SUBSET S, Cardinality(t) = 0
          PROVE  t = {}
      BY <2>1, FS_Subset, FS_EmptySet
    <2> QED
      BY <2>1
  <1>2. ASSUME NEW n \in Nat, n \in U
        PROVE  n + 1 \in U
    <2> SUFFICES ASSUME NEW t \in SUBSET S, Cardinality(t) = n + 1,
                        NEW y \in t
                 PROVE  f[t] = v[y] + f[t \ {y}]
      <3>1. n + 1 \in Nat
        OBVIOUS
      <3> QED
        BY <3>1, Zenon
    <2> DEFINE p == CHOOSE z \in t : TRUE
    <2>1. t # {} /\ p \in t /\ p \in S /\ t \ {p} \in SUBSET S
      OBVIOUS
    <2>2. f[t] = v[p] + f[t \ {p}]
      BY <2>1 DEF Sums
    <2> HIDE DEF p
    <2>3. CASE y = p
      BY <2>2, <2>3
    <2>4. CASE y # p
      <3> DEFINE r == (t \ {p}) \ {y}
      <3>1. /\ t \ {p} \in SUBSET S /\ t \ {y} \in SUBSET S
            /\ y \in t \ {p} /\ p \in t \ {y}
            /\ r \in SUBSET S /\ (t \ {y}) \ {p} = r
        BY <2>1, <2>4
      <3>2. IsFiniteSet(t)
        BY FS_Subset
      <3>3. Cardinality(t \ {p}) = n /\ Cardinality(t \ {y}) = n
        <4>1. Cardinality(t \ {p}) = Cardinality(t) - 1
          BY <2>1, <3>2, FS_RemoveElement
        <4>2. Cardinality(t \ {y}) = Cardinality(t) - 1
          BY <3>2, FS_RemoveElement
        <4> QED
          BY <4>1, <4>2
      <3> HIDE DEF r
      <3>4. f[t \ {p}] = v[y] + f[r]
        BY <1>2, <3>1, <3>3 DEF r
      <3>5. f[t \ {y}] = v[p] + f[r]
        BY <1>2, <3>1, <3>3
      <3>6. v[y] \in Nat /\ v[p] \in Nat /\ f[r] \in Nat
        BY <1>0, <2>1, <3>1
      <3> QED
        BY <2>2, <3>4, <3>5, <3>6
    <2> QED
      BY <2>3, <2>4
  <1> HIDE DEF U
  <1>3. Nat \subseteq U
    BY <1>1, <1>2, Induction
  <1>4. ASSUME NEW s \in SUBSET S, NEW x \in s
        PROVE  f[s] = v[x] + f[s \ {x}]
    <2>1. Cardinality(s) \in Nat
      BY FS_Subset, FS_CardinalityType
    <2> QED
      BY <1>3, <2>1 DEF U
  <1> QED
    BY <1>0, <1>4 DEF Adds

(* A sum over the first numbers grows by one value at a time.              *)
Grows(f, v, n) ==
  f[{}] = 0 /\ \A k \in 1..n : f[1..k] = v[k] + f[1..(k - 1)]

LEMMA PrefixSums ==
  ASSUME NEW n \in Nat, IsFiniteSet(1..n),
         NEW v \in [1..n -> Nat], NEW f, Sums(f, 1..n, v)
  PROVE  Grows(f, v, n)
  <1>1. f[{}] = 0
    BY DEF Sums
  <1>2. ASSUME NEW k \in 1..n
        PROVE  f[1..k] = v[k] + f[1..(k - 1)]
    <2>1. 1..k \in SUBSET (1..n) /\ k \in 1..k
      OBVIOUS
    <2>2. f[1..k] = v[k] + f[(1..k) \ {k}]
      <3>1. Adds(f, 1..n, v)
        BY SumAdds
      <3> QED
        BY <2>1, <3>1 DEF Adds
    <2>3. (1..k) \ {k} = 1..(k - 1)
      OBVIOUS
    <2> QED
      BY <2>2, <2>3
  <1> QED
    BY <1>1, <1>2 DEF Grows

(* Sums that grow by the same values are the same.                         *)
SameSums(f, g, m) == f[1..m] = g[1..m]

LEMMA GrowingAgree ==
  ASSUME NEW n \in Nat, NEW v, NEW f, Grows(f, v, n),
         NEW m \in 0..n, NEW w, NEW g, Grows(g, w, m),
         \A k \in 1..m : w[k] = v[k]
  PROVE  SameSums(g, f, m)
  <1> DEFINE U == {k \in 0..m : g[1..k] = f[1..k]}
  <1>1. 0 \in U
    <2>1. 1..0 = {} /\ 0 \in 0..m
      OBVIOUS
    <2>2. f[{}] = 0 /\ g[{}] = 0
      BY DEF Grows
    <2> QED
      BY <2>1, <2>2
  <1>2. ASSUME NEW k \in 0..(m - 1), k \in U
        PROVE  k + 1 \in U
    <2>1. k + 1 \in 1..m /\ k + 1 \in 1..n /\ k + 1 \in 0..m /\ (k + 1) - 1 = k
      OBVIOUS
    <2>2. f[1..(k + 1)] = v[k + 1] + f[1..k]
      BY <2>1 DEF Grows
    <2>3. g[1..(k + 1)] = w[k + 1] + g[1..k]
      BY <2>1 DEF Grows
    <2> QED
      BY <1>2, <2>1, <2>2, <2>3
  <1> HIDE DEF U
  <1>3. m \in Nat
    OBVIOUS
  <1>4. 0..m \subseteq U
    BY <1>1, <1>2, <1>3, InductionUpTo
  <1>5. m \in U
    BY <1>3, <1>4
  <1> QED
    BY <1>5 DEF U, SameSums

LEMMA SumsSwap ==
  ASSUME NEW a \in Nat, NEW b \in Nat, NEW c \in Nat
  PROVE  a + (b + c) = b + (a + c)
  OBVIOUS

(* P has the sums of the first values of w.                                *)
RunningSum(P, w, n) ==
  P \in [0..n -> Nat] /\ P[0] = 0 /\ \A k \in 1..n : P[k] = w[k] + P[k - 1]

(* Each value of P sums a beginning of w.                                  *)
SumsBeginnings(P, w, n) ==
  /\ P = [k \in 0..n |-> P[k]]
  /\ \A k \in 0..n : \E f \in [SUBSET (1..k) -> Nat] :
       Grows(f, w, k) /\ P[k] = f[1..k]

LEMMA BeginningsRun ==
  ASSUME NEW n \in Nat, NEW w, NEW P, SumsBeginnings(P, w, n)
  PROVE  RunningSum(P, w, n)
  <1>1. ASSUME NEW k \in 0..n
        PROVE  \E f \in [SUBSET (1..k) -> Nat] : Grows(f, w, k) /\ P[k] = f[1..k]
    BY DEF SumsBeginnings
  <1>2. P \in [0..n -> Nat]
    <2>1. ASSUME NEW k \in 0..n
          PROVE  P[k] \in Nat
      BY <1>1
    <2>2. P = [k \in 0..n |-> P[k]]
      BY DEF SumsBeginnings
    <2> QED
      BY <2>1, <2>2
  <1>3. P[0] = 0
    <2>1. 0 \in 0..n /\ 1..0 = {}
      OBVIOUS
    <2>2. PICK f : Grows(f, w, 0) /\ P[0] = f[1..0]
      BY <1>1, <2>1
    <2> QED
      BY <2>1, <2>2 DEF Grows
  <1>4. ASSUME NEW k \in 1..n
        PROVE  P[k] = w[k] + P[k - 1]
    <2> DEFINE m == k - 1
    <2>1. k \in 0..n /\ m \in 0..n /\ m \in 0..k /\ k \in Nat /\ k \in 1..k
      OBVIOUS
    <2>2. PICK f : Grows(f, w, k) /\ P[k] = f[1..k]
      BY <1>1, <2>1
    <2>3. PICK g : Grows(g, w, m) /\ P[m] = g[1..m]
      BY <1>1, <2>1
    <2>4. f[1..k] = w[k] + f[1..m]
      BY <2>1, <2>2 DEF Grows
    <2> HIDE DEF m
    <2>5. SameSums(g, f, m)
      BY <2>1, <2>2, <2>3, GrowingAgree
    <2>6. P[k] = w[k] + P[m]
      BY <2>2, <2>3, <2>4, <2>5 DEF SameSums
    <2> QED
      BY <2>6 DEF m
  <1> QED
    BY <1>2, <1>3, <1>4 DEF RunningSum

(* Sums with and without the first value.                                  *)
Shifts(P, w, n, Q) == \A k \in 1..n : P[k] = w[1] + Q[k - 1]

LEMMA RunningShifts ==
  ASSUME NEW n \in Nat \ {0}, NEW w \in [1..n -> Nat], NEW P, RunningSum(P, w, n),
         NEW x, NEW Q, RunningSum(Q, x, n - 1),
         \A k \in 1..(n - 1) : x[k] = w[k + 1]
  PROVE  Shifts(P, w, n, Q)
  <1> DEFINE m == n - 1
             U == {i \in 0..m : P[i + 1] = w[1] + Q[i]}
  <1>1. m \in Nat /\ 1 \in 1..n /\ n = m + 1
    OBVIOUS
  <1>2. 0 \in U
    <2>1. P[1] = w[1] + P[1 - 1] /\ 1 - 1 = 0 /\ w[1] \in Nat /\ P[0] = 0 /\ Q[0] = 0
      BY <1>1 DEF RunningSum
    <2> QED
      BY <1>1, <2>1
  <1>3. ASSUME NEW i \in 0..(m - 1), i \in U
        PROVE  i + 1 \in U
    <2> DEFINE j == i + 1
    <2>1. j \in 0..m /\ j + 1 \in 1..n /\ (j + 1) - 1 = j /\ j \in 1..(n - 1)
          /\ j - 1 = i /\ i \in 0..(n - 1) /\ 1 \in 1..n
      OBVIOUS
    <2>2. P[j + 1] = w[j + 1] + P[j]
      BY <2>1 DEF RunningSum
    <2>3. Q[j] = w[j + 1] + Q[i]
      BY <2>1 DEF RunningSum
    <2>4. w[1] \in Nat /\ w[j + 1] \in Nat /\ Q[i] \in Nat
      BY <2>1 DEF RunningSum
    <2>5. P[j] = w[1] + Q[i]
      BY <1>3
    <2> HIDE DEF j
    <2>6. w[j + 1] + (w[1] + Q[i]) = w[1] + (w[j + 1] + Q[i])
      BY <2>4, SumsSwap
    <2>7. P[j + 1] = w[1] + Q[j]
      BY <2>2, <2>3, <2>5, <2>6, Zenon
    <2> QED
      BY <2>1, <2>7 DEF j
  <1> HIDE DEF U, m
  <1>4. 0..m \subseteq U
    BY <1>1, <1>2, <1>3, InductionUpTo
  <1>5. ASSUME NEW k \in 1..n
        PROVE  k - 1 \in 0..m /\ (k - 1) + 1 = k
    BY DEF m
  <1>6. ASSUME NEW k \in 1..n
        PROVE  P[k] = w[1] + Q[k - 1]
    BY <1>4, <1>5 DEF U
  <1> QED
    BY <1>6 DEF Shifts

(* A set of subsets that has the empty one, and each that it has but for   *)
(* one element, has them all.                                              *)
LEMMA SetInduction ==
  ASSUME NEW S, IsFiniteSet(S), NEW U, {} \in U,
         \A A \in SUBSET S : \A x \in A : A \ {x} \in U => A \in U
  PROVE  SUBSET S \subseteq U
  <1> DEFINE OfSize(n) == \A A \in SUBSET S : Cardinality(A) = n => A \in U
             N == {n \in Nat : OfSize(n)}
  <1>1. 0 \in N
    <2>1. ASSUME NEW A \in SUBSET S, Cardinality(A) = 0
          PROVE  A = {}
      BY <2>1, FS_Subset, FS_EmptySet
    <2> QED
      BY <2>1
  <1>2. ASSUME NEW n \in Nat, n \in N
        PROVE  n + 1 \in N
    <2>1. ASSUME NEW A \in SUBSET S, Cardinality(A) = n + 1
          PROVE  A \in U
      <3>1. IsFiniteSet(A) /\ A # {}
        BY <2>1, FS_Subset, FS_EmptySet
      <3>2. PICK x \in A : TRUE
        BY <3>1
      <3>3. Cardinality(A \ {x}) = n
        <4>1. Cardinality(A \ {x}) = Cardinality(A) - 1
          BY <3>1, FS_RemoveElement
        <4> QED
          BY <2>1, <4>1
      <3>4. A \ {x} \in U
        BY <1>2, <3>3
      <3> QED
        BY <3>4
    <2> QED
      BY <2>1
  <1> HIDE DEF N
  <1>3. Nat \subseteq N
    BY <1>1, <1>2, Induction
  <1>4. ASSUME NEW A \in SUBSET S
        PROVE  A \in U
    <2>1. Cardinality(A) \in Nat
      BY FS_Subset, FS_CardinalityType
    <2> QED
      BY <1>3, <2>1 DEF N
  <1> QED
    BY <1>4

(* A sum of values twice those of T, and of 1 outside of T.                *)
Doubles(v, S, u, T) == (\A x \in T : v[x] = 2 * u[x]) /\ (\A x \in S \ T : v[x] = 1)
SumsDouble(f, S, g, T) == f[S] = 2 * g[T] + Cardinality(S \ T)

LEMMA DoubledSum ==
  ASSUME NEW S, IsFiniteSet(S), NEW T \in SUBSET S,
         NEW v, NEW f, Adds(f, S, v), f[{}] = 0,
         NEW u \in [T -> Nat], NEW g, Adds(g, T, u), g[{}] = 0,
         Doubles(v, S, u, T)
  PROVE  SumsDouble(f, S, g, T)
  <1> DEFINE U == {A \in SUBSET S : f[A] = 2 * g[A \cap T] + Cardinality(A \ T)}
  <1>1. {} \in U
    <2>1. {} \cap T = {} /\ {} \ T = {} /\ {} \in SUBSET S /\ Cardinality({}) = 0
      BY FS_EmptySet
    <2> QED
      BY <2>1
  <1>2. ASSUME NEW A \in SUBSET S, NEW x \in A, A \ {x} \in U
        PROVE  A \in U
    <2> DEFINE B == A \ {x}
    <2>1. f[B] = 2 * g[B \cap T] + Cardinality(B \ T)
      BY <1>2
    <2>2. f[A] = v[x] + f[B]
      BY DEF Adds
    <2>3. /\ B \cap T \in SUBSET T /\ A \cap T \in SUBSET T
          /\ B \ T \in SUBSET S /\ A \ T \in SUBSET S
      OBVIOUS
    <2>4. g[B \cap T] \in Nat /\ g[A \cap T] \in Nat
      BY <2>3 DEF Adds
    <2>5. /\ IsFiniteSet(B \ T) /\ IsFiniteSet(A \ T)
          /\ Cardinality(B \ T) \in Nat /\ Cardinality(A \ T) \in Nat
      BY <2>3, FS_Subset, FS_CardinalityType
    <2> DEFINE gA == g[A \cap T] gB == g[B \cap T]
               cA == Cardinality(A \ T) cB == Cardinality(B \ T)
    <2>6. f[B] = 2 * gB + cB /\ f[A] = v[x] + f[B] /\ gA \in Nat /\ gB \in Nat
          /\ cA \in Nat /\ cB \in Nat
      BY <2>1, <2>2, <2>4, <2>5
    <2>7. CASE x \in T
      <3>1. (A \cap T) \ {x} = B \cap T /\ B \ T = A \ T /\ x \in A \cap T
        BY <2>7
      <3>2. g[A \cap T] = u[x] + g[(A \cap T) \ {x}]
        BY <2>3, <3>1 DEF Adds
      <3>3. gA = u[x] + gB /\ cA = cB
        BY <3>1, <3>2, Zenon
      <3>4. v[x] = 2 * u[x] /\ u[x] \in Nat
        BY <2>7 DEF Doubles
      <3> HIDE DEF B, gA, gB, cA, cB
      <3>5. f[A] = 2 * gA + cA
        <4>1. v[x] + (2 * gB + cB) = 2 * gA + cA
          BY <2>6, <3>3, <3>4
        <4> QED
          BY <2>6, <4>1, Zenon
      <3> QED
        BY <3>5 DEF gA, cA
    <2>8. CASE x \notin T
      <3>1. B \cap T = A \cap T /\ B \ T = (A \ T) \ {x} /\ x \in A \ T
        BY <2>8
      <3>2. Cardinality((A \ T) \ {x}) = Cardinality(A \ T) - 1
        BY <2>5, <3>1, FS_RemoveElement
      <3>3. gB = gA /\ cB = cA - 1
        BY <3>1, <3>2, Zenon
      <3>4. v[x] = 1
        BY <2>8 DEF Doubles
      <3> HIDE DEF B, gA, gB, cA, cB
      <3>5. f[A] = 2 * gA + cA
        <4>1. v[x] + (2 * gB + cB) = 2 * gA + cA
          BY <2>6, <3>3, <3>4
        <4> QED
          BY <2>6, <4>1, Zenon
      <3> QED
        BY <3>5 DEF gA, cA
    <2> QED
      BY <2>7, <2>8
  <1> HIDE DEF U
  <1>3. SUBSET S \subseteq U
    BY <1>1, <1>2, SetInduction
  <1>4. S \in U
    BY <1>3
  <1>5. S \cap T = T
    OBVIOUS
  <1> QED
    BY <1>4, <1>5 DEF U, SumsDouble
-----------------------------------------------------------------------------
(* g folds every subset of 1..n, the largest number last.                  *)
Largest(s) == CHOOSE x \in s : \A y \in s : x >= y
FoldsUp(g, n, b, step) ==
  g = [s \in SUBSET (1..n) |->
         IF s = {} THEN b
         ELSE step[<<Largest(s), g[s \ {Largest(s)}]>>]]

(* What it folds the beginnings of 1..n to, one after another.             *)
Climbs(P, V, n, b, step) ==
  /\ P \in [0..n -> V] /\ P[0] = b
  /\ \A k \in 1..n : P[k] = step[<<k, P[k - 1]>>]

LEMMA HasLargest ==
  ASSUME NEW n \in Nat, NEW s \in SUBSET (1..n), s # {}
  PROVE  Largest(s) \in s /\ \A y \in s : Largest(s) >= y
  <1> DEFINE U == {m \in 0..n : \A r \in SUBSET (1..m) : r # {} =>
                     \E x \in r : \A y \in r : x >= y}
  <1>1. 0 \in U
    <2>1. 0 \in 0..n /\ SUBSET (1..0) = {{}}
      OBVIOUS
    <2> QED
      BY <2>1
  <1>2. ASSUME NEW m \in 0..(n - 1), m \in U
        PROVE  m + 1 \in U
    <2>1. ASSUME NEW r \in SUBSET (1..(m + 1)), r # {}
          PROVE  \E x \in r : \A y \in r : x >= y
      <3>1. CASE m + 1 \in r
        BY <3>1
      <3>2. CASE m + 1 \notin r
        <4>1. r \in SUBSET (1..m)
          BY <3>2
        <4> QED
          BY <1>2, <2>1, <4>1
      <3> QED
        BY <3>1, <3>2
    <2> QED
      BY <2>1
  <1> HIDE DEF U
  <1>3. 0..n \subseteq U
    BY <1>1, <1>2, InductionUpTo
  <1>4. n \in U
    BY <1>3
  <1>5. \E x \in s : \A y \in s : x >= y
    BY <1>4 DEF U
  <1> QED
    BY <1>5 DEF Largest

LEMMA LargestOfAll ==
  ASSUME NEW n \in Nat \ {0}
  PROVE  Largest(1..n) = n
  <1> DEFINE S == 1..n
             l == Largest(S)
  <1>1. S \in SUBSET (1..n) /\ S # {} /\ n \in S
    OBVIOUS
  <1>2. l \in S /\ \A y \in S : l >= y
    BY <1>1, HasLargest
  <1> HIDE DEF l
  <1>3. l = n
    BY <1>1, <1>2
  <1> QED
    BY <1>3 DEF l

LEMMA FoldUpExists ==
  ASSUME NEW n \in Nat, NEW V, NEW b \in V, NEW step \in [(1..n) \X V -> V]
  PROVE  \E g \in [SUBSET (1..n) -> V] : FoldsUp(g, n, b, step)
  <1> DEFINE S == 1..n
             pick == [s \in SUBSET S |-> Largest(s)]
  <1>1. Picks(pick, S)
    BY HasLargest DEF Picks
  <1>2. IsFiniteSet(S)
    BY FS_Interval
  <1>3. \A s \in SUBSET S : pick[s] = Largest(s)
    OBVIOUS
  <1> HIDE DEF pick
  <1>4. PICK f \in [SUBSET S -> V] : Folds(f, S, b, step, pick)
    BY <1>1, <1>2, SetRecursion
  <1>5. FoldsUp(f, n, b, step)
    BY <1>3, <1>4 DEF Folds, FoldsUp
  <1> QED
    BY <1>5

(* What folds every subset of 1..n folds its beginnings one after another. *)
LEMMA Beginning ==
  ASSUME NEW n \in Nat, NEW k \in 1..n
  PROVE  /\ 1..k \in SUBSET (1..n) /\ 1..k # {} /\ Largest(1..k) = k
         /\ (1..k) \ {k} = 1..(k - 1)
  <1>1. k \in Nat \ {0}
    OBVIOUS
  <1>2. 1..k \in SUBSET (1..n) /\ 1..k # {} /\ (1..k) \ {k} = 1..(k - 1)
    BY <1>1
  <1> QED
    BY <1>1, <1>2, LargestOfAll

(* Values that stay in a set from each to the next.                        *)
LEMMA StaysIn ==
  ASSUME NEW n \in Nat, NEW V, NEW P, P = [k \in 0..n |-> P[k]], P[0] \in V,
         \A k \in 1..n : P[k - 1] \in V => P[k] \in V
  PROVE  P \in [0..n -> V]
  <1> DEFINE U == {k \in 0..n : P[k] \in V}
  <1>1. 0 \in U
    OBVIOUS
  <1>2. ASSUME NEW k \in 0..(n - 1), k \in U
        PROVE  k + 1 \in U
    <2>1. k + 1 \in 1..n /\ (k + 1) - 1 = k
      OBVIOUS
    <2> QED
      BY <1>2, <2>1
  <1> HIDE DEF U
  <1>3. 0..n \subseteq U
    BY <1>1, <1>2, InductionUpTo
  <1> QED
    BY <1>3 DEF U

(* A fold whose steps are known while its values stay in V.                *)
FoldsWithin(g, V, n, b, step) ==
  /\ g[{}] = b
  /\ \A s \in SUBSET (1..n) : s # {} /\ g[s \ {Largest(s)}] \in V =>
       g[s] = step[<<Largest(s), g[s \ {Largest(s)}]>>]

ClimbsTo(g, V, n, b, step) ==
  \E P : Climbs(P, V, n, b, step) /\ P[n] = g[1..n]

LEMMA FoldClimbs ==
  ASSUME NEW n \in Nat, NEW V, NEW b \in V, NEW step \in [(1..n) \X V -> V],
         NEW g, FoldsWithin(g, V, n, b, step)
  PROVE  ClimbsTo(g, V, n, b, step)
  <1> DEFINE P == [k \in 0..n |-> g[1..k]]
  <1>1. P[0] = b
    <2>1. 1..0 = {} /\ 0 \in 0..n
      OBVIOUS
    <2> QED
      BY <2>1 DEF FoldsWithin
  <1>2. ASSUME NEW k \in 1..n, P[k - 1] \in V
        PROVE  P[k] = step[<<k, P[k - 1]>>]
    <2>1. /\ 1..k \in SUBSET (1..n) /\ 1..k # {} /\ Largest(1..k) = k
          /\ (1..k) \ {k} = 1..(k - 1)
      BY Beginning
    <2>2. P[k] = g[1..k] /\ P[k - 1] = g[1..(k - 1)]
      OBVIOUS
    <2> QED
      BY <1>2, <2>1, <2>2 DEF FoldsWithin
  <1>3. P = [k \in 0..n |-> P[k]] /\ P[n] = g[1..n]
    OBVIOUS
  <1> HIDE DEF P
  <1>4. ASSUME NEW k \in 1..n, P[k - 1] \in V
        PROVE  P[k] \in V
    BY <1>2, <1>4
  <1>5. P \in [0..n -> V]
    BY <1>1, <1>3, <1>4, StaysIn
  <1>6. \A k \in 1..n : k - 1 \in 0..n
    OBVIOUS
  <1> QED
    BY <1>1, <1>2, <1>3, <1>5, <1>6 DEF Climbs, ClimbsTo
=============================================================================
