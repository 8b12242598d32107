------------------------- MODULE UseCaseTableProofs -------------------------
(***************************************************************************)
(* Proofs about UseCaseTable, for any documents, answers of the provider   *)
(* and budget.                                                             *)
(***************************************************************************)
EXTENDS UseCaseTable, SequenceTheorems, FiniteSetTheorems, WellFoundedInduction, TLAPS

(* Natural numbers: a set of them that is not empty has a least member, and *)
(* one that contains 0 and every successor is the whole.                   *)
LEMMA LeastNumber ==
    ASSUME NEW T \in SUBSET Nat, T # {}
    PROVE  \E x \in T : \A y \in T : x <= y
  <1> DEFINE R == {ss \in Nat \X Nat : ss[1] < ss[2]}
  <1>1. IsWellFoundedOn(R, Nat)
    BY NatLessThanWellFounded DEF OpToRel
  <1>2. \E x \in T : \A y \in T : ~ (<<y, x>> \in R)
    <2> HIDE DEF R
    <2> QED
      BY <1>1, WFMin
  <1>3. \A x, y \in T : <<y, x>> \notin R => x <= y
    OBVIOUS
  <1> QED
    BY <1>2, <1>3

LEMMA FromZero ==
    ASSUME NEW S \in SUBSET Nat, 0 \in S, \A n \in S : n + 1 \in S
    PROVE  S = Nat
  <1> SUFFICES ASSUME Nat \ S # {} PROVE FALSE
    OBVIOUS
  <1>1. PICK x \in Nat \ S : \A y \in Nat \ S : x <= y
    BY LeastNumber
  <1>2. x - 1 \in Nat /\ x - 1 \in S
    BY <1>1
  <1> QED
    BY <1>1, <1>2

(* A step that stays in V can be taken N times.                            *)
Steps(g, V, v, step, N) ==
    /\ g \in [0 .. N -> V]
    /\ g[0] = v
    /\ \A n \in 1 .. N : g[n] = step[<<n, g[n - 1]>>]

LEMMA StepsExist ==
    ASSUME NEW V, NEW v \in V, NEW step \in [Nat \X V -> V], NEW N \in Nat
    PROVE  \E g : Steps(g, V, v, step, N)
  <1> DEFINE S == {n \in Nat : \E g : Steps(g, V, v, step, n)}
  <1>1. 0 \in S
    <2> DEFINE g == [n \in 0 .. 0 |-> v]
    <2>1. Steps(g, V, v, step, 0)
      BY DEF Steps
    <2> QED
      BY <2>1
  <1>2. ASSUME NEW n \in S PROVE n + 1 \in S
    <2>1. PICK g : Steps(g, V, v, step, n)
      BY <1>2
    <2> DEFINE last == step[<<n + 1, g[n]>>]
               h == [m \in 0 .. n + 1 |-> IF m = n + 1 THEN last ELSE g[m]]
    <2>2. n \in Nat /\ g[n] \in V /\ last \in V
      BY <2>1 DEF Steps
    <2> HIDE DEF last
    <2>3. h \in [0 .. n + 1 -> V] /\ h[0] = v
      BY <2>1, <2>2 DEF Steps
    <2>4. ASSUME NEW m \in 1 .. n + 1 PROVE h[m] = step[<<m, h[m - 1]>>]
      <3>1. CASE m = n + 1
        <4>1. m \in 0 .. n + 1 /\ m - 1 \in 0 .. n + 1 /\ m - 1 = n /\ m - 1 # n + 1
          BY <2>2, <3>1
        <4>2. h[m] = last /\ h[m - 1] = g[m - 1]
          BY <3>1, <4>1
        <4> HIDE DEF h
        <4>3. last = step[<<m, g[m - 1]>>]
          BY <3>1, <4>1 DEF last
        <4> QED
          BY <4>2, <4>3
      <3>2. CASE m \in 1 .. n
        <4>1. g[m] = step[<<m, g[m - 1]>>]
          BY <2>1, <3>2 DEF Steps
        <4>2. h[m] = g[m] /\ h[m - 1] = g[m - 1]
          BY <2>2, <3>2
        <4> QED
          BY <4>1, <4>2
      <3> QED
        BY <2>2, <3>1, <3>2
    <2>5. Steps(h, V, v, step, n + 1)
      <3> HIDE DEF h
      <3> QED
        BY <2>3, <2>4 DEF Steps
    <2> QED
      BY <2>2, <2>5
  <1> HIDE DEF S
  <1>3. S = Nat
    BY <1>1, <1>2, FromZero DEF S
  <1> QED
    BY <1>3 DEF S
-----------------------------------------------------------------------------
(* Sets in an order, and what is picked from a sequence *)

(* A finite set of numbers has a largest.                                  *)
LEMMA MaxOf ==
    ASSUME NEW S \in SUBSET Int, IsFiniteSet(S), S # {}
    PROVE  Max(S) \in S /\ \A x \in S : x <= Max(S)
  <1>1. \E m \in S : \A x \in S : x <= m
    <2> DEFINE below(x) == {y \in S : y < x}
               T == {Cardinality(S \ below(x)) : x \in S}
    <2>1. \A x \in S : IsFiniteSet(S \ below(x)) /\ Cardinality(S \ below(x)) \in Nat
      BY FS_Difference, FS_CardinalityType
    <2>2. T \in SUBSET Nat /\ T # {}
      BY <2>1
    <2>3. PICK n \in T : \A k \in T : n <= k
      <3> HIDE DEF T
      <3> QED
        BY <2>2, LeastNumber
    <2>4. PICK m \in S : n = Cardinality(S \ below(m))
      BY <2>3
    <2>5. ASSUME NEW x \in S, ~ x <= m PROVE FALSE
      <3>1. m < x /\ ~ (m < m) /\ \A y \in S : y < m => y < x
        BY <2>5
      <3>2. S \ below(x) \in SUBSET (S \ below(m)) /\ m \in S \ below(m) /\ m \notin S \ below(x)
        BY <3>1, Zenon
      <3>3. Cardinality(S \ below(x)) <= Cardinality(S \ below(m))
            /\ Cardinality(S \ below(x)) # Cardinality(S \ below(m))
        <4> HIDE DEF below
        <4> QED
          BY <2>1, <3>2, FS_Subset
      <3>4. Cardinality(S \ below(x)) \in T
        OBVIOUS
      <3> HIDE DEF T, below
      <3> QED
        BY <2>1, <2>3, <2>4, <2>5, <3>3, <3>4
    <2> QED
      BY <2>5
  <1>2. PICK m \in S : \A x \in S : m >= x
    BY <1>1
  <1> QED
    BY <1>2 DEF Max

TotalOrder(S, R) ==
    /\ \A x \in S : <<x, x>> \in R
    /\ \A x, y \in S : <<x, y>> \in R \/ <<y, x>> \in R
    /\ \A x, y \in S : <<x, y>> \in R /\ <<y, x>> \in R => x = y
    /\ \A x, y, z \in S : <<x, y>> \in R /\ <<y, z>> \in R => <<x, z>> \in R

(* A finite set in a total order is numbered from 1, each member once.     *)
LEMMA InOrderFacts ==
    ASSUME NEW S, IsFiniteSet(S), NEW R, TotalOrder(S, R)
    PROVE  /\ Cardinality(S) \in Nat
           /\ InOrder(S, R) \in [1 .. Cardinality(S) -> S]
           /\ \A x \in S : \E n \in 1 .. Cardinality(S) : InOrder(S, R)[n] = x
           /\ \A m, n \in 1 .. Cardinality(S) : m # n => InOrder(S, R)[m] # InOrder(S, R)[n]
  <1> DEFINE below(x) == {y \in S : <<y, x>> \in R}
             N == Cardinality(S)
             rank == [x \in S |-> Cardinality(below(x))]
  <1>1. N \in Nat /\ IsFiniteSet(1 .. N) /\ Cardinality(1 .. N) = N
    <2>1. N \in Nat
      BY FS_CardinalityType
    <2> QED
      BY <2>1, FS_Interval
  <1>2. ASSUME NEW x \in S
        PROVE  /\ IsFiniteSet(below(x)) /\ Cardinality(below(x)) \in Nat
               /\ Cardinality(below(x)) <= N /\ Cardinality(below(x)) # 0
    <2>1. below(x) \in SUBSET S /\ x \in below(x)
      BY DEF TotalOrder
    <2> HIDE DEF below
    <2>2. IsFiniteSet(below(x)) /\ Cardinality(below(x)) <= N
      BY <2>1, FS_Subset
    <2> QED
      BY <2>1, <2>2, FS_CardinalityType, FS_EmptySet
  <1>3. rank \in [S -> 1 .. N]
    BY <1>1, <1>2
  <1>4. ASSUME NEW x \in S, NEW y \in S, rank[x] = rank[y], <<x, y>> \in R PROVE x = y
    <2>1. below(x) \in SUBSET below(y)
      BY <1>4 DEF TotalOrder
    <2>2. Cardinality(below(y)) = Cardinality(below(x))
      BY <1>4
    <2>3. below(y) = below(x)
      <3> HIDE DEF below
      <3> QED
        BY <1>2, <2>1, <2>2, FS_Subset
    <2>4. y \in below(y)
      BY DEF TotalOrder
    <2> QED
      BY <1>4, <2>3, <2>4 DEF TotalOrder
  <1> HIDE DEF rank
  <1>5. rank \in Injection(S, 1 .. N)
    <2>1. \A x, y \in S : rank[x] = rank[y] => x = y
      BY <1>4 DEF TotalOrder
    <2> QED
      BY <1>3, <2>1 DEF Injection, IsInjective
  <1>6. rank \in Surjection(S, 1 .. N)
    BY <1>1, <1>5, FS_Injection
  <1>7. \A n \in 1 .. N : \E x \in S : rank[x] = n
    BY <1>6 DEF Surjection
  <1> DEFINE f == [n \in 1 .. N |-> CHOOSE x \in S : Cardinality(below(x)) = n]
  <1>8. InOrder(S, R) = f
    BY DEF InOrder
  <1>9. \A n \in 1 .. N : f[n] \in S /\ rank[f[n]] = n
    BY <1>7 DEF rank
  <1>10. f \in [1 .. N -> S]
    BY <1>9
  <1>11. \A x \in S : rank[x] \in 1 .. N /\ f[rank[x]] = x
    BY <1>3, <1>5, <1>9 DEF Injection, IsInjective
  <1> HIDE DEF f
  <1>12. \A m, n \in 1 .. N : m # n => f[m] # f[n]
    BY <1>9
  <1>13. \A x \in S : \E n \in 1 .. N : f[n] = x
    BY <1>11
  <1> QED
    BY <1>1, <1>8, <1>10, <1>12, <1>13 DEF f

(* Positions of a sequence, numbered from 1, each once.                    *)
LEMMA PositionsFacts ==
    ASSUME NEW N \in Nat, NEW S \in SUBSET (1 .. N)
    PROVE  /\ IsFiniteSet(S) /\ Cardinality(S) \in Nat
           /\ Positions(S) \in [1 .. Cardinality(S) -> S]
           /\ \A x \in S : \E n \in 1 .. Cardinality(S) : Positions(S)[n] = x
           /\ \A m, n \in 1 .. Cardinality(S) : m # n => Positions(S)[m] # Positions(S)[n]
  <1> DEFINE R == {p \in S \X S : p[1] <= p[2]}
  <1>1. IsFiniteSet(S)
    <2>1. IsFiniteSet(1 .. N)
      BY FS_Interval
    <2> QED
      BY <2>1, FS_Subset
  <1>2. \A x, y \in S : <<x, y>> \in R <=> x <= y
    OBVIOUS
  <1> HIDE DEF R
  <1>3. TotalOrder(S, R)
    BY <1>2 DEF TotalOrder
  <1>4. /\ Cardinality(S) \in Nat
        /\ InOrder(S, R) \in [1 .. Cardinality(S) -> S]
        /\ \A x \in S : \E n \in 1 .. Cardinality(S) : InOrder(S, R)[n] = x
        /\ \A m, n \in 1 .. Cardinality(S) : m # n => InOrder(S, R)[m] # InOrder(S, R)[n]
    BY <1>1, <1>3, InOrderFacts
  <1>5. Positions(S) = InOrder(S, R)
    BY DEF Positions, R
  <1> QED
    BY <1>1, <1>4, <1>5

(* What is picked at some positions of a sequence is a sequence of these   *)
(* members, each position once.                                            *)
LEMMA PickedFacts ==
    ASSUME NEW X, NEW s \in Seq(X), NEW S \in SUBSET (1 .. Len(s))
    PROVE  /\ Cardinality(S) \in Nat
           /\ Picked(s, S) \in Seq({s[i] : i \in S})
           /\ DOMAIN Picked(s, S) = 1 .. Cardinality(S)
           /\ Len(Picked(s, S)) = Cardinality(S)
           /\ \A n \in DOMAIN Picked(s, S) : \E i \in S : Picked(s, S)[n] = s[i]
           /\ \A i \in S : \E n \in DOMAIN Picked(s, S) : Picked(s, S)[n] = s[i]
           /\ \A m, n \in DOMAIN Picked(s, S) : m # n =>
                \E i, j \in S : i # j /\ Picked(s, S)[m] = s[i] /\ Picked(s, S)[n] = s[j]
  <1>1. Len(s) \in Nat
    BY LenProperties
  <1> DEFINE at == Positions(S)
             N == Cardinality(S)
             f == [n \in 1 .. N |-> s[at[n]]]
             Y == {s[i] : i \in S}
  <1>2. /\ N \in Nat
        /\ at \in [1 .. N -> S]
        /\ \A x \in S : \E n \in 1 .. N : at[n] = x
        /\ \A m, n \in 1 .. N : m # n => at[m] # at[n]
    BY <1>1, PositionsFacts
  <1>3. Picked(s, S) = f
    <2>1. DOMAIN at = 1 .. N
      BY <1>2
    <2> HIDE DEF at, N
    <2> QED
      BY <2>1 DEF Picked, at
  <1> HIDE DEF at, N
  <1>4. \A n \in 1 .. N : at[n] \in S /\ s[at[n]] \in Y
    BY <1>2
  <1>5. f \in Seq(Y) /\ Len(f) = N
    <2> HIDE DEF Y
    <2> QED
      BY <1>2, <1>4, IsASeq
  <1>6. DOMAIN f = 1 .. N
    OBVIOUS
  <1>7. \A n \in 1 .. N : at[n] \in S /\ f[n] = s[at[n]]
    BY <1>2
  <1>8. \A i \in S : \E n \in 1 .. N : f[n] = s[i]
    BY <1>2
  <1> HIDE DEF f
  <1>9. \A m, n \in 1 .. N : m # n =>
          \E i, j \in S : i # j /\ f[m] = s[i] /\ f[n] = s[j]
    <2> SUFFICES ASSUME NEW m \in 1 .. N, NEW n \in 1 .. N, m # n
                 PROVE  \E i, j \in S : i # j /\ f[m] = s[i] /\ f[n] = s[j]
      OBVIOUS
    <2>1. at[m] \in S /\ at[n] \in S /\ at[m] # at[n]
      BY <1>2, <1>7
    <2>2. f[m] = s[at[m]] /\ f[n] = s[at[n]]
      BY <1>7
    <2> QED
      BY <2>1, <2>2
  <1>10. \A n \in 1 .. N : \E i \in S : f[n] = s[i]
    BY <1>7
  <1> HIDE DEF Y
  <1>11. /\ f \in Seq(Y) /\ DOMAIN f = 1 .. Cardinality(S) /\ Len(f) = Cardinality(S)
         /\ Cardinality(S) \in Nat
    BY <1>2, <1>5, <1>6 DEF N
  <1>12. /\ \A n \in DOMAIN f : \E i \in S : f[n] = s[i]
         /\ \A i \in S : \E n \in DOMAIN f : f[n] = s[i]
         /\ \A m, n \in DOMAIN f : m # n =>
              \E i, j \in S : i # j /\ f[m] = s[i] /\ f[n] = s[j]
    <2>1. \A m, n \in DOMAIN f : m # n =>
            \E i, j \in S : i # j /\ f[m] = s[i] /\ f[n] = s[j]
      BY <1>6, <1>9
    <2> QED
      BY <1>6, <1>8, <1>10, <2>1
  <1> QED
    BY <1>3, <1>11, <1>12 DEF Y

(* A list is a function over the numbers up to its length.                 *)
LEMMA SequenceOf ==
    ASSUME NEW s, NEW n \in Nat, DOMAIN s = 1 .. n, s = [i \in DOMAIN s |-> s[i]]
    PROVE  IsSequence(s) /\ Len(s) = n
  <1> DEFINE X == ToSet(s)
  <1>1. \A i \in 1 .. n : s[i] \in X
    BY DEF ToSet
  <1> HIDE DEF X
  <1> DEFINE t == [i \in 1 .. n |-> s[i]]
  <1>2. t \in Seq(X) /\ Len(t) = n
    BY <1>1, IsASeq
  <1>3. s = t
    OBVIOUS
  <1> HIDE DEF t
  <1> QED
    BY <1>2, <1>3 DEF IsSequence, X

LEMMA SequenceFacts ==
    ASSUME NEW s, IsSequence(s)
    PROVE  /\ Len(s) \in Nat /\ DOMAIN s = 1 .. Len(s) /\ s = [i \in DOMAIN s |-> s[i]]
           /\ s = <<>> <=> Len(s) = 0
           /\ s # <<>> => 1 \in DOMAIN s
  <1> DEFINE X == ToSet(s)
  <1>1. s \in Seq(X)
    BY DEF IsSequence
  <1> HIDE DEF X
  <1>2. Len(s) \in Nat /\ DOMAIN s = 1 .. Len(s) /\ s = [i \in DOMAIN s |-> s[i]]
    <2>1. s \in [1 .. Len(s) -> X]
      BY <1>1, LenProperties
    <2> QED
      BY <1>1, <2>1, LenProperties
  <1>3. s = <<>> <=> Len(s) = 0
    BY <1>1, EmptySeq
  <1> QED
    BY <1>2, <1>3

LEMMA NoneIsSequence == IsSequence(<<>>)
  BY EmptySeq DEF IsSequence

(* A list of lists of X.                                                   *)
LEMMA MembersType ==
    ASSUME NEW s, NEW X, IsSequence(s), \A i \in DOMAIN s : s[i] \in X
    PROVE  s \in Seq(X)
  <1>1. Len(s) \in Nat /\ DOMAIN s = 1 .. Len(s) /\ s = [i \in DOMAIN s |-> s[i]]
    BY SequenceFacts
  <1> DEFINE n == Len(s)
             t == [i \in 1 .. n |-> s[i]]
  <1>2. n \in Nat /\ \A i \in 1 .. n : s[i] \in X
    BY <1>1
  <1> HIDE DEF n
  <1>3. t \in Seq(X)
    BY <1>2, IsASeq
  <1> QED
    BY <1>1, <1>3 DEF n

LEMMA ListType ==
    ASSUME NEW X, NEW s \in Seq(X)
    PROVE  IsSequence(s) /\ \A i \in DOMAIN s : s[i] \in X
  <1>1. Len(s) \in Nat /\ DOMAIN s = 1 .. Len(s) /\ s \in [1 .. Len(s) -> X]
    BY LenProperties
  <1>2. s = [i \in DOMAIN s |-> s[i]]
    BY <1>1
  <1> QED
    BY <1>1, <1>2, SequenceOf

(* The members of s at the positions in S are picked, each position once.  *)
Picking(t, s, S) ==
    /\ IsSequence(t) /\ DOMAIN t = 1 .. Cardinality(S) /\ Cardinality(S) \in Nat
    /\ \A n \in DOMAIN t : \E i \in S : t[n] = s[i]
    /\ \A i \in S : \E n \in DOMAIN t : t[n] = s[i]
    /\ \A m, n \in DOMAIN t : m # n => \E i, j \in S : i # j /\ t[m] = s[i] /\ t[n] = s[j]

LEMMA PickedIsPicking ==
    ASSUME NEW s, IsSequence(s), NEW S \in SUBSET (DOMAIN s)
    PROVE  Picking(Picked(s, S), s, S)
  <1> DEFINE X == ToSet(s)
             t == Picked(s, S)
             Y == {s[i] : i \in S}
  <1>1. s \in Seq(X) /\ S \in SUBSET (1 .. Len(s))
    BY SequenceFacts DEF IsSequence
  <1> HIDE DEF X
  <1>2. /\ Cardinality(S) \in Nat
        /\ t \in Seq(Y)
        /\ DOMAIN t = 1 .. Cardinality(S)
        /\ \A n \in DOMAIN t : \E i \in S : t[n] = s[i]
        /\ \A i \in S : \E n \in DOMAIN t : t[n] = s[i]
        /\ \A m, n \in DOMAIN t : m # n =>
             \E i, j \in S : i # j /\ t[m] = s[i] /\ t[n] = s[j]
    <2>1. /\ Cardinality(S) \in Nat
          /\ Picked(s, S) \in Seq({s[i] : i \in S})
          /\ DOMAIN Picked(s, S) = 1 .. Cardinality(S)
          /\ Len(Picked(s, S)) = Cardinality(S)
          /\ \A n \in DOMAIN Picked(s, S) : \E i \in S : Picked(s, S)[n] = s[i]
          /\ \A i \in S : \E n \in DOMAIN Picked(s, S) : Picked(s, S)[n] = s[i]
          /\ \A m, n \in DOMAIN Picked(s, S) : m # n =>
               \E i, j \in S : i # j /\ Picked(s, S)[m] = s[i] /\ Picked(s, S)[n] = s[j]
      BY <1>1, PickedFacts
    <2> QED
      BY <2>1
  <1> HIDE DEF t, Y
  <1>3. IsSequence(t)
    BY <1>2, ListType
  <1> QED
    BY <1>2, <1>3 DEF Picking, t

(* The first of every key: k is the key of each position.                  *)
FirstAt(s, k) == {i \in DOMAIN s : \A j \in 1 .. (i - 1) : k[j] # k[i]}

LEMMA FirstFacts ==
    ASSUME NEW s, NEW k, IsSequence(s)
    PROVE  /\ FirstAt(s, k) \in SUBSET (DOMAIN s)
           /\ \A i \in DOMAIN s : \E j \in FirstAt(s, k) : k[j] = k[i]
           /\ \A i, j \in FirstAt(s, k) : k[i] = k[j] => i = j
  <1>1. Len(s) \in Nat /\ DOMAIN s = 1 .. Len(s)
    BY SequenceFacts
  <1>2. ASSUME NEW i \in DOMAIN s PROVE \E j \in FirstAt(s, k) : k[j] = k[i]
    <2> DEFINE T == {j \in DOMAIN s : k[j] = k[i]}
    <2>1. T \in SUBSET Nat /\ T # {}
      BY <1>1
    <2>2. PICK j \in T : \A x \in T : j <= x
      <3> HIDE DEF T
      <3> QED
        BY <2>1, LeastNumber
    <2>3. j \in DOMAIN s /\ k[j] = k[i] /\ \A x \in 1 .. (j - 1) : x \in DOMAIN s /\ ~ (j <= x)
      BY <1>1, <2>2
    <2>4. \A x \in 1 .. (j - 1) : k[x] # k[j]
      BY <2>2, <2>3
    <2> QED
      BY <2>3, <2>4 DEF FirstAt
  <1>3. ASSUME NEW i \in FirstAt(s, k), NEW j \in FirstAt(s, k), k[i] = k[j] PROVE i = j
    <2>1. i \in Nat /\ j \in Nat /\ i >= 1 /\ j >= 1
      BY <1>1 DEF FirstAt
    <2>2. ~ (i \in 1 .. (j - 1)) /\ ~ (j \in 1 .. (i - 1))
      BY <1>3 DEF FirstAt
    <2> QED
      BY <2>1, <2>2
  <1> QED
    BY <1>2, <1>3 DEF FirstAt

(* A list of lists, one after the other.                                   *)
LEMMA FlattenFacts ==
    ASSUME NEW X, NEW ss \in Seq(Seq(X))
    PROVE  /\ FlattenSeq(ss) \in Seq(X)
           /\ \A i \in DOMAIN ss : \A k \in DOMAIN ss[i] :
                \E m \in DOMAIN FlattenSeq(ss) : FlattenSeq(ss)[m] = ss[i][k]
  <1> DEFINE N == Len(ss)
             V == Seq(X)
             step == [p \in Nat \X V |-> IF p[1] \in 1 .. N THEN p[2] \o ss[p[1]] ELSE <<>>]
             Flat(f) == f = [i \in 1 .. N |-> IF i = 1 THEN ss[i] ELSE f[i - 1] \o ss[i]]
             g == CHOOSE f : Flat(f)
  <1>1. N \in Nat /\ <<>> \in V /\ DOMAIN ss = 1 .. N
    BY LenProperties, EmptySeq
  <1>2. \A n \in 1 .. N : ss[n] \in V
    BY ElementOfSeq
  <1>3. step \in [Nat \X V -> V]
    <2>1. \A n \in 1 .. N, out \in V : out \o ss[n] \in V
      BY <1>2, ConcatProperties
    <2> HIDE DEF V
    <2> QED
      BY <1>1, <2>1
  <1>4. CASE N = 0
    <2>1. ss = <<>> /\ FlattenSeq(ss) = ss
      BY <1>4, EmptySeq DEF FlattenSeq
    <2>2. FlattenSeq(ss) \in V
      BY <1>1, <2>1
    <2> HIDE DEF N
    <2>3. \A i \in DOMAIN ss : FALSE
      BY <1>1, <1>4
    <2> QED
      BY <2>2, <2>3
  <1>5. CASE N # 0
    <2> HIDE DEF N, step
    <2>1. PICK f : Steps(f, V, <<>>, step, N)
      <3> HIDE DEF V
      <3> QED
        BY <1>1, <1>3, StepsExist
    <2>2. ASSUME NEW n \in 1 .. N PROVE f[n - 1] \in V /\ f[n] = f[n - 1] \o ss[n]
      <3>1. n - 1 \in 0 .. N /\ n \in Nat
        BY <1>1
      <3>2. f[n - 1] \in V /\ f[n] = step[<<n, f[n - 1]>>]
        BY <2>1, <3>1 DEF Steps
      <3> QED
        BY <3>1, <3>2 DEF step
    <2> DEFINE h == [i \in 1 .. N |-> f[i]]
    <2>3. \A i \in 1 .. N : h[i] = IF i = 1 THEN ss[i] ELSE h[i - 1] \o ss[i]
      <3>1. f[0] = <<>>
        BY <2>1 DEF Steps
      <3>2. ASSUME NEW i \in 1 .. N, i # 1 PROVE h[i] = h[i - 1] \o ss[i]
        <4>1. i - 1 \in 1 .. N
          BY <1>1, <3>2
        <4> QED
          BY <2>2, <4>1
      <3>3. ASSUME NEW i \in 1 .. N, i = 1 PROVE h[i] = ss[i]
        <4>1. f[i] = f[i - 1] \o ss[i]
          BY <2>2
        <4>2. f[i - 1] = <<>>
          BY <3>1, <3>3
        <4>3. <<>> \o ss[i] = ss[i]
          BY <1>2, ConcatEmptySeq
        <4> QED
          BY <4>1, <4>2, <4>3
      <3> HIDE DEF h
      <3> QED
        BY <3>2, <3>3
    <2>4. Flat(h)
      <3> DEFINE e == [i \in 1 .. N |-> IF i = 1 THEN ss[i] ELSE h[i - 1] \o ss[i]]
      <3>1. DOMAIN h = 1 .. N /\ h = [i \in 1 .. N |-> h[i]]
        OBVIOUS
      <3> HIDE DEF h
      <3>2. h = e
        BY <2>3, <3>1
      <3> QED
        BY <3>2
    <2>5. Flat(g)
      <3> HIDE DEF Flat
      <3> QED
        BY <2>4
    <2>6. FlattenSeq(ss) = g[N]
      BY <1>5 DEF FlattenSeq, N
    <2>7. \A i \in 1 .. N : g[i] = IF i = 1 THEN ss[i] ELSE g[i - 1] \o ss[i]
      <3> HIDE DEF g
      <3> QED
        BY <2>5
    <2> HIDE DEF g
    <2> DEFINE Has(n) == /\ g[n] \in V
                         /\ \A i \in 1 .. n : \A k \in DOMAIN ss[i] :
                              \E m \in DOMAIN g[n] : g[n][m] = ss[i][k]
               S == {n \in Nat : n \in 1 .. N => Has(n)}
    <2>8. 0 \in S
      BY <1>1
    <2>9. ASSUME NEW n \in S PROVE n + 1 \in S
      <3> SUFFICES ASSUME n + 1 \in 1 .. N PROVE Has(n + 1)
        OBVIOUS
      <3>1. CASE n = 0
        <4>1. g[n + 1] = ss[n + 1] /\ ss[n + 1] \in V
          BY <1>2, <2>7, <3>1
        <4>2. \A i \in 1 .. (n + 1) : i = n + 1
          BY <3>1
        <4> QED
          BY <4>1, <4>2
      <3>2. CASE n # 0
        <4>1. n \in 1 .. N /\ (n + 1) - 1 = n /\ n + 1 # 1
          BY <1>1, <3>2
        <4>2. g[n + 1] = g[n] \o ss[n + 1] /\ g[n] \in V /\ ss[n + 1] \in V
          BY <1>2, <2>7, <4>1
        <4> DEFINE b == g[n]  c == ss[n + 1]
        <4>3. b \in V /\ c \in V
          BY <4>2
        <4> HIDE DEF b, c
        <4>4. /\ b \o c \in V
              /\ \A m \in DOMAIN b : m \in DOMAIN (b \o c) /\ (b \o c)[m] = b[m]
              /\ \A k \in DOMAIN c : Len(b) + k \in DOMAIN (b \o c) /\ (b \o c)[Len(b) + k] = c[k]
          <5>1. /\ b \o c \in V /\ Len(b \o c) = Len(b) + Len(c)
                /\ \A i \in 1 .. Len(b) + Len(c) :
                      (b \o c)[i] = IF i <= Len(b) THEN b[i] ELSE c[i - Len(b)]
            BY <4>3, ConcatProperties
          <5>2. /\ Len(b) \in Nat /\ Len(c) \in Nat /\ DOMAIN b = 1 .. Len(b) /\ DOMAIN c = 1 .. Len(c)
                /\ DOMAIN (b \o c) = 1 .. Len(b) + Len(c)
            BY <4>3, <5>1, LenProperties
          <5> HIDE DEF V
          <5>3. ASSUME NEW k \in DOMAIN c
                PROVE  Len(b) + k \in DOMAIN (b \o c) /\ (b \o c)[Len(b) + k] = c[k]
            <6>1. Len(b) + k \in 1 .. Len(b) + Len(c) /\ ~ (Len(b) + k <= Len(b)) /\ (Len(b) + k) - Len(b) = k
              BY <5>2
            <6> QED
              BY <5>1, <5>2, <6>1
          <5>4. \A m \in DOMAIN b : m \in 1 .. Len(b) + Len(c) /\ m <= Len(b)
            BY <5>2
          <5> QED
            BY <5>1, <5>2, <5>3, <5>4
        <4>5. ASSUME NEW i \in 1 .. n + 1, NEW k \in DOMAIN ss[i]
              PROVE  \E m \in DOMAIN (b \o c) : (b \o c)[m] = ss[i][k]
          <5>1. CASE i = n + 1
            BY <4>4, <5>1 DEF c
          <5>2. CASE i \in 1 .. n
            <6>1. Has(n)
              BY <4>1
            <6>2. \E m \in DOMAIN b : b[m] = ss[i][k]
              BY <5>2, <6>1 DEF b
            <6> QED
              BY <4>4, <6>2
          <5> QED
            BY <1>1, <5>1, <5>2
        <4>6. g[n + 1] = b \o c
          BY <4>2 DEF b, c
        <4>7. /\ g[n + 1] \in V
              /\ \A i \in 1 .. n + 1 : \A k \in DOMAIN ss[i] :
                   \E m \in DOMAIN g[n + 1] : g[n + 1][m] = ss[i][k]
          <5> DEFINE d == b \o c
          <5>1. d \in V /\ g[n + 1] = d
            BY <4>4, <4>6
          <5>2. \A i \in 1 .. n + 1 : \A k \in DOMAIN ss[i] : \E m \in DOMAIN d : d[m] = ss[i][k]
            BY <4>5
          <5> HIDE DEF d
          <5> QED
            BY <5>1, <5>2
        <4> QED
          BY <4>7
      <3> QED
        BY <3>1, <3>2
    <2> HIDE DEF S, Has
    <2>10. S = Nat
      BY <2>8, <2>9, FromZero DEF S
    <2>11. Has(N)
      BY <1>1, <1>5, <2>10 DEF S
    <2> QED
      BY <1>1, <2>6, <2>11 DEF Has
  <1> QED
    BY <1>4, <1>5

LEMMA FunctionIsSequence ==
    ASSUME NEW s, IsSequence(s), NEW f, f = [i \in DOMAIN s |-> f[i]]
    PROVE  IsSequence(f) /\ DOMAIN f = DOMAIN s /\ Len(f) = Len(s)
  <1>1. Len(s) \in Nat /\ DOMAIN s = 1 .. Len(s)
    BY SequenceFacts
  <1>2. DOMAIN f = 1 .. Len(s) /\ f = [i \in DOMAIN f |-> f[i]]
    BY <1>1
  <1> QED
    BY <1>1, <1>2, SequenceOf

LEMMA ConcatFacts ==
    ASSUME NEW a, NEW b, IsSequence(a), IsSequence(b)
    PROVE  /\ IsSequence(a \o b)
           /\ \A n \in DOMAIN (a \o b) :
                \/ n \in DOMAIN a /\ (a \o b)[n] = a[n]
                \/ n - Len(a) \in DOMAIN b /\ (a \o b)[n] = b[n - Len(a)] /\ n \notin DOMAIN a
           /\ \A n \in DOMAIN a : n \in DOMAIN (a \o b) /\ (a \o b)[n] = a[n]
           /\ \A n \in DOMAIN b : \E m \in DOMAIN (a \o b) : (a \o b)[m] = b[n]
  <1> DEFINE X == ToSet(a) \cup ToSet(b)
             ab == a \o b
  <1>1. /\ Len(a) \in Nat /\ DOMAIN a = 1 .. Len(a)
        /\ Len(b) \in Nat /\ DOMAIN b = 1 .. Len(b)
    BY SequenceFacts
  <1>2. a \in Seq(X) /\ b \in Seq(X)
    <2>1. (\A i \in DOMAIN a : a[i] \in X) /\ (\A i \in DOMAIN b : b[i] \in X)
      BY DEF ToSet
    <2> HIDE DEF X
    <2> QED
      BY <2>1, MembersType
  <1> HIDE DEF X
  <1>3. /\ ab \in Seq(X)
        /\ Len(ab) = Len(a) + Len(b)
        /\ \A i \in 1 .. Len(a) + Len(b) :
              ab[i] = IF i <= Len(a) THEN a[i] ELSE b[i - Len(a)]
    BY <1>2, ConcatProperties
  <1> HIDE DEF ab
  <1>4. IsSequence(ab) /\ DOMAIN ab = 1 .. Len(a) + Len(b)
    BY <1>3, ListType, LenProperties
  <1>5. ASSUME NEW n \in DOMAIN b PROVE \E m \in DOMAIN ab : ab[m] = b[n]
    <2>1. /\ Len(a) + n \in 1 .. Len(a) + Len(b) /\ ~ (Len(a) + n <= Len(a))
          /\ (Len(a) + n) - Len(a) = n
      BY <1>1
    <2> QED
      BY <1>3, <1>4, <2>1
  <1>6. \A n \in DOMAIN a : n \in 1 .. Len(a) + Len(b) /\ n <= Len(a)
    BY <1>1
  <1>7. \A n \in 1 .. Len(a) + Len(b) :
          (n <= Len(a) /\ n \in DOMAIN a)
          \/ (~ (n <= Len(a)) /\ n - Len(a) \in DOMAIN b /\ n \notin DOMAIN a)
    BY <1>1
  <1> QED
    BY <1>3, <1>4, <1>5, <1>6, <1>7 DEF ab

-----------------------------------------------------------------------------
(* What the documents state *)

LEMMA SourceFacts ==
    ASSUME NEW src \in Sources
    PROVE  /\ IsSequence(src.caps) /\ IsSequence(src.lines) /\ IsSequence(src.register)
           /\ \A i \in DOMAIN src.caps : IsSequence(src.caps[i].segment)
  BY TableConstants

LEMMA CleanedFacts ==
    ASSUME NEW cells, IsSequence(cells)
    PROVE  IsSequence(Cleaned(cells))
  <1> DEFINE S == {i \in DOMAIN cells : cells[i] # NoRole}
  <1>1. S \in SUBSET (DOMAIN cells)
    OBVIOUS
  <1>2. Cleaned(cells) = Picked(cells, S)
    BY DEF Cleaned, Where
  <1> HIDE DEF S
  <1>3. Picking(Picked(cells, S), cells, S)
    BY <1>1, PickedIsPicking
  <1> QED
    BY <1>2, <1>3 DEF Picking

LEMMA DedupFacts ==
    ASSUME NEW s, IsSequence(s)
    PROVE  IsSequence(Dedup(s))
  <1> DEFINE S == {i \in DOMAIN s : \A j \in 1 .. (i - 1) : s[j] # s[i]}
  <1>1. S \in SUBSET (DOMAIN s)
    OBVIOUS
  <1>2. Dedup(s) = Picked(s, S)
    BY DEF Dedup, FirstEach
  <1> HIDE DEF S
  <1>3. Picking(Picked(s, S), s, S)
    BY <1>1, PickedIsPicking
  <1> QED
    BY <1>2, <1>3 DEF Picking

LEMMA RosterFacts ==
    ASSUME NEW src \in Sources
    PROVE  IsSequence(Roster(src))
  <1> DEFINE reg == src.register
             S == {i \in DOMAIN reg : reg[i].roster}
             on == Picked(reg, S)
             roles == [i \in DOMAIN on |-> on[i].role]
  <1>1. IsSequence(reg) /\ S \in SUBSET (DOMAIN reg)
    BY SourceFacts
  <1>2. Roster(src) = Dedup(Cleaned(roles))
    BY DEF Roster, Mapped, Where
  <1> HIDE DEF reg, S
  <1>3. IsSequence(on)
    BY <1>1, PickedIsPicking DEF Picking
  <1> HIDE DEF on
  <1>4. roles = [i \in DOMAIN on |-> roles[i]]
    OBVIOUS
  <1> HIDE DEF roles
  <1>5. IsSequence(roles)
    BY <1>3, <1>4, FunctionIsSequence
  <1> QED
    BY <1>2, <1>5, CleanedFacts, DedupFacts

(* Capabilities, each with the roles of its segment.                       *)
WithSegments(caps) ==
    IsSequence(caps) /\ \A i \in DOMAIN caps : IsSequence(caps[i].segment)

LEMMA TableCapabilitiesFacts ==
    ASSUME NEW src \in Sources
    PROVE  WithSegments(TableCapabilities(src))
  <1> DEFINE all == src.caps
             S == {i \in DOMAIN all : all[i].table}
             tabled == Picked(all, S)
             F == {i \in DOMAIN tabled : \A j \in 1 .. (i - 1) : tabled[j].id # tabled[i].id}
             first == Picked(tabled, F)
             caps == [i \in DOMAIN first |-> [id |-> first[i].id, segment |-> Cleaned(first[i].segment)]]
  <1>1. /\ IsSequence(all) /\ S \in SUBSET (DOMAIN all)
        /\ \A i \in DOMAIN all : IsSequence(all[i].segment)
    BY SourceFacts
  <1>2. TableCapabilities(src) = caps
    BY DEF TableCapabilities, Mapped, Where, FirstEach
  <1> HIDE DEF all, S
  <1>3. Picking(tabled, all, S)
    BY <1>1, PickedIsPicking
  <1> HIDE DEF tabled
  <1>4. IsSequence(tabled) /\ F \in SUBSET (DOMAIN tabled)
    BY <1>3 DEF Picking
  <1> HIDE DEF F
  <1>5. Picking(first, tabled, F)
    BY <1>4, PickedIsPicking
  <1> HIDE DEF first
  <1>6. ASSUME NEW n \in DOMAIN first PROVE IsSequence(first[n].segment)
    <2>1. PICK i \in F : first[n] = tabled[i]
      BY <1>5 DEF Picking
    <2>2. PICK j \in S : tabled[i] = all[j]
      BY <1>3, <1>4, <2>1 DEF Picking
    <2> QED
      BY <1>1, <2>1, <2>2
  <1>7. \A n \in DOMAIN first : caps[n].segment = Cleaned(first[n].segment)
    OBVIOUS
  <1>8. DOMAIN caps = DOMAIN first /\ caps = [i \in DOMAIN first |-> caps[i]]
    OBVIOUS
  <1> HIDE DEF caps
  <1>9. IsSequence(caps)
    BY <1>5, <1>8, FunctionIsSequence DEF Picking
  <1> QED
    BY <1>2, <1>6, <1>7, <1>8, <1>9, CleanedFacts DEF WithSegments

LEMMA CapabilitiesFacts ==
    ASSUME NEW src \in Sources
    PROVE  WithSegments(Capabilities(src))
  <1> DEFINE all == src.caps
             roles(i) == Dedup(Cleaned(all[i].segment))
             caps == [i \in DOMAIN all |-> [id |-> all[i].id, segment |-> roles(i)]]
  <1>1. IsSequence(all) /\ \A i \in DOMAIN all : IsSequence(all[i].segment)
    BY SourceFacts
  <1>2. Capabilities(src) = TableCapabilities(src) \/ Capabilities(src) = caps
    BY DEF Capabilities, OrElse, Mapped
  <1> HIDE DEF all
  <1>3. \A i \in DOMAIN all : IsSequence(roles(i))
    BY <1>1, CleanedFacts, DedupFacts
  <1>4. /\ DOMAIN caps = DOMAIN all /\ caps = [i \in DOMAIN all |-> caps[i]]
        /\ \A i \in DOMAIN all : caps[i].segment = roles(i)
    OBVIOUS
  <1> HIDE DEF caps, roles
  <1>5. IsSequence(caps)
    BY <1>1, <1>4, FunctionIsSequence
  <1> QED
    BY <1>2, <1>3, <1>4, <1>5, TableCapabilitiesFacts DEF WithSegments

(* Families with distinct names in a capability, that hold these codes.    *)
AllFiled(fs, codes) ==
    /\ IsSequence(fs)
    /\ \A m, n \in DOMAIN fs : fs[m].cap = fs[n].cap /\ fs[m].family = fs[n].family => m = n
    /\ \A c \in codes : \E n \in DOMAIN fs : c \in fs[n].codes

LEMMA FiledFacts ==
    ASSUME NEW reqs, IsSequence(reqs)
    PROVE  /\ AllFiled(Filed(reqs), {reqs[i].code : i \in DOMAIN reqs})
           /\ reqs = <<>> => Filed(reqs) = <<>>
  <1> DEFINE k == [i \in DOMAIN reqs |-> <<reqs[i].cap, reqs[i].family>>]
             S == FirstAt(reqs, k)
             first == Picked(reqs, S)
             codes(r) == {reqs[j].code : j \in {j \in DOMAIN reqs :
                             reqs[j].cap = r.cap /\ reqs[j].family = r.family}}
             fs == [n \in DOMAIN first |-> [cap |-> first[n].cap, family |-> first[n].family,
                                            name |-> NameOf[first[n].code], codes |-> codes(first[n])]]
  <1>1. Len(reqs) \in Nat /\ DOMAIN reqs = 1 .. Len(reqs)
    BY SequenceFacts
  <1>2. Filed(reqs) = fs
    <2>1. \A i \in DOMAIN reqs : \A j \in 1 .. (i - 1) : j \in DOMAIN reqs
      BY <1>1
    <2>2. {i \in DOMAIN reqs : \A j \in 1 .. (i - 1) :
              <<reqs[j].cap, reqs[j].family>> # <<reqs[i].cap, reqs[i].family>>} = S
      BY <2>1 DEF FirstAt
    <2> HIDE DEF S
    <2> QED
      BY <2>2 DEF Filed, FirstEach, Mapped
  <1>3. \A i \in DOMAIN reqs : k[i] = <<reqs[i].cap, reqs[i].family>>
    OBVIOUS
  <1> HIDE DEF k
  <1>4. /\ S \in SUBSET (DOMAIN reqs)
        /\ \A i \in DOMAIN reqs : \E j \in S : k[j] = k[i]
        /\ \A i, j \in S : k[i] = k[j] => i = j
    BY FirstFacts
  <1> HIDE DEF S
  <1>5. Picking(first, reqs, S)
    BY <1>4, PickedIsPicking
  <1> HIDE DEF first
  <1>6. ASSUME NEW m \in DOMAIN first, NEW n \in DOMAIN first, m # n
        PROVE  ~ (first[m].cap = first[n].cap /\ first[m].family = first[n].family)
    <2>1. PICK i \in S, j \in S : i # j /\ first[m] = reqs[i] /\ first[n] = reqs[j]
      BY <1>5, <1>6 DEF Picking
    <2>2. k[i] # k[j] /\ i \in DOMAIN reqs /\ j \in DOMAIN reqs
      BY <1>4, <2>1
    <2> QED
      BY <1>3, <2>1, <2>2
  <1>7. ASSUME NEW i \in DOMAIN reqs PROVE \E n \in DOMAIN first : reqs[i].code \in codes(first[n])
    <2>1. PICK j \in S : k[j] = k[i]
      BY <1>4
    <2>2. PICK n \in DOMAIN first : first[n] = reqs[j]
      BY <1>5, <2>1 DEF Picking
    <2>3. reqs[j].cap = reqs[i].cap /\ reqs[j].family = reqs[i].family
      BY <1>3, <1>4, <2>1
    <2>4. reqs[i].code \in codes(reqs[j])
      BY <2>3
    <2> QED
      BY <2>2, <2>4
  <1>8. /\ DOMAIN fs = DOMAIN first /\ fs = [n \in DOMAIN first |-> fs[n]]
        /\ \A n \in DOMAIN first : /\ fs[n].cap = first[n].cap /\ fs[n].family = first[n].family
                                   /\ fs[n].codes = codes(first[n])
    OBVIOUS
  <1> HIDE DEF fs, codes
  <1>9. IsSequence(fs)
    BY <1>5, <1>8, FunctionIsSequence DEF Picking
  <1>10. ASSUME reqs = <<>> PROVE fs = <<>>
    <2>1. S = {}
      BY <1>1, <1>4, <1>10
    <2>2. DOMAIN first = {}
      BY <1>5, <2>1 DEF Picking
    <2> QED
      BY <1>8, <1>9, <2>2, SequenceFacts
  <1>11. \A c \in {reqs[i].code : i \in DOMAIN reqs} : \E n \in DOMAIN fs : c \in fs[n].codes
    BY <1>7, <1>8
  <1>12. \A m, n \in DOMAIN fs : fs[m].cap = fs[n].cap /\ fs[m].family = fs[n].family => m = n
    BY <1>6, <1>8
  <1> QED
    BY <1>2, <1>9, <1>10, <1>11, <1>12 DEF AllFiled

LEMMA TableFamiliesFacts ==
    ASSUME NEW src \in Sources, NEW caps
    PROVE  /\ AllFiled(TableFamilies(src, caps),
                       {x.code : x \in {x \in ToSet(src.lines) : x.form = "table"}})
           /\ {x \in ToSet(src.lines) : x.form = "table"} = {} => TableFamilies(src, caps) = <<>>
  <1> DEFINE lines == src.lines
             S == {i \in DOMAIN lines : lines[i].form = "table"}
             tabled == Picked(lines, S)
             req(line) == [cap |-> CapabilityFor(line, caps), family |-> line.code, code |-> line.code]
             reqs == [n \in DOMAIN tabled |-> req(tabled[n])]
  <1>1. IsSequence(lines) /\ S \in SUBSET (DOMAIN lines)
    BY SourceFacts
  <1>2. TableFamilies(src, caps) = Filed(reqs)
    BY DEF TableFamilies, Mapped, Where
  <1>3. {x \in ToSet(src.lines) : x.form = "table"} = {lines[i] : i \in S}
    BY DEF ToSet
  <1> HIDE DEF lines, S
  <1>4. Picking(tabled, lines, S)
    BY <1>1, PickedIsPicking
  <1> HIDE DEF tabled
  <1>5. /\ DOMAIN reqs = DOMAIN tabled /\ reqs = [n \in DOMAIN tabled |-> reqs[n]]
        /\ \A n \in DOMAIN tabled : reqs[n].code = tabled[n].code
    OBVIOUS
  <1> HIDE DEF reqs
  <1>6. IsSequence(reqs)
    BY <1>4, <1>5, FunctionIsSequence DEF Picking
  <1>7. {x.code : x \in {lines[i] : i \in S}} = {reqs[n].code : n \in DOMAIN reqs}
    <2>1. ASSUME NEW i \in S PROVE \E n \in DOMAIN reqs : reqs[n].code = lines[i].code
      <3>1. PICK n \in DOMAIN tabled : tabled[n] = lines[i]
        BY <1>4 DEF Picking
      <3>2. n \in DOMAIN reqs /\ reqs[n].code = lines[i].code
        BY <1>5, <3>1
      <3> QED
        BY <3>2
    <2>2. ASSUME NEW n \in DOMAIN reqs PROVE \E i \in S : reqs[n].code = lines[i].code
      BY <1>4, <1>5 DEF Picking
    <2> QED
      BY <2>1, <2>2
  <1>8. ASSUME S = {} PROVE reqs = <<>>
    <2>1. DOMAIN reqs = {}
      BY <1>4, <1>5, <1>8 DEF Picking
    <2> QED
      BY <1>6, <2>1, SequenceFacts
  <1>9. {lines[i] : i \in S} = {} => S = {}
    OBVIOUS
  <1> DEFINE all == {reqs[n].code : n \in DOMAIN reqs}
  <1>10. AllFiled(Filed(reqs), all) /\ (reqs = <<>> => Filed(reqs) = <<>>)
    BY <1>6, FiledFacts
  <1> QED
    BY <1>2, <1>3, <1>7, <1>8, <1>9, <1>10

LEMMA BareFacts ==
    ASSUME NEW lines, IsSequence(lines), NEW families
    PROVE  /\ IsSequence(Bare(lines, families))
           /\ \A m, n \in DOMAIN Bare(lines, families) :
                 Bare(lines, families)[m].id = Bare(lines, families)[n].id => m = n
           /\ \A n \in DOMAIN Bare(lines, families) : \A i \in DOMAIN families :
                 families[i].cap # Bare(lines, families)[n].id \/ families[i].family # Objective
  <1> DEFINE P == {i \in DOMAIN lines : lines[i].form = "feature"}
             headings == Picked(lines, P)
             k == [i \in DOMAIN headings |-> headings[i].id]
             F == FirstAt(headings, k)
             opened == Picked(headings, F)
             last(f) == LastWith(lines, LAMBDA x : x.form = "feature" /\ x.id = f)
             free(x) == /\ \A i \in {i \in DOMAIN lines : lines[i].form # "feature"} :
                              Heading(lines, i) # last(x.id)
                        /\ \A i \in DOMAIN families :
                              families[i].cap # x.id \/ families[i].family # Objective
             B == {i \in DOMAIN opened : free(opened[i])}
             bare == Picked(opened, B)
  <1>1. Picking(headings, lines, P)
    BY PickedIsPicking
  <1>2. opened = FirstEach(headings, LAMBDA x : x.id)
    <2>1. IsSequence(headings)
      BY <1>1 DEF Picking
    <2> HIDE DEF headings
    <2>2. Len(headings) \in Nat /\ DOMAIN headings = 1 .. Len(headings)
      BY <2>1, SequenceFacts
    <2>3. \A i \in DOMAIN headings : \A j \in 1 .. (i - 1) : j \in DOMAIN headings
      BY <2>2
    <2>4. {i \in DOMAIN headings : \A j \in 1 .. (i - 1) : headings[j].id # headings[i].id} = F
      BY <2>3 DEF FirstAt
    <2> HIDE DEF F
    <2> QED
      BY <2>4 DEF FirstEach
  <1>3. Bare(lines, families) = bare
    <2> HIDE DEF opened
    <2> DEFINE first == FirstEach(headings, LAMBDA x : x.id)
    <2>1. opened = first
      BY <1>2
    <2>2. Bare(lines, families) = Picked(first, {i \in DOMAIN first : free(first[i])})
      BY DEF Bare, Where
    <2> HIDE DEF first, opened
    <2> QED
      BY <2>1, <2>2
  <1> HIDE DEF headings, P
  <1>4. \A i \in DOMAIN headings : k[i] = headings[i].id
    OBVIOUS
  <1> HIDE DEF k
  <1>5. /\ IsSequence(headings) /\ F \in SUBSET (DOMAIN headings)
        /\ \A i, j \in F : k[i] = k[j] => i = j
    BY <1>1, FirstFacts DEF Picking
  <1> HIDE DEF F
  <1>6. Picking(opened, headings, F)
    BY <1>5, PickedIsPicking
  <1> HIDE DEF opened
  <1>7. \A m, n \in DOMAIN opened : opened[m].id = opened[n].id => m = n
    <2> SUFFICES ASSUME NEW m \in DOMAIN opened, NEW n \in DOMAIN opened, m # n
                 PROVE  opened[m].id # opened[n].id
      OBVIOUS
    <2>1. PICK i \in F, j \in F : i # j /\ opened[m] = headings[i] /\ opened[n] = headings[j]
      BY <1>6 DEF Picking
    <2>2. k[i] # k[j]
      BY <1>5, <2>1
    <2> QED
      BY <1>4, <1>5, <2>1, <2>2
  <1>8. /\ IsSequence(opened) /\ B \in SUBSET (DOMAIN opened)
        /\ \A n \in B : \A i \in DOMAIN families :
              families[i].cap # opened[n].id \/ families[i].family # Objective
    BY <1>6 DEF Picking
  <1> HIDE DEF B
  <1>9. Picking(bare, opened, B)
    BY <1>8, PickedIsPicking
  <1> HIDE DEF bare
  <1>10. \A m, n \in DOMAIN bare : bare[m].id = bare[n].id => m = n
    <2> SUFFICES ASSUME NEW m \in DOMAIN bare, NEW n \in DOMAIN bare, m # n
                 PROVE  bare[m].id # bare[n].id
      OBVIOUS
    <2>1. PICK i \in B, j \in B : i # j /\ bare[m] = opened[i] /\ bare[n] = opened[j]
      BY <1>9 DEF Picking
    <2> QED
      BY <1>7, <1>8, <2>1
  <1>11. \A n \in DOMAIN bare : \A i \in DOMAIN families :
            families[i].cap # bare[n].id \/ families[i].family # Objective
    BY <1>8, <1>9 DEF Picking
  <1>12. IsSequence(bare)
    BY <1>9 DEF Picking
  <1> QED
    BY <1>3, <1>10, <1>11, <1>12

LEMMA ProseFamiliesFacts ==
    ASSUME NEW src \in Sources
    PROVE  AllFiled(ProseFamilies(src),
                    {x.code : x \in {x \in ToSet(src.lines) : x.form # "feature"}})
  <1> DEFINE lines == src.lines
             coded == {i \in DOMAIN lines : lines[i].form # "feature"}
             at == Positions(coded)
             reqs == [n \in DOMAIN at |-> Required(lines, at[n])]
             stated == {reqs[n].code : n \in DOMAIN reqs}
             families == Filed(reqs)
             bare == Bare(lines, families)
             inferred == [n \in DOMAIN bare |-> [cap |-> bare[n].id, family |-> Objective,
                                                name |-> NameOf[bare[n].id], codes |-> {}]]
             N == Cardinality(coded)
  <1>1. IsSequence(lines)
    BY SourceFacts
  <1>2. ProseFamilies(src) = families \o inferred
    BY DEF ProseFamilies, Mapped
  <1>3. {x.code : x \in {x \in ToSet(src.lines) : x.form # "feature"}}
          = {lines[i].code : i \in coded}
    BY DEF ToSet
  <1> HIDE DEF lines
  <1>4. /\ N \in Nat /\ at \in [1 .. N -> coded]
        /\ \A x \in coded : \E n \in 1 .. N : at[n] = x
    <2>1. Len(lines) \in Nat /\ DOMAIN lines = 1 .. Len(lines)
      BY <1>1, SequenceFacts
    <2>2. coded \in SUBSET (1 .. Len(lines))
      BY <2>1
    <2> HIDE DEF coded
    <2> QED
      BY <2>1, <2>2, PositionsFacts
  <1> HIDE DEF at, coded, N
  <1>5. DOMAIN reqs = 1 .. N /\ reqs = [n \in DOMAIN reqs |-> reqs[n]]
    BY <1>4
  <1>6. \A n \in 1 .. N : reqs[n].code = lines[at[n]].code
    BY <1>4 DEF Required
  <1> HIDE DEF reqs
  <1>7. IsSequence(reqs)
    BY <1>4, <1>5, SequenceOf
  <1>8. {lines[i].code : i \in coded} \subseteq stated
    BY <1>4, <1>5, <1>6
  <1>9. AllFiled(families, stated)
    BY <1>7, FiledFacts
  <1> HIDE DEF stated, families
  <1>10. /\ IsSequence(bare)
         /\ \A m, n \in DOMAIN bare : bare[m].id = bare[n].id => m = n
         /\ \A n \in DOMAIN bare : \A i \in DOMAIN families :
                 families[i].cap # bare[n].id \/ families[i].family # Objective
    BY <1>1, BareFacts
  <1> HIDE DEF bare
  <1>11. /\ DOMAIN inferred = DOMAIN bare /\ inferred = [n \in DOMAIN bare |-> inferred[n]]
         /\ \A n \in DOMAIN bare : inferred[n].cap = bare[n].id /\ inferred[n].family = Objective
    OBVIOUS
  <1> HIDE DEF inferred
  <1>12. IsSequence(families) /\ IsSequence(inferred)
    BY <1>9, <1>10, <1>11, FunctionIsSequence DEF AllFiled
  <1> DEFINE fs == families \o inferred
  <1>13. /\ IsSequence(fs)
         /\ \A n \in DOMAIN fs :
                \/ n \in DOMAIN families /\ fs[n] = families[n]
                \/ n - Len(families) \in DOMAIN inferred /\ fs[n] = inferred[n - Len(families)]
                   /\ n \notin DOMAIN families
         /\ \A n \in DOMAIN families : n \in DOMAIN fs /\ fs[n] = families[n]
    BY <1>12, ConcatFacts
  <1> HIDE DEF fs
  <1>14. ASSUME NEW m \in DOMAIN fs, NEW n \in DOMAIN fs,
                fs[m].cap = fs[n].cap, fs[m].family = fs[n].family
         PROVE  m = n
    <2>1. CASE m \in DOMAIN families /\ n \in DOMAIN families
      BY <1>9, <1>13, <1>14, <2>1 DEF AllFiled
    <2>2. CASE m \notin DOMAIN families /\ n \notin DOMAIN families
      <3> DEFINE i == m - Len(families)
                 j == n - Len(families)
      <3>1. i \in DOMAIN bare /\ j \in DOMAIN bare /\ fs[m] = inferred[i] /\ fs[n] = inferred[j]
        BY <1>11, <1>13, <2>2
      <3>2. i = j
        <4> HIDE DEF i, j
        <4>1. bare[i].id = bare[j].id
          BY <1>11, <1>14, <3>1
        <4> QED
          BY <1>10, <3>1, <4>1
      <3>3. IsSequence(fs) /\ DOMAIN fs = 1 .. Len(fs) /\ Len(fs) \in Nat /\ Len(families) \in Nat
        BY <1>12, <1>13, SequenceFacts
      <3> QED
        BY <3>2, <3>3
    <2>3. CASE m \in DOMAIN families /\ n \notin DOMAIN families
      BY <1>10, <1>11, <1>13, <1>14, <2>3
    <2>4. CASE m \notin DOMAIN families /\ n \in DOMAIN families
      BY <1>10, <1>11, <1>13, <1>14, <2>4
    <2> QED
      BY <2>1, <2>2, <2>3, <2>4
  <1>15. \A c \in stated : \E n \in DOMAIN fs : c \in fs[n].codes
    BY <1>9, <1>13 DEF AllFiled
  <1> QED
    BY <1>2, <1>3, <1>8, <1>13, <1>14, <1>15 DEF AllFiled, fs

(* The families hold every requirement the source states, where it counts. *)
LEMMA FamiliesFacts ==
    ASSUME NEW src \in Sources
    PROVE  AllFiled(Families(src), StatedCodes(src))
  <1> DEFINE lines == ToSet(src.lines)
             tabled == {x \in lines : x.form = "table"}
             coded == {x \in lines : x.form # "feature"}
             t == TableFamilies(src, Capabilities(src))
             p == ProseFamilies(src)
  <1>1. AllFiled(t, {x.code : x \in tabled}) /\ (tabled = {} => t = <<>>)
    BY TableFamiliesFacts
  <1>2. AllFiled(p, {x.code : x \in coded})
    BY ProseFamiliesFacts
  <1>3. Families(src) = IF t # <<>> THEN t ELSE p
    BY DEF Families, OrElse
  <1> HIDE DEF t, p
  <1>4. CASE tabled = {}
    <2>1. StatedCodes(src) \subseteq {x.code : x \in coded}
      BY <1>4 DEF StatedCodes
    <2> QED
      BY <1>1, <1>2, <1>3, <1>4, <2>1 DEF AllFiled
  <1>5. CASE tabled # {}
    <2>1. StatedCodes(src) = {x.code : x \in tabled}
      BY <1>5 DEF StatedCodes
    <2>2. {x.code : x \in tabled} # {}
      BY <1>5
    <2> HIDE DEF tabled
    <2>3. t # <<>>
      <3>1. PICK c : c \in {x.code : x \in tabled}
        BY <2>2
      <3>2. IsSequence(t) /\ \E n \in DOMAIN t : TRUE
        BY <1>1, <3>1 DEF AllFiled
      <3>3. DOMAIN t = 1 .. Len(t) /\ (t = <<>> => Len(t) = 0)
        BY <3>2, SequenceFacts
      <3> QED
        BY <3>2, <3>3
    <2> QED
      BY <1>1, <1>3, <2>1, <2>3 DEF tabled
  <1> QED
    BY <1>4, <1>5

-----------------------------------------------------------------------------
(* The floor *)

LEMMA LastFacts ==
    ASSUME NEW s, IsSequence(s), NEW S \in SUBSET (DOMAIN s)
    PROVE  Max({0} \cup S) \in {0} \cup S
  <1>1. Len(s) \in Nat /\ DOMAIN s = 1 .. Len(s)
    BY SequenceFacts
  <1>2. IsFiniteSet(0 .. Len(s))
    BY <1>1, FS_Interval
  <1> DEFINE T == {0} \cup S
  <1>3. T \in SUBSET (0 .. Len(s)) /\ T \in SUBSET Int /\ T # {}
    BY <1>1
  <1> HIDE DEF T
  <1>4. IsFiniteSet(T)
    BY <1>2, <1>3, FS_Subset
  <1>5. Max(T) \in T
    BY <1>3, <1>4, MaxOf
  <1> QED
    BY <1>5 DEF T

LEMMA OneSequence ==
    ASSUME NEW x
    PROVE  IsSequence(<<x>>) /\ DOMAIN <<x>> = {1}
  <1> DEFINE s == <<x>>
  <1>1. s \in Seq({x})
    OBVIOUS
  <1>2. DOMAIN s = {1}
    OBVIOUS
  <1> HIDE DEF s
  <1>3. IsSequence(s)
    BY <1>1, ListType
  <1> QED
    BY <1>2, <1>3 DEF s

(* Everyone a capability names has the slug of an actor of the floor.      *)
LEMMA FloorRolesFacts ==
    ASSUME NEW caps, WithSegments(caps), NEW families, NEW roster, IsSequence(roster)
    PROVE  /\ IsSequence(FloorRoles(caps, families, roster))
           /\ families # <<>> => 1 \in DOMAIN FloorRoles(caps, families, roster)
           /\ \A i \in DOMAIN caps : \A n \in DOMAIN caps[i].segment :
                \E j \in DOMAIN FloorRoles(caps, families, roster) :
                   SlugOf[FloorRoles(caps, families, roster)[j]] = SlugOf[caps[i].segment[n]]
  <1> DEFINE lists == [i \in DOMAIN caps |-> caps[i].segment]
             segments == FlattenSeq(lists)
             generic == IF families # <<>> THEN <<GenericRole>> ELSE <<>>
             names == OrElse(segments, OrElse(roster, generic))
             k == [i \in DOMAIN names |-> SlugOf[names[i]]]
             S == FirstAt(names, k)
             everyone == Picked(names, S)
  <1>1. IsSequence(caps) /\ \A i \in DOMAIN caps : IsSequence(caps[i].segment)
    BY DEF WithSegments
  <1>2. IsSequence(lists) /\ DOMAIN lists = DOMAIN caps
    <2>1. lists = [i \in DOMAIN caps |-> lists[i]]
      OBVIOUS
    <2> HIDE DEF lists
    <2> QED
      BY <1>1, <2>1, FunctionIsSequence
  <1>3. \A i \in DOMAIN caps : lists[i] = caps[i].segment
    OBVIOUS
  <1> HIDE DEF lists
  <1> DEFINE X == UNION {ToSet(lists[i]) : i \in DOMAIN lists}
  <1>4. lists \in Seq(Seq(X))
    <2>1. ASSUME NEW i \in DOMAIN lists PROVE lists[i] \in Seq(X)
      <3>1. IsSequence(lists[i]) /\ \A n \in DOMAIN lists[i] : lists[i][n] \in X
        BY <1>1, <1>2, <1>3 DEF ToSet
      <3> HIDE DEF X
      <3> QED
        BY <3>1, MembersType
    <2> HIDE DEF X
    <2> QED
      BY <1>2, <2>1, MembersType
  <1> HIDE DEF X
  <1>5. /\ IsSequence(segments)
        /\ \A i \in DOMAIN lists : \A n \in DOMAIN lists[i] :
             \E m \in DOMAIN segments : segments[m] = lists[i][n]
    BY <1>4, FlattenFacts, ListType
  <1>6. FloorRoles(caps, families, roster) = FirstEach(names, LAMBDA r : SlugOf[r])
    BY DEF FloorRoles, Mapped, lists
  <1> HIDE DEF segments
  <1>7. IsSequence(generic) /\ (families # <<>> => generic # <<>>)
    <2>1. IsSequence(<<GenericRole>>) /\ <<GenericRole>> # <<>>
      BY OneSequence
    <2> QED
      BY <2>1, NoneIsSequence
  <1> HIDE DEF generic
  <1>8. IsSequence(names) /\ (families # <<>> => names # <<>>)
    BY <1>5, <1>7 DEF OrElse
  <1>9. \A i \in DOMAIN lists : \A n \in DOMAIN lists[i] :
             \E m \in DOMAIN names : names[m] = lists[i][n]
    <2>1. CASE segments = <<>>
      <3>1. DOMAIN segments = {}
        BY <2>1
      <3> QED
        BY <1>5, <3>1
    <2>2. CASE segments # <<>>
      BY <1>5, <2>2 DEF OrElse
    <2> QED
      BY <2>1, <2>2
  <1> HIDE DEF names
  <1>10. FirstEach(names, LAMBDA r : SlugOf[r]) = everyone
    <2>1. Len(names) \in Nat /\ DOMAIN names = 1 .. Len(names)
      BY <1>8, SequenceFacts
    <2>2. \A i \in DOMAIN names : \A j \in 1 .. (i - 1) : j \in DOMAIN names
      BY <2>1
    <2>3. {i \in DOMAIN names : \A j \in 1 .. (i - 1) : SlugOf[names[j]] # SlugOf[names[i]]} = S
      BY <2>2 DEF FirstAt
    <2> HIDE DEF S
    <2> QED
      BY <2>3 DEF FirstEach
  <1>11. \A i \in DOMAIN names : k[i] = SlugOf[names[i]]
    OBVIOUS
  <1> HIDE DEF k
  <1>12. S \in SUBSET (DOMAIN names) /\ \A i \in DOMAIN names : \E j \in S : k[j] = k[i]
    BY <1>8, FirstFacts
  <1> HIDE DEF S
  <1>13. Picking(everyone, names, S)
    BY <1>8, <1>12, PickedIsPicking
  <1> HIDE DEF everyone
  <1>14. ASSUME NEW m \in DOMAIN names
         PROVE  \E j \in DOMAIN everyone : SlugOf[everyone[j]] = SlugOf[names[m]]
    <2>1. PICK i \in S : k[i] = k[m]
      BY <1>12
    <2>2. PICK j \in DOMAIN everyone : everyone[j] = names[i]
      BY <1>13 DEF Picking
    <2> QED
      BY <1>11, <1>12, <2>1, <2>2
  <1>15. IsSequence(everyone)
    BY <1>13 DEF Picking
  <1>16. families # <<>> => 1 \in DOMAIN everyone
    <2> SUFFICES ASSUME families # <<>> PROVE 1 \in DOMAIN everyone
      OBVIOUS
    <2>1. 1 \in DOMAIN names
      BY <1>8, SequenceFacts
    <2>2. \E j \in DOMAIN everyone : TRUE
      BY <1>14, <2>1
    <2>3. everyone # <<>>
      BY <2>2
    <2> QED
      BY <1>15, <2>3, SequenceFacts
  <1>17. ASSUME NEW i \in DOMAIN caps, NEW n \in DOMAIN caps[i].segment
         PROVE  \E j \in DOMAIN everyone : SlugOf[everyone[j]] = SlugOf[caps[i].segment[n]]
    <2>1. PICK m \in DOMAIN names : names[m] = caps[i].segment[n]
      BY <1>2, <1>3, <1>9
    <2> QED
      BY <1>14, <2>1
  <1>18. FloorRoles(caps, families, roster) = everyone
    BY <1>6, <1>10
  <1> QED
    BY <1>15, <1>16, <1>17, <1>18

(* A row whose module and actors are known, and hold one role each.        *)
IsRow(r) ==
    r = [id |-> r.id, name |-> r.name, module |-> r.module, primary |-> r.primary,
         secondary |-> r.secondary, codes |-> r.codes]
Placed(modules, actors, r) ==
    /\ r.module \in ToSet(modules)
    /\ {r.primary} \cup r.secondary \subseteq {actors[i].id : i \in DOMAIN actors}
    /\ r.primary \notin r.secondary
Distinct(rows) == \A i, j \in DOMAIN rows : rows[i].id = rows[j].id => i = j
IsTable(t) ==
    /\ t = [modules |-> t.modules, actors |-> t.actors, rows |-> t.rows, relations |-> t.relations]
    /\ IsSequence(t.modules) /\ IsSequence(t.actors) /\ IsSequence(t.rows)
Sound(t) ==
    /\ IsTable(t) /\ Distinct(t.rows)
    /\ \A i \in DOMAIN t.rows : IsRow(t.rows[i]) /\ Placed(t.modules, t.actors, t.rows[i])

(* The row of a family is placed among the capabilities and the roles.     *)
LEMMA FloorRowFacts ==
    ASSUME NEW caps, WithSegments(caps), caps # <<>>, NEW everyone, 1 \in DOMAIN everyone,
           \A i \in DOMAIN caps : \A n \in DOMAIN caps[i].segment :
              \E j \in DOMAIN everyone : SlugOf[everyone[j]] = SlugOf[caps[i].segment[n]],
           NEW f
    PROVE  /\ IsRow(FloorRow(caps, everyone, f))
           /\ FloorRow(caps, everyone, f).id = <<f.cap, f.family>>
           /\ FloorRow(caps, everyone, f).codes = f.codes
           /\ \E home \in DOMAIN caps : FloorRow(caps, everyone, f).module = <<"SUB", home>>
           /\ {FloorRow(caps, everyone, f).primary} \cup FloorRow(caps, everyone, f).secondary
                \subseteq {ActorId(everyone[j]) : j \in DOMAIN everyone}
           /\ FloorRow(caps, everyone, f).primary \notin FloorRow(caps, everyone, f).secondary
  <1> DEFINE S == {i \in DOMAIN caps : caps[i].id = f.cap}
             last == Max({0} \cup S)
             home == Max({1, last})
             roles == OrElse(caps[home].segment, <<everyone[1]>>)
             ids == {ActorId(everyone[j]) : j \in DOMAIN everyone}
             rest == {ActorId(roles[i]) : i \in 2 .. Len(roles)} \ {ActorId(roles[1])}
  <1>1. IsSequence(caps) /\ \A i \in DOMAIN caps : IsSequence(caps[i].segment)
    BY DEF WithSegments
  <1>2. Len(caps) \in Nat /\ DOMAIN caps = 1 .. Len(caps) /\ 1 \in DOMAIN caps
    BY <1>1, SequenceFacts
  <1>3. FloorRow(caps, everyone, f) =
          [id |-> <<f.cap, f.family>>, name |-> f.name, module |-> <<"SUB", home>>,
           primary |-> ActorId(roles[1]), secondary |-> rest, codes |-> f.codes]
    BY DEF FloorRow, LastWith
  <1>4. last \in {0} \cup S
    <2> HIDE DEF last, S
    <2>1. S \in SUBSET (DOMAIN caps)
      BY DEF S
    <2> QED
      BY <1>1, <2>1, LastFacts DEF last
  <1>5. last \in 0 .. Len(caps)
    BY <1>2, <1>4
  <1> HIDE DEF last, S
  <1>6. home \in DOMAIN caps
    <2> DEFINE T == {1, last}
    <2>1. T \in SUBSET Int /\ T # {}
      BY <1>5
    <2>2. IsFiniteSet(T)
      <3>1. IsFiniteSet({1})
        BY FS_Singleton, Zenon
      <3>2. IsFiniteSet({1} \cup {last})
        BY <3>1, FS_AddElement
      <3>3. T = {1} \cup {last}
        OBVIOUS
      <3> QED
        BY <3>2, <3>3
    <2> HIDE DEF T
    <2>3. Max(T) \in T /\ \A x \in T : x <= Max(T)
      BY <2>1, <2>2, MaxOf
    <2>4. 1 \in T /\ home = Max(T) /\ \A x \in T : x = 1 \/ x = last
      BY DEF T
    <2> HIDE DEF home
    <2>5. (home = 1 \/ home = last) /\ 1 <= home
      BY <2>3, <2>4
    <2> QED
      BY <1>2, <1>5, <2>5
  <1> HIDE DEF home
  <1>7. IsSequence(roles) /\ 1 \in DOMAIN roles
           /\ \A i \in DOMAIN roles : ActorId(roles[i]) \in ids
    <2>1. CASE caps[home].segment # <<>>
      <3>1. roles = caps[home].segment
        BY <2>1 DEF OrElse
      <3>2. IsSequence(roles) /\ 1 \in DOMAIN roles
        BY <1>1, <1>6, <2>1, <3>1, SequenceFacts
      <3>3. ASSUME NEW i \in DOMAIN roles PROVE ActorId(roles[i]) \in ids
        BY <1>6, <3>1 DEF ActorId
      <3> QED
        BY <3>2, <3>3
    <2>2. CASE caps[home].segment = <<>>
      <3>1. roles = <<everyone[1]>>
        BY <2>2 DEF OrElse
      <3>2. roles[1] = everyone[1] /\ DOMAIN roles = {1} /\ IsSequence(roles)
        BY <3>1, OneSequence
      <3> QED
        BY <3>2
    <2> QED
      BY <2>1, <2>2
  <1> HIDE DEF roles
  <1>8. {ActorId(roles[1])} \cup rest \subseteq ids /\ ActorId(roles[1]) \notin rest
    <2>1. Len(roles) \in Nat /\ DOMAIN roles = 1 .. Len(roles)
      BY <1>7, SequenceFacts
    <2>2. \A i \in 2 .. Len(roles) : i \in DOMAIN roles
      BY <2>1
    <2> QED
      BY <1>7, <2>2
  <1> HIDE DEF rest, ids
  <1> DEFINE row == FloorRow(caps, everyone, f)
  <1>9. /\ row.id = <<f.cap, f.family>> /\ row.codes = f.codes /\ row.module = <<"SUB", home>>
        /\ row.primary = ActorId(roles[1]) /\ row.secondary = rest
    BY <1>3
  <1>10. IsRow(row)
    BY <1>3 DEF IsRow
  <1> HIDE DEF row
  <1>11. {row.primary} \cup row.secondary \subseteq ids /\ row.primary \notin row.secondary
    BY <1>8, <1>9
  <1> QED
    BY <1>6, <1>9, <1>10, <1>11 DEF row, ids

(* The floor is sound and has a row for whatever the source states.        *)
Covers(t, codes) == \A c \in codes : \E i \in DOMAIN t.rows : c \in t.rows[i].codes

LEMMA FloorFacts ==
    ASSUME NEW src \in Sources
    PROVE  Sound(Floor(src)) /\ Covers(Floor(src), StatedCodes(src))
  <1> DEFINE families == Families(src)
             caps == CapsOf(Capabilities(src), families)
             everyone == FloorRoles(caps, families, Roster(src))
             modules == [i \in DOMAIN caps |-> <<"SUB", i>>]
             actors == [i \in DOMAIN everyone |-> [id |-> ActorId(everyone[i]), name |-> everyone[i]]]
             row(i) == FloorRow(caps, everyone, families[i])
             rows == [i \in DOMAIN families |-> row(i)]
             t == [modules |-> modules, actors |-> actors, rows |-> rows, relations |-> <<>>]
  <1>1. Floor(src) = t
    BY DEF Floor, FloorTable, Mapped
  <1>2. AllFiled(families, StatedCodes(src))
    BY FamiliesFacts
  <1> HIDE DEF families
  <1>3. WithSegments(caps) /\ (families # <<>> => caps # <<>>)
    <2>1. WithSegments(Capabilities(src))
      BY CapabilitiesFacts
    <2> DEFINE one == [id |-> DefaultCap, segment |-> <<>>]
    <2>2. one.segment = <<>>
      OBVIOUS
    <2>3. caps = IF Capabilities(src) = <<>> /\ families # <<>> THEN <<one>> ELSE Capabilities(src)
      BY DEF CapsOf
    <2> HIDE DEF one
    <2>4. IsSequence(<<one>>) /\ DOMAIN <<one>> = {1} /\ <<one>>[1] = one /\ <<one>> # <<>>
      BY OneSequence
    <2>5. WithSegments(<<one>>)
      BY <2>2, <2>4, NoneIsSequence DEF WithSegments
    <2> QED
      BY <2>1, <2>3, <2>4, <2>5
  <1> HIDE DEF caps
  <1>4. /\ IsSequence(everyone)
        /\ families # <<>> => 1 \in DOMAIN everyone
        /\ \A i \in DOMAIN caps : \A n \in DOMAIN caps[i].segment :
             \E j \in DOMAIN everyone : SlugOf[everyone[j]] = SlugOf[caps[i].segment[n]]
    BY <1>3, RosterFacts, FloorRolesFacts
  <1> HIDE DEF everyone
  <1>5. /\ DOMAIN modules = DOMAIN caps /\ modules = [i \in DOMAIN caps |-> modules[i]]
        /\ DOMAIN actors = DOMAIN everyone /\ actors = [i \in DOMAIN everyone |-> actors[i]]
        /\ \A i \in DOMAIN everyone : actors[i].id = ActorId(everyone[i])
        /\ \A i \in DOMAIN caps : modules[i] = <<"SUB", i>>
        /\ DOMAIN rows = DOMAIN families /\ rows = [i \in DOMAIN families |-> rows[i]]
        /\ \A i \in DOMAIN families : rows[i] = row(i)
    OBVIOUS
  <1> HIDE DEF modules, actors, rows
  <1>6. IsSequence(modules) /\ IsSequence(actors) /\ IsSequence(rows)
    BY <1>2, <1>3, <1>4, <1>5, FunctionIsSequence DEF WithSegments, AllFiled
  <1>7. {actors[i].id : i \in DOMAIN actors} = {ActorId(everyone[j]) : j \in DOMAIN everyone}
    BY <1>5
  <1>8. ASSUME NEW i \in DOMAIN families
        PROVE  /\ IsRow(rows[i]) /\ rows[i].id = <<families[i].cap, families[i].family>>
               /\ rows[i].codes = families[i].codes
               /\ Placed(modules, actors, rows[i])
    <2>1. families # <<>>
      BY <1>8
    <2> DEFINE r == row(i)
               f == families[i]
    <2>2. /\ IsRow(r) /\ r.id = <<f.cap, f.family>> /\ r.codes = f.codes
          /\ \E home \in DOMAIN caps : r.module = <<"SUB", home>>
          /\ {r.primary} \cup r.secondary \subseteq {ActorId(everyone[j]) : j \in DOMAIN everyone}
          /\ r.primary \notin r.secondary
      BY <1>3, <1>4, <2>1, FloorRowFacts
    <2>3. rows[i] = r
      BY <1>5
    <2> HIDE DEF r
    <2>4. r.module \in ToSet(modules)
      BY <1>5, <2>2 DEF ToSet
    <2>5. Placed(modules, actors, r)
      BY <1>7, <2>2, <2>4 DEF Placed
    <2> QED
      BY <2>2, <2>3, <2>5
  <1>9. Distinct(rows)
    <2> SUFFICES ASSUME NEW i \in DOMAIN rows, NEW j \in DOMAIN rows, rows[i].id = rows[j].id
                 PROVE  i = j
      BY DEF Distinct
    <2>1. i \in DOMAIN families /\ j \in DOMAIN families
      BY <1>5
    <2>2. <<families[i].cap, families[i].family>> = <<families[j].cap, families[j].family>>
      BY <1>8, <2>1
    <2>3. families[i].cap = families[j].cap /\ families[i].family = families[j].family
      BY <2>2
    <2> QED
      BY <1>2, <2>1, <2>3 DEF AllFiled
  <1>10. /\ t.modules = modules /\ t.actors = actors /\ t.rows = rows /\ t.relations = <<>>
    OBVIOUS
  <1>11. IsTable(t)
    BY <1>6, <1>10 DEF IsTable
  <1> HIDE DEF t
  <1>12. Sound(t)
    BY <1>5, <1>8, <1>9, <1>10, <1>11 DEF Sound
  <1>13. Covers(t, StatedCodes(src))
    BY <1>2, <1>5, <1>8, <1>10 DEF Covers, AllFiled
  <1> QED
    BY <1>1, <1>12, <1>13

-----------------------------------------------------------------------------
(* The details of the provider *)

(* Rows rebuilt from drafts: an actor of the table, and no second one.     *)
Rebuilt(t, candidates) ==
    /\ IsSequence(candidates)
    /\ \A n \in DOMAIN candidates :
          candidates[n].primary \in ActorIds(t) /\ candidates[n].secondary = {}

LEMMA DetailedFacts ==
    ASSUME NEW t, NEW target, NEW draft, IsRow(target), target.primary \in ActorIds(t)
    PROVE  Detailed(t, target, draft).primary \in ActorIds(t) /\ Detailed(t, target, draft).secondary = {}
  <1> DEFINE p == IF draft.actor \in DOMAIN t.actors THEN t.actors[draft.actor].id ELSE target.primary
             c == IF draft.codes # {} THEN draft.codes ELSE target.codes
             d == [target EXCEPT !.primary = p, !.secondary = {}, !.codes = c]
  <1>1. Detailed(t, target, draft) = d
    BY DEF Detailed
  <1>2. p \in ActorIds(t)
    BY DEF ActorIds
  <1> HIDE DEF p, c
  <1>3. d.primary = p /\ d.secondary = {}
    BY DEF IsRow
  <1> QED
    BY <1>1, <1>2, <1>3

LEMMA CandidateRowsFacts ==
    ASSUME NEW t, Sound(t), NEW module, NEW drafts, IsSequence(drafts)
    PROVE  Rebuilt(t, CandidateRows(t, module, drafts))
  <1> DEFINE M == {i \in DOMAIN t.rows : t.rows[i].module = module}
             mine == Picked(t.rows, M)
             named(d) == Max({0} \cup {i \in DOMAIN mine : mine[i].name = d.name})
             target(d) == IF d.tag \in DOMAIN mine THEN d.tag ELSE named(d)
             U == {i \in DOMAIN drafts : drafts[i].valid /\ target(drafts[i]) # 0}
             usable == Picked(drafts, U)
             F == {i \in DOMAIN usable : \A j \in 1 .. (i - 1) :
                      mine[target(usable[j])].id # mine[target(usable[i])].id}
             first == Picked(usable, F)
             row(d) == Detailed(t, mine[target(d)], d)
             cs == [n \in DOMAIN first |-> row(first[n])]
  <1>1. CandidateRows(t, module, drafts) = cs
    BY DEF CandidateRows, RowsOf, Where, FirstEach, Mapped, LastWith
  <1>2. Picking(mine, t.rows, M)
    <2>1. IsSequence(t.rows) /\ M \in SUBSET (DOMAIN t.rows)
      BY DEF Sound, IsTable
    <2> HIDE DEF M
    <2> QED
      BY <2>1, PickedIsPicking
  <1> HIDE DEF mine
  <1>3. /\ IsSequence(mine)
        /\ \A n \in DOMAIN mine : IsRow(mine[n]) /\ mine[n].primary \in ActorIds(t)
    <2>1. ASSUME NEW n \in DOMAIN mine
          PROVE  IsRow(mine[n]) /\ mine[n].primary \in ActorIds(t)
      <3>1. PICK i \in M : mine[n] = t.rows[i]
        BY <1>2 DEF Picking
      <3>2. i \in DOMAIN t.rows
        OBVIOUS
      <3> HIDE DEF M
      <3>3. IsRow(t.rows[i]) /\ Placed(t.modules, t.actors, t.rows[i])
        BY <3>2 DEF Sound
      <3> QED
        BY <3>1, <3>3 DEF Placed, ActorIds
    <2> QED
      BY <1>2, <2>1 DEF Picking
  <1>4. \A d : named(d) \in {0} \cup DOMAIN mine
    <2> SUFFICES ASSUME NEW d PROVE named(d) \in {0} \cup DOMAIN mine
      OBVIOUS
    <2> DEFINE L == {i \in DOMAIN mine : mine[i].name = d.name}
    <2>1. L \in SUBSET (DOMAIN mine)
      OBVIOUS
    <2>2. named(d) = Max({0} \cup L)
      OBVIOUS
    <2> HIDE DEF L, named
    <2> QED
      BY <1>3, <2>1, <2>2, LastFacts
  <1> HIDE DEF named
  <1>5. U \in SUBSET (DOMAIN drafts) /\ \A i \in U : target(drafts[i]) \in DOMAIN mine
    BY <1>4
  <1> HIDE DEF U, target
  <1>6. Picking(usable, drafts, U)
    BY <1>5, PickedIsPicking
  <1> HIDE DEF usable
  <1>7. IsSequence(usable) /\ F \in SUBSET (DOMAIN usable)
    BY <1>6 DEF Picking
  <1> HIDE DEF F
  <1>8. Picking(first, usable, F)
    BY <1>7, PickedIsPicking
  <1> HIDE DEF first
  <1>9. ASSUME NEW n \in DOMAIN first PROVE target(first[n]) \in DOMAIN mine
    <2>1. PICK i \in F : first[n] = usable[i]
      BY <1>8 DEF Picking
    <2>2. PICK j \in U : usable[i] = drafts[j]
      BY <1>6, <1>7, <2>1 DEF Picking
    <2> QED
      BY <1>5, <2>1, <2>2
  <1>10. ASSUME NEW n \in DOMAIN first
         PROVE  row(first[n]).primary \in ActorIds(t) /\ row(first[n]).secondary = {}
    BY <1>3, <1>9, DetailedFacts
  <1>11. /\ DOMAIN cs = DOMAIN first /\ cs = [n \in DOMAIN first |-> cs[n]]
         /\ \A n \in DOMAIN first : cs[n] = row(first[n])
    OBVIOUS
  <1> HIDE DEF cs, row
  <1>12. IsSequence(cs)
    BY <1>8, <1>11, FunctionIsSequence DEF Picking
  <1> QED
    BY <1>1, <1>10, <1>11, <1>12 DEF Rebuilt

(* Whatever was rebuilt, the merged table is sound and covers as much.     *)
LEMMA MergedFacts ==
    ASSUME NEW t, Sound(t), NEW candidates, Rebuilt(t, candidates)
    PROVE  /\ Sound(Merged(t, candidates))
           /\ \A codes : Covers(t, codes) => Covers(Merged(t, candidates), codes)
  <1> DEFINE at(r) == Max({0} \cup {i \in DOMAIN candidates : candidates[i].id = r.id})
             new(r) == IF at(r) = 0 THEN r ELSE Improved(r, candidates[at(r)])
             rows == [i \in DOMAIN t.rows |-> new(t.rows[i])]
             m == [t EXCEPT !.rows = rows]
  <1>1. Merged(t, candidates) = m
    BY DEF Merged, Mapped, LastWith
  <1>2. \A r : at(r) \in {0} \cup DOMAIN candidates
    <2> SUFFICES ASSUME NEW r PROVE at(r) \in {0} \cup DOMAIN candidates
      OBVIOUS
    <2> DEFINE L == {i \in DOMAIN candidates : candidates[i].id = r.id}
    <2>1. L \in SUBSET (DOMAIN candidates) /\ IsSequence(candidates)
      BY DEF Rebuilt
    <2>2. at(r) = Max({0} \cup L)
      OBVIOUS
    <2> HIDE DEF L, at
    <2> QED
      BY <2>1, <2>2, LastFacts
  <1> HIDE DEF at
  <1>3. ASSUME NEW r, IsRow(r), Placed(t.modules, t.actors, r)
        PROVE  /\ IsRow(new(r)) /\ Placed(t.modules, t.actors, new(r))
               /\ new(r).id = r.id /\ r.codes \subseteq new(r).codes
    <2>1. CASE at(r) = 0
      BY <1>3, <2>1
    <2>2. CASE at(r) # 0
      <3> DEFINE c == candidates[at(r)]
                 n == new(r)
      <3>1. c.primary \in ActorIds(t) /\ c.secondary = {}
        BY <1>2, <2>2 DEF Rebuilt
      <3>2. n = [r EXCEPT !.primary = c.primary, !.secondary = c.secondary,
                          !.codes = r.codes \cup c.codes]
        BY <2>2 DEF Improved
      <3> HIDE DEF c, n
      <3>3. /\ n.id = r.id /\ n.name = r.name /\ n.module = r.module
            /\ n.primary = c.primary /\ n.secondary = c.secondary
            /\ n.codes = r.codes \cup c.codes
        BY <1>3, <3>2 DEF IsRow
      <3>4. n = [id |-> r.id, name |-> r.name, module |-> r.module, primary |-> c.primary,
                 secondary |-> c.secondary, codes |-> r.codes \cup c.codes]
        BY <1>3, <3>2 DEF IsRow
      <3>5. IsRow(n)
        BY <3>3, <3>4 DEF IsRow
      <3>6. Placed(t.modules, t.actors, n)
        BY <1>3, <3>1, <3>3 DEF Placed, ActorIds
      <3> QED
        BY <3>3, <3>5, <3>6 DEF n
    <2> QED
      BY <2>1, <2>2
  <1> HIDE DEF new
  <1>4. /\ DOMAIN rows = DOMAIN t.rows /\ rows = [i \in DOMAIN t.rows |-> rows[i]]
        /\ \A i \in DOMAIN t.rows : rows[i] = new(t.rows[i])
    OBVIOUS
  <1> HIDE DEF rows
  <1>5. /\ m = [modules |-> t.modules, actors |-> t.actors, rows |-> rows, relations |-> t.relations]
        /\ m.modules = t.modules /\ m.actors = t.actors /\ m.rows = rows /\ m.relations = t.relations
    BY DEF Sound, IsTable
  <1> HIDE DEF m
  <1>6. IsSequence(rows)
    BY <1>4, FunctionIsSequence DEF Sound, IsTable
  <1>7. IsTable(m)
    BY <1>5, <1>6 DEF Sound, IsTable
  <1>8. \A i \in DOMAIN rows :
          /\ IsRow(rows[i]) /\ Placed(t.modules, t.actors, rows[i])
          /\ rows[i].id = t.rows[i].id /\ t.rows[i].codes \subseteq rows[i].codes
    BY <1>3, <1>4 DEF Sound
  <1>9. Distinct(rows)
    BY <1>4, <1>8 DEF Sound, Distinct
  <1>10. Sound(m)
    BY <1>5, <1>7, <1>8, <1>9 DEF Sound
  <1>11. ASSUME NEW codes, Covers(t, codes) PROVE Covers(m, codes)
    <2> SUFFICES ASSUME NEW c \in codes PROVE \E i \in DOMAIN rows : c \in rows[i].codes
      BY <1>5 DEF Covers
    <2>1. PICK i \in DOMAIN t.rows : c \in t.rows[i].codes
      BY <1>11 DEF Covers
    <2> QED
      BY <1>4, <1>8, <2>1
  <1> QED
    BY <1>1, <1>10, <1>11

-----------------------------------------------------------------------------
(* The monolithic pipeline *)

(* Until the table is complete the floor is that of the source and the     *)
(* rebuilt rows name its actors.                                           *)
FloorInv ==
    /\ source \in Sources /\ floor = Floor(source)
    /\ stage \in {"stored", "batches"} => Rebuilt(floor, enriched)
    /\ stage = "batches" => table = floor
    /\ stage = "table" => Sound(table) /\ Covers(table, StatedCodes(source))

LEMMA FloorInvInit == Init => FloorInv
  <1> SUFFICES ASSUME Init PROVE FloorInv
    OBVIOUS
  <1>1. Rebuilt(floor, <<>>)
    BY NoneIsSequence DEF Rebuilt
  <1> QED
    BY <1>1 DEF Init, FloorInv

LEMMA FloorInvNext == FloorInv /\ [Next]_vars => FloorInv'
  <1> SUFFICES ASSUME FloorInv, [Next]_vars PROVE FloorInv'
    OBVIOUS
  <1> USE DEF FloorInv
  <1>1. Sound(floor) /\ Covers(floor, StatedCodes(source))
    BY FloorFacts
  <1>2. CASE BuildFloor
    BY <1>2 DEF BuildFloor
  <1>3. CASE EnrichBatch
    <2>1. PICK drafts \in BatchDrafts :
             enriched' = enriched \o CandidateRows(floor, Batches(floor)[Len(shortlist) + 1], drafts)
      BY <1>3 DEF EnrichBatch
    <2> DEFINE more == CandidateRows(floor, Batches(floor)[Len(shortlist) + 1], drafts)
               all == enriched \o more
    <2>2. IsSequence(drafts)
      BY TableConstants
    <2>3. Rebuilt(floor, more) /\ Rebuilt(floor, enriched)
      BY <1>1, <1>3, <2>2, CandidateRowsFacts DEF EnrichBatch
    <2> HIDE DEF more
    <2>4. /\ IsSequence(all)
          /\ \A n \in DOMAIN all :
                \/ n \in DOMAIN enriched /\ all[n] = enriched[n]
                \/ n - Len(enriched) \in DOMAIN more /\ all[n] = more[n - Len(enriched)]
      BY <2>3, ConcatFacts DEF Rebuilt
    <2> HIDE DEF all
    <2>5. Rebuilt(floor, all)
      BY <2>3, <2>4 DEF Rebuilt
    <2>6. UNCHANGED <<source, stage, table, floor>> /\ enriched' = all
      BY <1>3, <2>1 DEF EnrichBatch, all, more
    <2>7. Rebuilt(floor, enriched)'
      BY <2>5, <2>6 DEF Rebuilt, ActorIds
    <2> QED
      BY <1>3, <2>6, <2>7 DEF EnrichBatch
  <1>4. CASE CompleteTable
    <2>1. Rebuilt(floor, enriched) /\ table' = Merged(floor, enriched) /\ stage' = "table"
          /\ UNCHANGED <<source, floor, enriched>>
      BY <1>4 DEF CompleteTable
    <2>2. Sound(Merged(floor, enriched)) /\ Covers(Merged(floor, enriched), StatedCodes(source))
      BY <1>1, <2>1, MergedFacts
    <2>3. Sound(table') /\ Covers(table', StatedCodes(source'))
      BY <2>1, <2>2
    <2> QED
      BY <2>1, <2>3
  <1>5. CASE GenerateGroups
    BY <1>5 DEF GenerateGroups
  <1>6. CASE ProposeCandidates
    BY <1>6 DEF ProposeCandidates
  <1>7. CASE SelectRows
    BY <1>7 DEF SelectRows
  <1>8. CASE Relate
    BY <1>8 DEF Relate
  <1>9. CASE RelateFails
    BY <1>9 DEF RelateFails
  <1>10. CASE LayOut
    BY <1>10 DEF LayOut
  <1>11. CASE UNCHANGED vars
    BY <1>11 DEF vars
  <1> QED
    BY <1>2, <1>3, <1>4, <1>5, <1>6, <1>7, <1>8, <1>9, <1>10, <1>11 DEF Next

LEMMA SoundRowIssues ==
    ASSUME NEW t, Sound(t), NEW i \in DOMAIN t.rows
    PROVE  RowIssues(t, t.rows[i]) = {}
  <1>1. Placed(t.modules, t.actors, t.rows[i])
    BY DEF Sound
  <1> QED
    BY <1>1 DEF Placed, RowIssues, ActorIds

LEMMA FloorInvMeans == FloorInv => FloorIsKept
  <1> SUFFICES ASSUME FloorInv, stage \in {"batches", "table"}
               PROVE  /\ \A c \in StatedCodes(source) :
                            \E i \in DOMAIN table.rows : c \in table.rows[i].codes
                      /\ \A i, j \in DOMAIN table.rows : table.rows[i].id = table.rows[j].id => i = j
                      /\ \A i \in DOMAIN table.rows :
                           RowIssues(table, table.rows[i]) \cap {"UNKNOWN_MODULE", "UNKNOWN_ACTOR"} = {}
    BY DEF FloorIsKept
  <1>1. Sound(table) /\ Covers(table, StatedCodes(source))
    BY FloorFacts DEF FloorInv
  <1>2. \A i \in DOMAIN table.rows : RowIssues(table, table.rows[i]) = {}
    BY <1>1, SoundRowIssues
  <1> QED
    BY <1>1, <1>2 DEF Sound, Distinct, Covers

(* Whatever the provider answers, the complete table keeps a row for every *)
(* requirement the documents state (complete_use_case_table), its rows     *)
(* have distinct ids and a known module and actor each.                    *)
THEOREM FloorStays == Spec => []FloorIsKept
  <1>1. Spec => []FloorInv
    BY FloorInvInit, FloorInvNext, PTL DEF Spec
  <1> QED
    BY <1>1, FloorInvMeans, PTL

-----------------------------------------------------------------------------
(* Actors and relationships of a sound table *)

LEMMA TwoMembers ==
    ASSUME NEW S, IsFiniteSet(S)
    PROVE  Cardinality(S) >= 2 <=> \E x, y \in S : x # y
  <1>1. Cardinality(S) \in Nat
    BY FS_CardinalityType
  <1>2. ASSUME Cardinality(S) >= 2 PROVE \E x, y \in S : x # y
    <2>1. S # {}
      BY <1>2, FS_EmptySet
    <2>2. PICK x \in S : TRUE
      BY <2>1
    <2>3. S # {x}
      BY <1>2, FS_Singleton
    <2> QED
      BY <2>2, <2>3
  <1>3. ASSUME NEW x \in S, NEW y \in S, x # y PROVE Cardinality(S) >= 2
    <2>1. Cardinality(S) # 0
      BY FS_EmptySet
    <2>2. Cardinality(S) # 1
      BY <1>3, FS_Singleton
    <2> QED
      BY <1>1, <2>1, <2>2
  <1> QED
    BY <1>2, <1>3

(* Without its idle actors a table is sound, and no actor is idle.         *)
LEMMA WithoutIdleFacts ==
    ASSUME NEW t, Sound(t)
    PROVE  /\ Sound(WithoutIdleActors(t)) /\ IdleActors(WithoutIdleActors(t)) = {}
           /\ WithoutIdleActors(t).rows = t.rows
           /\ WithoutIdleActors(t).relations = t.relations
  <1> DEFINE used == UNION {{t.rows[i].primary} \cup t.rows[i].secondary : i \in DOMAIN t.rows}
             S == {i \in DOMAIN t.actors : t.actors[i].id \in used}
             left == Picked(t.actors, S)
             m == [t EXCEPT !.actors = left]
  <1>1. WithoutIdleActors(t) = m
    BY DEF WithoutIdleActors, Where
  <1>2. Picking(left, t.actors, S)
    <2>1. IsSequence(t.actors) /\ S \in SUBSET (DOMAIN t.actors)
      BY DEF Sound, IsTable
    <2> HIDE DEF S
    <2> QED
      BY <2>1, PickedIsPicking
  <1> HIDE DEF left
  <1>3. {left[n].id : n \in DOMAIN left} = {t.actors[i].id : i \in DOMAIN t.actors} \cap used
    <2>1. ASSUME NEW n \in DOMAIN left
          PROVE  left[n].id \in used /\ \E i \in DOMAIN t.actors : left[n].id = t.actors[i].id
      <3>1. PICK i \in S : left[n] = t.actors[i]
        BY <1>2 DEF Picking
      <3>2. i \in DOMAIN t.actors /\ t.actors[i].id \in used
        OBVIOUS
      <3> HIDE DEF S, used
      <3> QED
        BY <3>1, <3>2
    <2>2. ASSUME NEW i \in DOMAIN t.actors, t.actors[i].id \in used
          PROVE  \E n \in DOMAIN left : left[n].id = t.actors[i].id
      <3>1. i \in S
        BY <2>2
      <3> HIDE DEF S
      <3>2. PICK n \in DOMAIN left : left[n] = t.actors[i]
        BY <1>2, <3>1 DEF Picking
      <3> QED
        BY <3>2
    <2> HIDE DEF used, S
    <2> QED
      BY <2>1, <2>2
  <1> HIDE DEF S
  <1>4. /\ m = [modules |-> t.modules, actors |-> left, rows |-> t.rows, relations |-> t.relations]
        /\ m.modules = t.modules /\ m.actors = left /\ m.rows = t.rows /\ m.relations = t.relations
    BY DEF Sound, IsTable
  <1> HIDE DEF m
  <1>5. IsTable(m)
    BY <1>2, <1>4 DEF Sound, IsTable, Picking
  <1>6. ASSUME NEW i \in DOMAIN t.rows
        PROVE  {t.rows[i].primary} \cup t.rows[i].secondary \subseteq used
    OBVIOUS
  <1>7. \A a \in used : \E i \in DOMAIN t.rows : a \in {t.rows[i].primary} \cup t.rows[i].secondary
    OBVIOUS
  <1> HIDE DEF used
  <1>8. ASSUME NEW i \in DOMAIN t.rows PROVE IsRow(t.rows[i]) /\ Placed(t.modules, left, t.rows[i])
    BY <1>3, <1>6 DEF Sound, Placed
  <1>9. Sound(m)
    BY <1>4, <1>5, <1>8 DEF Sound
  <1>10. ActorIds(m) \subseteq used
    BY <1>3, <1>4 DEF ActorIds
  <1>11. IdleActors(m) = {}
    BY <1>4, <1>7, <1>10 DEF IdleActors
  <1> QED
    BY <1>1, <1>4, <1>9, <1>11

(* Relationships between rows with these ids: their ends are two of these  *)
(* rows, an extend has its condition, no two have the same ends, and an    *)
(* include shares its target with another.                                 *)
Linked(ids, rels) ==
    /\ IsSequence(rels)
    /\ \A n \in DOMAIN rels : /\ {rels[n].from, rels[n].to} \subseteq ids /\ rels[n].from # rels[n].to
                              /\ rels[n].kind = "extend" => rels[n].condition
    /\ \A m, n \in DOMAIN rels : rels[m].from = rels[n].from /\ rels[m].to = rels[n].to => m = n
    /\ \A n \in DOMAIN rels : rels[n].kind = "include" =>
          \E m \in DOMAIN rels : m # n /\ rels[m].kind = "include" /\ rels[m].to = rels[n].to

LEMMA RelatedFacts ==
    ASSUME NEW t, Sound(t), NEW drafts, IsSequence(drafts)
    PROVE  /\ Sound(Related(t, drafts)) /\ Related(t, drafts).rows = t.rows
           /\ Related(t, drafts).actors = t.actors
           /\ Linked(RowIds(t), Related(t, drafts).relations)
  <1> DEFINE G == {i \in DOMAIN drafts : Recordable(t, drafts[i])}
             good == Picked(drafts, G)
             k == [i \in DOMAIN good |-> {good[i].from, good[i].to}]
             A == FirstAt(good, k)
             acc == Picked(good, A)
             K == {i \in DOMAIN acc : Shared(acc[i], acc)}
             kept == Picked(acc, K)
             rels == [n \in DOMAIN kept |-> Recorded(t, kept[n])]
             m == [t EXCEPT !.relations = rels]
  <1>1. Picking(good, drafts, G)
    <2>1. G \in SUBSET (DOMAIN drafts)
      OBVIOUS
    <2> HIDE DEF G
    <2> QED
      BY <2>1, PickedIsPicking
  <1>2. Accepted(t, drafts) = acc
    <2>1. Accepted(t, drafts) = FirstEach(good, LAMBDA d : {d.from, d.to})
      BY DEF Accepted, Good, Where
    <2>2. IsSequence(good)
      BY <1>1 DEF Picking
    <2> HIDE DEF good
    <2>3. Len(good) \in Nat /\ DOMAIN good = 1 .. Len(good)
      BY <2>2, SequenceFacts
    <2>4. \A i \in DOMAIN good : \A j \in 1 .. (i - 1) : j \in DOMAIN good
      BY <2>3
    <2>5. {i \in DOMAIN good : \A j \in 1 .. (i - 1) :
              {good[j].from, good[j].to} # {good[i].from, good[i].to}} = A
      BY <2>4 DEF FirstAt
    <2> HIDE DEF A
    <2>6. FirstEach(good, LAMBDA d : {d.from, d.to}) = acc
      BY <2>5 DEF FirstEach
    <2> QED
      BY <2>1, <2>6
  <1>3. Related(t, drafts) = m
    <2> DEFINE all == Accepted(t, drafts)
    <2>1. Related(t, drafts) =
            LET some == Picked(all, {i \in DOMAIN all : Shared(all[i], all)})
            IN  [t EXCEPT !.relations = [n \in DOMAIN some |-> Recorded(t, some[n])]]
      BY DEF Related, Mapped, Where
    <2> HIDE DEF acc, all
    <2>2. all = acc
      BY <1>2 DEF all
    <2> QED
      BY <2>1, <2>2
  <1>4. \A n \in DOMAIN good : Recordable(t, good[n])
    BY <1>1 DEF Picking
  <1> HIDE DEF good, G
  <1>5. \A n \in DOMAIN good : k[n] = {good[n].from, good[n].to}
    OBVIOUS
  <1> HIDE DEF k
  <1>6. /\ IsSequence(good) /\ A \in SUBSET (DOMAIN good)
        /\ \A i, j \in A : k[i] = k[j] => i = j
    BY <1>1, FirstFacts DEF Picking
  <1> HIDE DEF A
  <1>7. Picking(acc, good, A)
    BY <1>6, PickedIsPicking
  <1> HIDE DEF acc
  <1>8. /\ IsSequence(acc) /\ \A i \in DOMAIN acc : Recordable(t, acc[i])
        /\ \A i, j \in DOMAIN acc : {acc[i].from, acc[i].to} = {acc[j].from, acc[j].to} => i = j
    <2>1. \A i \in DOMAIN acc : Recordable(t, acc[i])
      BY <1>4, <1>6, <1>7 DEF Picking
    <2>2. ASSUME NEW i \in DOMAIN acc, NEW j \in DOMAIN acc, i # j
          PROVE  {acc[i].from, acc[i].to} # {acc[j].from, acc[j].to}
      <3>1. PICK a \in A, b \in A : a # b /\ acc[i] = good[a] /\ acc[j] = good[b]
        BY <1>7, <2>2 DEF Picking
      <3>2. k[a] # k[b]
        BY <1>6, <3>1
      <3> QED
        BY <1>5, <1>6, <3>1, <3>2, ZenonT(40)
    <2>3. IsSequence(acc)
      BY <1>7 DEF Picking
    <2> QED
      BY <2>1, <2>2, <2>3
  <1>9. ASSUME NEW i \in DOMAIN acc
        PROVE  /\ acc[i].from \in DOMAIN t.rows /\ acc[i].to \in DOMAIN t.rows
               /\ acc[i].from # acc[i].to /\ (acc[i].kind = "extend" => acc[i].condition)
    BY <1>8 DEF Recordable
  <1>10. K \in SUBSET (DOMAIN acc) /\ \A i \in DOMAIN acc : i \in K <=> Shared(acc[i], acc)
    OBVIOUS
  <1> HIDE DEF K
  <1>11. Picking(kept, acc, K)
    BY <1>8, <1>10, PickedIsPicking
  <1> HIDE DEF kept
  <1>12. /\ DOMAIN rels = DOMAIN kept /\ rels = [n \in DOMAIN kept |-> rels[n]]
         /\ \A n \in DOMAIN kept :
               /\ rels[n].from = t.rows[kept[n].from].id /\ rels[n].to = t.rows[kept[n].to].id
               /\ rels[n].kind = kept[n].kind /\ rels[n].condition = kept[n].condition
    BY DEF Recorded
  <1> HIDE DEF rels
  <1>13. IsSequence(rels)
    BY <1>11, <1>12, FunctionIsSequence DEF Picking
  <1>14. \A i, j \in DOMAIN t.rows : t.rows[i].id = t.rows[j].id => i = j
    BY DEF Sound, Distinct
  <1>15. ASSUME NEW n \in DOMAIN rels
         PROVE  /\ {rels[n].from, rels[n].to} \subseteq RowIds(t) /\ rels[n].from # rels[n].to
                /\ rels[n].kind = "extend" => rels[n].condition
    <2>1. PICK i \in K : kept[n] = acc[i]
      BY <1>11, <1>12 DEF Picking
    <2> QED
      BY <1>9, <1>10, <1>12, <1>14, <2>1 DEF RowIds
  <1>16. ASSUME NEW a \in DOMAIN rels, NEW b \in DOMAIN rels, a # b,
                rels[a].from = rels[b].from, rels[a].to = rels[b].to
         PROVE  FALSE
    <2>1. PICK i \in K, j \in K : i # j /\ kept[a] = acc[i] /\ kept[b] = acc[j]
      BY <1>11, <1>12, <1>16 DEF Picking
    <2>2. acc[i].from = acc[j].from /\ acc[i].to = acc[j].to
      BY <1>9, <1>10, <1>12, <1>14, <1>16, <2>1
    <2> QED
      BY <1>8, <1>10, <2>1, <2>2
  <1>17. ASSUME NEW n \in DOMAIN rels, rels[n].kind = "include"
         PROVE  \E b \in DOMAIN rels : b # n /\ rels[b].kind = "include" /\ rels[b].to = rels[n].to
    <2>1. PICK i \in K : kept[n] = acc[i]
      BY <1>11, <1>12 DEF Picking
    <2> DEFINE T == {j \in DOMAIN acc : acc[j].kind = "include" /\ acc[j].to = acc[i].to}
    <2>2. acc[i].kind = "include" /\ i \in DOMAIN acc
      BY <1>10, <1>12, <1>17, <2>1
    <2>3. Cardinality(T) >= 2
      BY <1>10, <2>2 DEF Shared
    <2>4. IsFiniteSet(T)
      <3>1. DOMAIN acc = 1 .. Len(acc) /\ Len(acc) \in Nat
        BY <1>8, SequenceFacts
      <3>2. IsFiniteSet(DOMAIN acc) /\ T \in SUBSET (DOMAIN acc)
        BY <3>1, FS_Interval
      <3> HIDE DEF T
      <3> QED
        BY <3>2, FS_Subset
    <2>5. \E x, y \in T : x # y
      <3> HIDE DEF T
      <3> QED
        BY <2>3, <2>4, TwoMembers
    <2>6. PICK j \in T : j # i
      BY <2>5
    <2>7. j \in DOMAIN acc /\ acc[j].kind = "include" /\ acc[j].to = acc[i].to
      BY <2>6
    <2>8. {x \in DOMAIN acc : acc[x].kind = "include" /\ acc[x].to = acc[j].to} = T
      BY <2>7
    <2>9. j \in K
      <3> HIDE DEF T
      <3> QED
        BY <1>10, <2>3, <2>7, <2>8 DEF Shared
    <2>10. PICK b \in DOMAIN kept : kept[b] = acc[j]
      BY <1>11, <2>9 DEF Picking
    <2>11. b # n
      <3>1. acc[j] # acc[i]
        BY <1>8, <2>2, <2>6, <2>7
      <3> QED
        BY <2>1, <2>10, <3>1
    <2>12. b \in DOMAIN rels /\ rels[b].kind = "include" /\ rels[b].to = rels[n].to
      BY <1>12, <2>1, <2>7, <2>10
    <2> QED
      BY <2>11, <2>12
  <1>18. Linked(RowIds(t), rels)
    BY <1>13, <1>15, <1>16, <1>17 DEF Linked
  <1>19. /\ m = [modules |-> t.modules, actors |-> t.actors, rows |-> t.rows, relations |-> rels]
         /\ m.modules = t.modules /\ m.actors = t.actors /\ m.rows = t.rows /\ m.relations = rels
    BY DEF Sound, IsTable
  <1> HIDE DEF m
  <1>20. Sound(m)
    BY <1>19 DEF Sound, IsTable
  <1> QED
    BY <1>3, <1>18, <1>19, <1>20

(* What the validator finds in a sound, linked table without idle actors.  *)
LEMMA LinkedIssues ==
    ASSUME NEW t, Sound(t), Linked(RowIds(t), t.relations), IdleActors(t) = {}
    PROVE  Issues(t) \subseteq {"NO_USE_CASES", "INCLUDE_CYCLE"}
  <1> DEFINE rels == t.relations
             I == {i \in DOMAIN rels : rels[i].kind = "include"}
             inc == Picked(rels, I)
             same(i, j) == rels[i].kind = rels[j].kind /\ rels[i].from = rels[j].from
                           /\ rels[i].to = rels[j].to
             sharing(r) == {i \in DOMAIN inc : inc[i].to = r.to}
  <1>1. Includes(t) = inc
    BY DEF Includes, Where
  <1>2. Picking(inc, rels, I)
    <2>1. I \in SUBSET (DOMAIN rels) /\ IsSequence(rels)
      BY DEF Linked
    <2> HIDE DEF I
    <2> QED
      BY <2>1, PickedIsPicking
  <1> HIDE DEF inc
  <1>3. ASSUME NEW n \in DOMAIN inc PROVE ~ (Cardinality(sharing(inc[n])) < 2)
    <2> DEFINE S == sharing(inc[n])
    <2>1. PICK a \in I : inc[n] = rels[a]
      BY <1>2 DEF Picking
    <2>2. a \in DOMAIN rels /\ rels[a].kind = "include"
      OBVIOUS
    <2>3. PICK b \in DOMAIN rels : a # b /\ rels[b].kind = "include" /\ rels[b].to = rels[a].to
      BY <2>2 DEF Linked
    <2>4. b \in I
      BY <2>3
    <2>5. PICK p \in DOMAIN inc : inc[p] = rels[b]
      BY <1>2, <2>4 DEF Picking
    <2>6. rels[a] # rels[b]
      BY <2>2, <2>3 DEF Linked
    <2>7. n \in S /\ p \in S /\ n # p
      BY <2>1, <2>3, <2>5, <2>6
    <2>8. IsFiniteSet(S)
      <3>1. IsSequence(inc)
        BY <1>2 DEF Picking
      <3>2. DOMAIN inc = 1 .. Len(inc) /\ Len(inc) \in Nat
        BY <3>1, SequenceFacts
      <3>3. IsFiniteSet(DOMAIN inc) /\ S \in SUBSET (DOMAIN inc)
        BY <3>2, FS_Interval
      <3> HIDE DEF S
      <3> QED
        BY <3>3, FS_Subset
    <2> HIDE DEF S
    <2>9. Cardinality(S) >= 2 /\ Cardinality(S) \in Nat
      BY <2>7, <2>8, TwoMembers, FS_CardinalityType
    <2>10. ~ (Cardinality(S) < 2)
      BY <2>9
    <2> QED
      BY <2>10 DEF S
  <1>4. \A n \in DOMAIN inc : ~ (Cardinality(sharing(inc[n])) < 2)
    BY <1>3
  <1>5. ~ \E i, j \in DOMAIN rels : i # j /\ same(i, j)
    BY DEF Linked
  <1>6. WholeIssues(t) =
          {c \in {"DUPLICATE_RELATIONSHIP", "INCLUDE_NOT_SHARED", "INCLUDE_CYCLE",
                  "ACTOR_WITHOUT_USE_CASE", "NO_USE_CASES"} :
             \/ c = "DUPLICATE_RELATIONSHIP" /\ \E i, j \in DOMAIN rels : i # j /\ same(i, j)
             \/ c = "INCLUDE_NOT_SHARED" /\ \E i \in DOMAIN inc : Cardinality(sharing(inc[i])) < 2
             \/ c = "INCLUDE_CYCLE" /\ IncludeCycle(t)
             \/ c = "ACTOR_WITHOUT_USE_CASE" /\ IdleActors(t) # {}
             \/ c = "NO_USE_CASES" /\ t.rows = <<>>}
    BY <1>1 DEF WholeIssues
  <1> HIDE DEF same, sharing
  <1>7. WholeIssues(t) \subseteq {"NO_USE_CASES", "INCLUDE_CYCLE"}
    BY <1>4, <1>5, <1>6
  <1>8. \A i \in DOMAIN t.rows : RowIssues(t, t.rows[i]) = {}
    BY SoundRowIssues
  <1>9. \A n \in DOMAIN rels : RelationIssues(t, rels[n]) = {}
    BY DEF RelationIssues, Linked
  <1>10. UNION {RowIssues(t, t.rows[i]) : i \in DOMAIN t.rows} = {}
    BY <1>8
  <1>11. UNION {RelationIssues(t, rels[n]) : n \in DOMAIN rels} = {}
    BY <1>9
  <1> QED
    BY <1>7, <1>10, <1>11 DEF Issues

-----------------------------------------------------------------------------
(* The modules and actors of the split pipeline *)

LEMMA NumberedFacts ==
    ASSUME NEW bases, IsSequence(bases)
    PROVE  /\ IsSequence(Numbered(bases)) /\ DOMAIN Numbered(bases) = DOMAIN bases
           /\ \A i, j \in DOMAIN bases : Numbered(bases)[i] = Numbered(bases)[j] => i = j
  <1> DEFINE before(i) == {j \in 1 .. i : bases[j] = bases[i]}
             ids == [i \in DOMAIN bases |-> <<bases[i], Cardinality(before(i))>>]
  <1>1. Numbered(bases) = ids
    BY DEF Numbered
  <1>2. Len(bases) \in Nat /\ DOMAIN bases = 1 .. Len(bases)
    BY SequenceFacts
  <1>3. ASSUME NEW i \in DOMAIN bases, NEW j \in DOMAIN bases, i < j, bases[i] = bases[j]
        PROVE  Cardinality(before(i)) # Cardinality(before(j))
    <2>1. i \in Nat /\ j \in Nat
      BY <1>2
    <2>2. before(i) \in SUBSET before(j) /\ j \in before(j) /\ j \notin before(i)
      BY <1>2, <1>3, <2>1
    <2>3. IsFiniteSet(before(j))
      <3>1. IsFiniteSet(1 .. j) /\ before(j) \in SUBSET (1 .. j)
        BY <2>1, FS_Interval
      <3> HIDE DEF before
      <3> QED
        BY <3>1, FS_Subset
    <2> HIDE DEF before
    <2> QED
      BY <2>2, <2>3, FS_Subset
  <1> HIDE DEF before
  <1>4. /\ DOMAIN ids = DOMAIN bases /\ ids = [i \in DOMAIN bases |-> ids[i]]
        /\ \A i \in DOMAIN bases : ids[i] = <<bases[i], Cardinality(before(i))>>
    OBVIOUS
  <1> HIDE DEF ids
  <1>5. ASSUME NEW i \in DOMAIN bases, NEW j \in DOMAIN bases, ids[i] = ids[j] PROVE i = j
    <2>1. <<bases[i], Cardinality(before(i))>> = <<bases[j], Cardinality(before(j))>>
      BY <1>4, <1>5
    <2>2. bases[i] = bases[j] /\ Cardinality(before(i)) = Cardinality(before(j))
      BY <2>1
    <2>3. ~ (i < j) /\ ~ (j < i)
      BY <1>3, <2>2
    <2> QED
      BY <1>2, <2>3
  <1>6. IsSequence(ids)
    BY <1>4, FunctionIsSequence
  <1> QED
    BY <1>1, <1>4, <1>5, <1>6

LEMMA GroupedFacts ==
    ASSUME NEW src \in Sources, NEW draft \in GroupDrafts
    PROVE  Sound(Grouped(src, draft)) /\ Grouped(src, draft).rows = <<>>
  <1> DEFINE lists == [i \in DOMAIN draft.groups |-> draft.groups[i].segment]
             roles == Dedup(FlattenSeq(lists))
             S == {i \in DOMAIN roles : ~ Contains(draft.actors, roles[i])}
             names == draft.actors \o Picked(roles, S)
             slugs == [i \in DOMAIN names |-> SlugOf[names[i]]]
             titles == [i \in DOMAIN draft.groups |-> draft.groups[i].name]
             actors == [i \in DOMAIN names |-> [id |-> Numbered(slugs)[i], name |-> names[i]]]
             modules == Numbered(titles)
             new == [modules |-> modules, actors |-> actors, rows |-> <<>>, relations |-> <<>>]
             old == [Floor(src) EXCEPT !.rows = <<>>]
  <1>1. /\ IsSequence(draft.actors) /\ IsSequence(draft.groups)
        /\ \A i \in DOMAIN draft.groups : IsSequence(draft.groups[i].segment)
    BY TableConstants
  <1>2. Grouped(src, draft) = IF draft.groups = <<>> THEN old ELSE new
    BY DEF Grouped, Mapped, Where
  <1>3. Sound(old) /\ old.rows = <<>>
    <2> DEFINE f == Floor(src)
    <2>1. Sound(f)
      BY FloorFacts
    <2> HIDE DEF f
    <2> DEFINE o == [f EXCEPT !.rows = <<>>]
    <2>2. /\ o = [modules |-> f.modules, actors |-> f.actors, rows |-> <<>>, relations |-> f.relations]
          /\ o.modules = f.modules /\ o.actors = f.actors /\ o.rows = <<>> /\ o.relations = f.relations
      BY <2>1 DEF Sound, IsTable
    <2>3. old = o
      BY DEF f
    <2> HIDE DEF o, old
    <2>4. IsTable(o)
      BY <2>1, <2>2, NoneIsSequence DEF Sound, IsTable
    <2>5. DOMAIN o.rows = {}
      BY <2>2
    <2>6. Sound(o)
      BY <2>4, <2>5 DEF Sound, Distinct
    <2> QED
      BY <2>2, <2>3, <2>6
  <1>4. IsSequence(titles)
    <2>1. titles = [i \in DOMAIN draft.groups |-> titles[i]]
      OBVIOUS
    <2> HIDE DEF titles
    <2> QED
      BY <1>1, <2>1, FunctionIsSequence
  <1>5. IsSequence(lists) /\ DOMAIN lists = DOMAIN draft.groups
        /\ \A i \in DOMAIN draft.groups : lists[i] = draft.groups[i].segment
    <2>1. lists = [i \in DOMAIN draft.groups |-> lists[i]]
          /\ \A i \in DOMAIN draft.groups : lists[i] = draft.groups[i].segment
      OBVIOUS
    <2> HIDE DEF lists
    <2> QED
      BY <1>1, <2>1, FunctionIsSequence
  <1> HIDE DEF lists, titles
  <1> DEFINE X == UNION {ToSet(lists[i]) : i \in DOMAIN lists}
  <1>6. lists \in Seq(Seq(X))
    <2>1. ASSUME NEW i \in DOMAIN lists PROVE lists[i] \in Seq(X)
      <3>1. IsSequence(lists[i]) /\ \A n \in DOMAIN lists[i] : lists[i][n] \in X
        BY <1>1, <1>5 DEF ToSet
      <3> HIDE DEF X
      <3> QED
        BY <3>1, MembersType
    <2> HIDE DEF X
    <2> QED
      BY <1>5, <2>1, MembersType
  <1> HIDE DEF X
  <1>7. IsSequence(roles)
    BY <1>6, FlattenFacts, ListType, DedupFacts
  <1> HIDE DEF roles
  <1>8. IsSequence(Picked(roles, S))
    <2>1. S \in SUBSET (DOMAIN roles)
      OBVIOUS
    <2> HIDE DEF S
    <2> QED
      BY <1>7, <2>1, PickedIsPicking DEF Picking
  <1> HIDE DEF S
  <1>9. IsSequence(names)
    BY <1>1, <1>8, ConcatFacts
  <1> HIDE DEF names
  <1>10. actors = [i \in DOMAIN names |-> actors[i]]
    OBVIOUS
  <1> HIDE DEF actors
  <1>11. IsSequence(actors) /\ IsSequence(modules)
    BY <1>4, <1>9, <1>10, FunctionIsSequence, NumberedFacts
  <1> HIDE DEF modules
  <1>12. /\ new.modules = modules /\ new.actors = actors /\ new.rows = <<>> /\ new.relations = <<>>
    OBVIOUS
  <1>13. IsTable(new)
    BY <1>11, <1>12, NoneIsSequence DEF IsTable
  <1> HIDE DEF new
  <1>14. DOMAIN new.rows = {}
    BY <1>12
  <1>15. Sound(new)
    BY <1>13, <1>14 DEF Sound, Distinct
  <1> HIDE DEF old
  <1> QED
    BY <1>2, <1>3, <1>12, <1>15

-----------------------------------------------------------------------------
(* The candidates *)

LEMMA ImageFacts ==
    ASSUME NEW S, IsFiniteSet(S), NEW f
    PROVE  /\ IsFiniteSet({f[x] : x \in S})
           /\ (\A x, y \in S : f[x] = f[y] => x = y) => Cardinality({f[x] : x \in S}) = Cardinality(S)
  <1> DEFINE T == {f[x] : x \in S}
             g == [x \in S |-> f[x]]
  <1>1. g \in Surjection(S, T)
    BY DEF Surjection
  <1>2. (\A x, y \in S : f[x] = f[y] => x = y) => g \in Injection(S, T)
    BY DEF Injection, IsInjective
  <1> HIDE DEF g, T
  <1>3. IsFiniteSet(T) /\ (g \in Injection(S, T) => Cardinality(T) = Cardinality(S))
    BY <1>1, FS_Surjection
  <1> QED
    BY <1>2, <1>3 DEF T

LEMMA MinTwo ==
    ASSUME NEW a \in Int, NEW b \in Int
    PROVE  Min({a, b}) = IF a <= b THEN a ELSE b
  <1> DEFINE T == {a, b}
  <1>1. PICK m \in T : \A y \in T : m <= y
    BY a <= b \/ b <= a
  <1>2. Min(T) \in T /\ \A y \in T : Min(T) <= y
    BY <1>1 DEF Min
  <1> QED
    BY <1>2

LEMMA MaxTwo ==
    ASSUME NEW a \in Int, NEW b \in Int
    PROVE  Max({a, b}) = IF a <= b THEN b ELSE a
  <1> DEFINE T == {a, b}
  <1>1. PICK m \in T : \A y \in T : y <= m
    BY a <= b \/ b <= a
  <1>2. Max(T) \in T /\ \A y \in T : y <= Max(T)
    BY <1>1 DEF Max
  <1> QED
    BY <1>2

(* The lists of candidates asked for so far.                               *)
Listed(t, lists) ==
    /\ IsSequence(lists) /\ Len(lists) <= Len(t.modules)
    /\ \A i \in DOMAIN lists :
         /\ IsSequence(lists[i])
         /\ \A k \in DOMAIN lists[i] :
              /\ lists[i][k].priority \in {"required", "recommended", "optional"}
              /\ IsSequence(lists[i][k].refs)

(* Candidates with a score each, told apart by their place.                *)
Ranked(A) ==
    /\ \A c \in A : Score(c) \in 0 .. 40 /\ c.order \in Nat /\ c.rank \in Nat
    /\ \A c, d \in A : c.order = d.order /\ c.rank = d.rank => c = d

LEMMA SequenceFinite ==
    ASSUME NEW s, IsSequence(s)
    PROVE  IsFiniteSet(DOMAIN s)
  <1>1. DOMAIN s = 1 .. Len(s) /\ Len(s) \in Nat
    BY SequenceFacts
  <1> QED
    BY <1>1, FS_Interval

LEMMA ScoreType ==
    ASSUME NEW c, c.priority \in {"required", "recommended", "optional"}, IsSequence(c.refs)
    PROVE  Score(c) \in 0 .. 40
  <1> DEFINE found == [i \in DOMAIN c.refs |-> Resolved(c.refs[i])]
  <1>1. \A label : IsFiniteSet(Resolved(label))
    BY FS_EmptySet, FS_Singleton, Zenon DEF Resolved
  <1>2. IsFiniteSet(DOMAIN c.refs)
    BY SequenceFinite
  <1>3. Citations(c) = UNION {found[i] : i \in DOMAIN c.refs}
    BY DEF Citations
  <1>4. \A T \in {found[i] : i \in DOMAIN c.refs} : IsFiniteSet(T)
    BY <1>1
  <1> HIDE DEF found
  <1>5. IsFiniteSet(Citations(c))
    <2> DEFINE U == {found[i] : i \in DOMAIN c.refs}
    <2>1. IsFiniteSet(U) /\ \A T \in U : IsFiniteSet(T)
      BY <1>2, <1>4, ImageFacts
    <2>2. Citations(c) = UNION U
      BY <1>3
    <2> HIDE DEF U
    <2> QED
      BY <2>1, <2>2, FS_UNION
  <1>6. Cardinality(Citations(c)) \in Nat
    BY <1>5, FS_CardinalityType
  <1> DEFINE n == Cardinality(Citations(c))
             m == Min({n, 3})
  <1>7. m \in 0 .. 3
    <2>1. n \in Int /\ 3 \in Int /\ n \in Nat
      BY <1>6
    <2> HIDE DEF n
    <2>2. m = IF n <= 3 THEN n ELSE 3
      BY <2>1, MinTwo
    <2> QED
      BY <2>1, <2>2
  <1>8. Score(c) = [required |-> 30, recommended |-> 20, optional |-> 10][c.priority]
                     + (IF c.explicit THEN 5 ELSE 0) + m
    BY DEF Score
  <1> HIDE DEF m
  <1>9. [required |-> 30, recommended |-> 20, optional |-> 10][c.priority] \in {10, 20, 30}
    OBVIOUS
  <1> DEFINE p == [required |-> 30, recommended |-> 20, optional |-> 10][c.priority]
             e == IF c.explicit THEN 5 ELSE 0
  <1>10. e \in {0, 5}
    OBVIOUS
  <1>11. Score(c) = p + e + m /\ p \in {10, 20, 30}
    BY <1>8, <1>9
  <1> HIDE DEF p, e
  <1> QED
    BY <1>7, <1>10, <1>11

LEMMA ProposedFacts ==
    ASSUME NEW t, NEW lists, Listed(t, lists)
    PROVE  /\ IsFiniteSet(Proposed(t, lists)) /\ Ranked(Proposed(t, lists))
           /\ \A c \in Proposed(t, lists) : c.order \in DOMAIN lists /\ c.module = t.modules[c.order]
  <1> DEFINE cand(i, k) == [name |-> lists[i][k].name, actor |-> lists[i][k].actor,
                            priority |-> lists[i][k].priority, explicit |-> lists[i][k].explicit,
                            refs |-> lists[i][k].refs, module |-> t.modules[i], order |-> i, rank |-> k]
             row(i) == [k \in DOMAIN lists[i] |-> cand(i, k)]
             of == [i \in DOMAIN lists |-> {row(i)[k] : k \in DOMAIN lists[i]}]
             P == Proposed(t, lists)
  <1>1. \A c : c \in P <=> \E i \in DOMAIN lists : \E k \in DOMAIN lists[i] : c = cand(i, k)
    BY DEF Proposed
  <1>2. P = UNION {of[i] : i \in DOMAIN lists}
    BY DEF Proposed
  <1>3. /\ IsSequence(lists)
        /\ \A i \in DOMAIN lists : IsSequence(lists[i])
    BY DEF Listed
  <1>4. \A i \in DOMAIN lists : IsFiniteSet(of[i])
    <2>1. ASSUME NEW i \in DOMAIN lists PROVE IsFiniteSet(of[i])
      <3> DEFINE f == row(i)
      <3>1. of[i] = {f[k] : k \in DOMAIN lists[i]}
        OBVIOUS
      <3>2. IsFiniteSet(DOMAIN lists[i])
        BY <1>3, SequenceFinite
      <3> HIDE DEF f, of
      <3>3. IsFiniteSet({f[k] : k \in DOMAIN lists[i]})
        BY <3>2, ImageFacts
      <3> QED
        BY <3>1, <3>3
    <2> QED
      BY <2>1
  <1> HIDE DEF of
  <1>5. IsFiniteSet(P)
    <2>1. IsFiniteSet(DOMAIN lists)
      BY <1>3, SequenceFinite
    <2>2. IsFiniteSet({of[i] : i \in DOMAIN lists})
      BY <2>1, ImageFacts
    <2>3. \A T \in {of[i] : i \in DOMAIN lists} : IsFiniteSet(T)
      BY <1>4
    <2> QED
      BY <1>2, <2>2, <2>3, FS_UNION
  <1> HIDE DEF P
  <1>6. ASSUME NEW c \in P
        PROVE  /\ Score(c) \in 0 .. 40 /\ c.order \in Nat /\ c.rank \in Nat
               /\ c.order \in DOMAIN lists /\ c.module = t.modules[c.order]
               /\ c = cand(c.order, c.rank)
    <2>0. PICK i \in DOMAIN lists : \E k \in DOMAIN lists[i] : c = cand(i, k)
      BY <1>1, <1>6
    <2>1. PICK k \in DOMAIN lists[i] : c = cand(i, k)
      BY <2>0
    <2>2. c.order = i /\ c.rank = k /\ c.module = t.modules[i]
          /\ c.priority = lists[i][k].priority /\ c.refs = lists[i][k].refs
      BY <2>1
    <2>3. c.priority \in {"required", "recommended", "optional"} /\ IsSequence(c.refs)
      BY <2>2 DEF Listed
    <2>4. i \in Nat /\ k \in Nat
      <3>1. DOMAIN lists = 1 .. Len(lists) /\ Len(lists) \in Nat
        BY <1>3, SequenceFacts
      <3>2. DOMAIN lists[i] = 1 .. Len(lists[i]) /\ Len(lists[i]) \in Nat
        BY <1>3, SequenceFacts
      <3> QED
        BY <3>1, <3>2
    <2>5. Score(c) \in 0 .. 40
      BY <2>3, ScoreType
    <2> QED
      BY <2>1, <2>2, <2>4, <2>5
  <1> HIDE DEF cand
  <1>7. \A c, d \in P : c.order = d.order /\ c.rank = d.rank => c = d
    BY <1>6
  <1>8. Ranked(P)
    BY <1>6, <1>7 DEF Ranked
  <1> QED
    BY <1>5, <1>6, <1>8 DEF P

(* Of some ranked candidates one is better than all others.                *)
LEMMA BestExists ==
    ASSUME NEW A, A # {}, Ranked(A)
    PROVE  \E c \in A : \A d \in A \ {c} : Better(c, d)
  <1> DEFINE T == {40 - Score(c) : c \in A}
  <1>1. T \in SUBSET Nat /\ T # {}
    BY DEF Ranked
  <1>2. PICK s \in T : \A x \in T : s <= x
    <2> HIDE DEF T
    <2> QED
      BY <1>1, LeastNumber
  <1>3. PICK a \in A : s = 40 - Score(a)
    BY <1>2
  <1>4. \A c \in A : Score(c) <= Score(a) /\ Score(c) \in Nat
    <2>1. ASSUME NEW c \in A PROVE Score(c) <= Score(a) /\ Score(c) \in Nat
      <3>1. 40 - Score(a) <= 40 - Score(c)
        BY <1>2, <1>3
      <3>2. Score(c) \in 0 .. 40 /\ Score(a) \in 0 .. 40
        BY DEF Ranked
      <3> QED
        BY <3>1, <3>2
    <2> QED
      BY <2>1
  <1> DEFINE A1 == {c \in A : Score(c) = Score(a)}
             R == {c.rank : c \in A1}
  <1>5. R \in SUBSET Nat /\ R # {}
    BY DEF Ranked
  <1>6. PICK r \in R : \A x \in R : r <= x
    <2> HIDE DEF R
    <2> QED
      BY <1>5, LeastNumber
  <1> DEFINE A2 == {c \in A1 : c.rank = r}
             O == {c.order : c \in A2}
  <1>7. O \in SUBSET Nat /\ O # {}
    BY <1>6 DEF Ranked
  <1>8. PICK o \in O : \A x \in O : o <= x
    <2> HIDE DEF O
    <2> QED
      BY <1>7, LeastNumber
  <1>9. PICK b \in A2 : o = b.order
    BY <1>8
  <1>10. b \in A /\ Score(b) = Score(a) /\ b.rank = r /\ b.rank \in Nat /\ b.order \in Nat
    BY <1>9 DEF Ranked
  <1>11. ASSUME NEW d \in A, d # b PROVE Better(b, d)
    <2>1. Score(d) \in Nat /\ Score(b) \in Nat /\ d.rank \in Nat /\ d.order \in Nat
      BY <1>4, <1>10, <1>11 DEF Ranked
    <2>2. CASE Score(d) # Score(b)
      <3>1. Score(d) <= Score(b)
        BY <1>4, <1>10, <1>11
      <3>2. Score(b) > Score(d)
        BY <2>1, <2>2, <3>1
      <3> QED
        BY <3>2 DEF Better
    <2>3. CASE Score(d) = Score(b) /\ d.rank # r
      <3>1. d \in A1
        BY <1>10, <1>11, <2>3
      <3>2. r <= d.rank
        BY <1>6, <3>1
      <3>3. b.rank < d.rank
        BY <1>10, <2>1, <2>3, <3>2
      <3> QED
        BY <2>3, <3>3 DEF Better
    <2>4. CASE Score(d) = Score(b) /\ d.rank = r
      <3>1. d \in A2
        BY <1>10, <1>11, <2>4
      <3>2. b.order <= d.order
        BY <1>8, <1>9, <3>1
      <3>3. d.order # b.order
        BY <1>10, <1>11, <2>4 DEF Ranked
      <3>4. b.order < d.order
        BY <1>10, <2>1, <3>2, <3>3
      <3> QED
        BY <1>10, <2>4, <3>4 DEF Better
    <2> QED
      BY <2>2, <2>3, <2>4
  <1> QED
    BY <1>10, <1>11

(* What a pass over the pool leaves: no key is taken twice, the budget is  *)
(* used up or every key is covered, and a candidate better than one taken  *)
(* has its key covered by another.                                         *)
Taken(pool, chosen, by, F) ==
    /\ chosen \subseteq F /\ F \subseteq pool /\ Cardinality(F) <= Budget
    /\ \A c \in F \ chosen, d \in F : Key(c, by) = Key(d, by) => c = d
    /\ \A d \in F \ chosen, c \in pool :
          Better(c, d) => \E e \in F \ {d} : Key(e, by) = Key(c, by)
Filled(pool, chosen, by, F) ==
    /\ Taken(pool, chosen, by, F)
    /\ Cardinality(F) = Budget \/ \A c \in pool : \E d \in F : Key(d, by) = Key(c, by)

(* Taking the best of those whose key is not covered.                      *)
LEMMA TakeOne ==
    ASSUME NEW pool, IsFiniteSet(pool), NEW chosen, NEW by, NEW C, Taken(pool, chosen, by, C),
           Cardinality(C) < Budget,
           NEW b \in pool \ C, \A d \in C : Key(d, by) # Key(b, by),
           \A c \in pool \ C : (\A d \in C : Key(d, by) # Key(c, by)) /\ c # b => Better(b, c),
           Ranked(pool)
    PROVE  Taken(pool, chosen, by, C \cup {b}) /\ Cardinality(C \cup {b}) = Cardinality(C) + 1
  <1> DEFINE D == C \cup {b}
  <1>1. C \in SUBSET pool /\ IsFiniteSet(C) /\ Cardinality(C) \in Nat /\ Budget \in Nat
    BY FS_Subset, FS_CardinalityType, TableConstants DEF Taken
  <1>2. Cardinality(D) = Cardinality(C) + 1 /\ Cardinality(D) <= Budget
    <2>1. Cardinality(C \cup {b}) = IF b \in C THEN Cardinality(C) ELSE Cardinality(C) + 1
      BY <1>1, FS_AddElement
    <2> QED
      BY <1>1, <2>1
  <1>3. chosen \subseteq D /\ D \subseteq pool
    BY DEF Taken
  <1>4. ASSUME NEW c \in D \ chosen, NEW d \in D, Key(c, by) = Key(d, by) PROVE c = d
    BY <1>4 DEF Taken
  <1>5. ASSUME NEW c \in pool, Better(c, b) PROVE \E e \in D \ {b} : Key(e, by) = Key(c, by)
    <2>1. Score(c) \in Nat /\ Score(b) \in Nat /\ c.rank \in Nat /\ b.rank \in Nat
          /\ c.order \in Nat /\ b.order \in Nat
      BY DEF Ranked
    <2>2. ~ Better(b, c) /\ c # b
      BY <1>5, <2>1 DEF Better
    <2>3. c \in C \/ \E d \in C : Key(d, by) = Key(c, by)
      BY <2>2
    <2> QED
      BY <2>3
  <1>6. ASSUME NEW d \in D \ chosen, NEW c \in pool, Better(c, d)
        PROVE  \E e \in D \ {d} : Key(e, by) = Key(c, by)
    <2>1. CASE d = b
      BY <1>5, <1>6, <2>1
    <2>2. CASE d # b
      <3>1. PICK e \in C \ {d} : Key(e, by) = Key(c, by)
        BY <1>6, <2>2 DEF Taken
      <3> QED
        BY <3>1
    <2> QED
      BY <2>1, <2>2
  <1> HIDE DEF D
  <1>7. Taken(pool, chosen, by, D)
    BY <1>2, <1>3, <1>4, <1>6 DEF Taken
  <1> QED
    BY <1>2, <1>7 DEF D

LEMMA FillFacts ==
    ASSUME NEW pool, IsFiniteSet(pool), Ranked(pool), NEW chosen \in SUBSET pool,
           Cardinality(chosen) <= Budget, NEW by
    PROVE  Filled(pool, chosen, by, Fill(pool, chosen, by))
  <1> DEFINE V == SUBSET pool
             covered == {Key(c, by) : c \in chosen}
             open(C) == {c \in pool \ C : /\ Key(c, by) \notin covered
                                          /\ \A d \in C \ chosen : Key(d, by) # Key(c, by)}
             best(A) == CHOOSE c \in A : \A d \in A \ {c} : Better(c, d)
             next(C) == IF Cardinality(C) >= Budget \/ open(C) = {} THEN C ELSE C \cup {best(open(C))}
             Taking(f) == f = [n \in 0 .. Budget |-> IF n = 0 THEN chosen ELSE next(f[n - 1])]
             g == CHOOSE f : Taking(f)
             step == [p \in Nat \X V |-> next(p[2])]
  <1>1. Budget \in Nat /\ Budget # 0
    BY TableConstants
  <1>2. Fill(pool, chosen, by) = g[Budget]
    BY DEF Fill, Pass
  <1>3. \A C : \A c : c \in open(C) <=>
          /\ c \in pool /\ c \notin C /\ c \notin chosen
          /\ \A d \in C \cup chosen : Key(d, by) # Key(c, by)
    OBVIOUS
  <1>4. ASSUME NEW C, open(C) # {}
        PROVE  /\ best(open(C)) \in open(C)
               /\ \A d \in open(C) \ {best(open(C))} : Better(best(open(C)), d)
    <2> DEFINE A == open(C)
    <2>1. A \subseteq pool
      OBVIOUS
    <2> HIDE DEF A, open
    <2>2. A # {}
      BY <1>4 DEF A
    <2>3. Ranked(A)
      BY <2>1 DEF Ranked
    <2>4. \E c \in A : \A d \in A \ {c} : Better(c, d)
      BY <2>2, <2>3, BestExists
    <2>5. best(A) \in A /\ \A d \in A \ {best(A)} : Better(best(A), d)
      BY <2>4
    <2> QED
      BY <2>5 DEF A
  <1> HIDE DEF open, best
  <1>5. step \in [Nat \X V -> V]
    <2>1. \A C \in V : next(C) \in V
      BY <1>3, <1>4
    <2> HIDE DEF next, V
    <2> QED
      BY <2>1
  <1>6. PICK f : Steps(f, V, chosen, step, Budget)
    <2> HIDE DEF V, step
    <2> QED
      BY <1>1, <1>5, StepsExist DEF V
  <1> HIDE DEF next
  <1>7. Taking(f)
    <2>1. ASSUME NEW n \in 1 .. Budget PROVE f[n] = next(f[n - 1])
      <3>1. n - 1 \in 0 .. Budget /\ n \in Nat
        BY <1>1
      <3>2. f[n - 1] \in V /\ f[n] = step[<<n, f[n - 1]>>]
        BY <1>6, <3>1 DEF Steps
      <3> HIDE DEF V
      <3> QED
        BY <3>1, <3>2
    <2>2. f[0] = chosen /\ f \in [0 .. Budget -> V]
      BY <1>6 DEF Steps
    <2> HIDE DEF V, step
    <2> QED
      BY <1>1, <2>1, <2>2
  <1>8. Taking(g)
    BY <1>7
  <1> HIDE DEF g
  <1>9. g[0] = chosen /\ \A n \in 1 .. Budget : g[n] = next(g[n - 1])
    <2>1. g = [n \in 0 .. Budget |-> IF n = 0 THEN chosen ELSE next(g[n - 1])]
      BY <1>8
    <2> QED
      BY <1>1, <2>1
  <1> HIDE DEF Taking
  <1> DEFINE stuck(C) == Cardinality(C) >= Budget \/ open(C) = {}
             Fit(n) == Taken(pool, chosen, by, g[n]) /\ (n <= Cardinality(g[n]) \/ stuck(g[n]))
             S == {n \in Nat : n <= Budget => Fit(n)}
  <1>10. \A C : Taken(pool, chosen, by, C) => IsFiniteSet(C) /\ Cardinality(C) \in Nat
    <2> SUFFICES ASSUME NEW C, Taken(pool, chosen, by, C)
                 PROVE  IsFiniteSet(C) /\ Cardinality(C) \in Nat
      OBVIOUS
    <2>1. C \in SUBSET pool
      BY DEF Taken
    <2> QED
      BY <2>1, FS_Subset, FS_CardinalityType
  <1>11. 0 \in S
    <2>1. Taken(pool, chosen, by, chosen)
      BY DEF Taken
    <2> QED
      BY <1>9, <1>10, <2>1
  <1>12. ASSUME NEW n \in S PROVE n + 1 \in S
    <2> SUFFICES ASSUME n + 1 <= Budget PROVE Fit(n + 1)
      OBVIOUS
    <2> DEFINE C == g[n]
    <2>1. n \in Nat /\ n + 1 \in 1 .. Budget /\ (n + 1) - 1 = n /\ n <= Budget
      BY <1>1
    <2>2. g[n + 1] = next(C)
      BY <1>9, <2>1
    <2>3. Taken(pool, chosen, by, C) /\ (n <= Cardinality(C) \/ stuck(C))
      BY <2>1
    <2>4. IsFiniteSet(C) /\ Cardinality(C) \in Nat
      BY <1>10, <2>3
    <2> HIDE DEF C
    <2>5. CASE stuck(C)
      <3>1. g[n + 1] = C
        BY <2>2, <2>5 DEF next
      <3> QED
        BY <2>3, <2>5, <3>1
    <2>6. CASE ~ stuck(C)
      <3> DEFINE b == best(open(C))
      <3>1. g[n + 1] = C \cup {b}
        BY <2>2, <2>6 DEF next
      <3>2. /\ b \in open(C)
            /\ \A d \in open(C) \ {b} : Better(b, d)
        BY <1>4, <2>6
      <3> HIDE DEF b
      <3>3. chosen \subseteq C
        BY <2>3 DEF Taken
      <3>4. b \in pool \ C /\ \A d \in C : Key(d, by) # Key(b, by)
        BY <1>3, <3>2, <3>3
      <3>5. \A c \in pool \ C : (\A d \in C : Key(d, by) # Key(c, by)) /\ c # b => Better(b, c)
        BY <1>3, <3>2, <3>3
      <3>6. Cardinality(C) < Budget
        BY <1>1, <2>4, <2>6
      <3>7. Taken(pool, chosen, by, C \cup {b}) /\ Cardinality(C \cup {b}) = Cardinality(C) + 1
        BY <2>3, <3>4, <3>5, <3>6, TakeOne
      <3>8. n + 1 <= Cardinality(C \cup {b})
        BY <2>1, <2>3, <2>4, <2>6, <3>7
      <3> QED
        BY <3>1, <3>7, <3>8
    <2> QED
      BY <2>5, <2>6
  <1> HIDE DEF S
  <1>13. S = Nat
    BY <1>11, <1>12, FromZero DEF S
  <1>14. Fit(Budget)
    BY <1>1, <1>13 DEF S
  <1> DEFINE F == g[Budget]
  <1>15. Taken(pool, chosen, by, F) /\ (Budget <= Cardinality(F) \/ open(F) = {})
    BY <1>1, <1>10, <1>14
  <1> HIDE DEF F
  <1>16. Cardinality(F) \in Nat /\ Cardinality(F) <= Budget /\ chosen \subseteq F
    BY <1>10, <1>15 DEF Taken
  <1>17. ASSUME Budget <= Cardinality(F) PROVE Filled(pool, chosen, by, F)
    <2>1. Cardinality(F) = Budget
      BY <1>1, <1>16, <1>17
    <2> QED
      BY <1>15, <2>1 DEF Filled
  <1>18. ASSUME open(F) = {} PROVE Filled(pool, chosen, by, F)
    <2>1. ASSUME NEW c \in pool PROVE \E d \in F : Key(d, by) = Key(c, by)
      <3>1. c \notin open(F)
        BY <1>18
      <3> QED
        BY <1>3, <1>16, <3>1
    <2> QED
      BY <1>15, <2>1 DEF Filled
  <1>19. Filled(pool, chosen, by, F)
    BY <1>15, <1>17, <1>18
  <1> QED
    BY <1>2, <1>19 DEF F

-----------------------------------------------------------------------------
(* The rows of the split pipeline *)

(* What counts among the candidates: one of every name, with an actor.     *)
LEMMA FilteredFacts ==
    ASSUME NEW t, NEW lists, Listed(t, lists)
    PROVE  /\ IsFiniteSet(Filtered(t, lists)) /\ Ranked(Filtered(t, lists))
           /\ \A c \in Filtered(t, lists) :
                /\ c.actor \in DOMAIN t.actors /\ c.order \in DOMAIN lists
                /\ c.module = t.modules[c.order]
           /\ \A c, d \in Filtered(t, lists) : c.name = d.name => c = d
  <1> DEFINE all == Proposed(t, lists)
             usable == {c \in all : Citations(c) # {} /\ c.actor \in DOMAIN t.actors}
             earlier(c, d) == c.order < d.order \/ (c.order = d.order /\ c.rank < d.rank)
             wins(c, d) == Score(c) > Score(d) \/ (Score(c) = Score(d) /\ earlier(c, d))
             pool == {c \in usable : \A d \in usable : d.name = c.name /\ d # c => wins(c, d)}
  <1>1. Filtered(t, lists) = pool
    BY DEF Filtered
  <1>2. /\ IsFiniteSet(all) /\ Ranked(all)
        /\ \A c \in all : c.order \in DOMAIN lists /\ c.module = t.modules[c.order]
    BY ProposedFacts
  <1> HIDE DEF all
  <1>3. pool \in SUBSET all /\ \A c \in pool : c.actor \in DOMAIN t.actors
    OBVIOUS
  <1>4. \A c, d \in pool : c.name = d.name /\ c # d => wins(c, d) /\ wins(d, c)
    OBVIOUS
  <1> HIDE DEF pool
  <1>5. ASSUME NEW c \in pool, NEW d \in pool, c.name = d.name, c # d PROVE FALSE
    <2>1. wins(c, d) /\ wins(d, c)
      BY <1>4, <1>5
    <2>2. /\ Score(c) \in Nat /\ Score(d) \in Nat /\ c.order \in Nat /\ d.order \in Nat
          /\ c.rank \in Nat /\ d.rank \in Nat
      BY <1>2, <1>3 DEF Ranked
    <2> QED
      BY <2>1, <2>2
  <1>6. IsFiniteSet(pool)
    BY <1>2, <1>3, FS_Subset
  <1>7. Ranked(pool)
    BY <1>2, <1>3 DEF Ranked
  <1> QED
    BY <1>1, <1>2, <1>3, <1>5, <1>6, <1>7

(* s lists the members of S, each once.                                    *)
Lists(s, S) ==
    /\ IsSequence(s) /\ Cardinality(S) \in Nat /\ DOMAIN s = 1 .. Cardinality(S)
    /\ \A n \in DOMAIN s : s[n] \in S
    /\ \A x \in S : \E n \in DOMAIN s : s[n] = x
    /\ \A m, n \in DOMAIN s : m # n => s[m] # s[n]

(* The three passes over the pool.                                         *)
Passes(pool, A, B, C) ==
    /\ Filled(pool, {}, "actor", A)
    /\ Filled(pool, A, "module", B)
    /\ Filled(pool, B, "any", C)

LEMMA SelectedFacts ==
    ASSUME NEW t, NEW lists, Listed(t, lists)
    PROVE  \E A, B, C : Passes(Filtered(t, lists), A, B, C) /\ Lists(Selected(t, lists), C)
  <1> DEFINE pool == Filtered(t, lists)
             A == Fill(pool, {}, "actor")
             B == Fill(pool, A, "module")
             C == Fill(pool, B, "any")
             upTo(c, d) == c = d \/ c.order < d.order \/ (c.order = d.order /\ Better(c, d))
             R == {p \in C \X C : upTo(p[1], p[2])}
             s == InOrder(C, R)
  <1>1. Selected(t, lists) = s
    BY DEF Selected
  <1>2. IsFiniteSet(pool) /\ Ranked(pool)
    BY FilteredFacts
  <1> HIDE DEF pool
  <1>3. Budget \in Nat
    BY TableConstants
  <1>4. Filled(pool, {}, "actor", A)
    <2>1. {} \in SUBSET pool /\ Cardinality({}) <= Budget
      BY <1>3, FS_EmptySet
    <2> QED
      BY <1>2, <2>1, FillFacts
  <1> HIDE DEF A
  <1>5. Filled(pool, A, "module", B)
    <2>1. A \in SUBSET pool /\ Cardinality(A) <= Budget
      BY <1>4 DEF Filled, Taken
    <2> QED
      BY <1>2, <2>1, FillFacts
  <1> HIDE DEF B
  <1>6. Filled(pool, B, "any", C)
    <2>1. B \in SUBSET pool /\ Cardinality(B) <= Budget
      BY <1>5 DEF Filled, Taken
    <2> QED
      BY <1>2, <2>1, FillFacts
  <1> HIDE DEF C
  <1>7. C \in SUBSET pool
    BY <1>6 DEF Filled, Taken
  <1>8. IsFiniteSet(C)
    BY <1>2, <1>7, FS_Subset
  <1>9. TotalOrder(C, R)
    <2>1. \A c \in C : Score(c) \in Nat /\ c.order \in Nat /\ c.rank \in Nat
      BY <1>2, <1>7 DEF Ranked
    <2>2. \A c, d \in C : <<c, d>> \in R <=> upTo(c, d)
      OBVIOUS
    <2>3. \A c, d \in C : c.order = d.order /\ c.rank = d.rank => c = d
      BY <1>2, <1>7 DEF Ranked
    <2> HIDE DEF R
    <2>4. \A c \in C : upTo(c, c)
      OBVIOUS
    <2>5. \A c, d \in C : upTo(c, d) \/ upTo(d, c)
      BY <2>1, <2>3 DEF Better
    <2>6. \A c, d \in C : upTo(c, d) /\ upTo(d, c) => c = d
      BY <2>1 DEF Better
    <2>7. ASSUME NEW c \in C, NEW d \in C, NEW e \in C, upTo(c, d), upTo(d, e) PROVE upTo(c, e)
      BY <2>1, <2>7 DEF Better
    <2> HIDE DEF upTo
    <2> QED
      BY <2>2, <2>4, <2>5, <2>6, <2>7 DEF TotalOrder
  <1> HIDE DEF R
  <1>10. /\ Cardinality(C) \in Nat
         /\ s \in [1 .. Cardinality(C) -> C]
         /\ \A x \in C : \E n \in 1 .. Cardinality(C) : s[n] = x
         /\ \A m, n \in 1 .. Cardinality(C) : m # n => s[m] # s[n]
    BY <1>8, <1>9, InOrderFacts
  <1> HIDE DEF s
  <1>11. IsSequence(s)
    <2>1. DOMAIN s = 1 .. Cardinality(C) /\ s = [n \in DOMAIN s |-> s[n]]
      BY <1>10
    <2> QED
      BY <1>10, <2>1, SequenceOf
  <1>12. Lists(s, C)
    BY <1>10, <1>11 DEF Lists
  <1>13. Passes(pool, A, B, C)
    BY <1>4, <1>5, <1>6 DEF Passes
  <1> QED
    BY <1>1, <1>12, <1>13 DEF pool

(* The table of the selected rows is sound.                                *)
LEMMA SelectRowsFacts ==
    ASSUME NEW t, Sound(t), NEW lists, Listed(t, lists), NEW rows, NEW ids,
           ids = Numbered([n \in DOMAIN Selected(t, lists) |-> Selected(t, lists)[n].module]),
           rows = [n \in DOMAIN Selected(t, lists) |->
                     [id |-> ids[n], name |-> Selected(t, lists)[n].name,
                      module |-> Selected(t, lists)[n].module,
                      primary |-> t.actors[Selected(t, lists)[n].actor].id,
                      secondary |-> {}, codes |-> {}]]
    PROVE  Sound([modules |-> t.modules, actors |-> t.actors, rows |-> rows, relations |-> <<>>])
  <1> DEFINE chosen == Selected(t, lists)
             pool == Filtered(t, lists)
             bases == [n \in DOMAIN chosen |-> chosen[n].module]
             m == [modules |-> t.modules, actors |-> t.actors, rows |-> rows, relations |-> <<>>]
  <1>1. PICK A, B, C : Passes(pool, A, B, C) /\ Lists(chosen, C)
    BY SelectedFacts
  <1>2. /\ IsSequence(t.modules) /\ IsSequence(t.actors) /\ IsSequence(lists)
        /\ Len(lists) <= Len(t.modules)
    BY DEF Sound, IsTable, Listed
  <1>3. \A c \in pool : c.actor \in DOMAIN t.actors /\ c.module \in ToSet(t.modules)
    <2>1. DOMAIN lists \subseteq DOMAIN t.modules
      <3>1. /\ Len(lists) \in Nat /\ DOMAIN lists = 1 .. Len(lists)
            /\ Len(t.modules) \in Nat /\ DOMAIN t.modules = 1 .. Len(t.modules)
        BY <1>2, SequenceFacts
      <3> QED
        BY <1>2, <3>1
    <2> QED
      BY <2>1, FilteredFacts DEF ToSet
  <1> HIDE DEF chosen, pool
  <1>4. IsSequence(chosen) /\ \A n \in DOMAIN chosen : chosen[n] \in pool
    BY <1>1 DEF Lists, Passes, Filled, Taken
  <1>5. /\ DOMAIN bases = DOMAIN chosen /\ bases = [n \in DOMAIN chosen |-> bases[n]]
    OBVIOUS
  <1>6. ids = Numbered(bases)
    BY DEF chosen
  <1>7. rows = [n \in DOMAIN chosen |->
                  [id |-> ids[n], name |-> chosen[n].name, module |-> chosen[n].module,
                   primary |-> t.actors[chosen[n].actor].id, secondary |-> {}, codes |-> {}]]
    BY DEF chosen
  <1> HIDE DEF bases
  <1>8. \A i, j \in DOMAIN chosen : ids[i] = ids[j] => i = j
    <2>1. IsSequence(bases)
      BY <1>4, <1>5, FunctionIsSequence
    <2> QED
      BY <1>5, <1>6, <2>1, NumberedFacts
  <1>9. /\ DOMAIN rows = DOMAIN chosen /\ rows = [n \in DOMAIN chosen |-> rows[n]]
        /\ \A n \in DOMAIN chosen :
             rows[n] = [id |-> ids[n], name |-> chosen[n].name, module |-> chosen[n].module,
                        primary |-> t.actors[chosen[n].actor].id, secondary |-> {}, codes |-> {}]
    BY <1>7
  <1>10. IsSequence(rows)
    BY <1>4, <1>9, FunctionIsSequence
  <1>11. m.modules = t.modules /\ m.actors = t.actors /\ m.rows = rows /\ m.relations = <<>>
    OBVIOUS
  <1>12. IsTable(m)
    BY <1>2, <1>10, <1>11 DEF IsTable
  <1> HIDE DEF m
  <1>13. Distinct(rows)
    <2>1. \A n \in DOMAIN rows : rows[n].id = ids[n]
      BY <1>9
    <2> QED
      BY <1>8, <1>9, <2>1 DEF Distinct
  <1>14. ASSUME NEW n \in DOMAIN rows PROVE IsRow(rows[n]) /\ Placed(t.modules, t.actors, rows[n])
    <2> DEFINE c == chosen[n]
    <2>1. c.actor \in DOMAIN t.actors /\ c.module \in ToSet(t.modules)
      BY <1>3, <1>4, <1>9
    <2>2. rows[n] = [id |-> ids[n], name |-> c.name, module |-> c.module,
                     primary |-> t.actors[c.actor].id, secondary |-> {}, codes |-> {}]
      BY <1>9
    <2> HIDE DEF c
    <2>3. /\ rows[n].id = ids[n] /\ rows[n].name = c.name /\ rows[n].module = c.module
          /\ rows[n].primary = t.actors[c.actor].id /\ rows[n].secondary = {} /\ rows[n].codes = {}
      BY <2>2
    <2>4. IsRow(rows[n])
      BY <2>2, <2>3 DEF IsRow
    <2>5. Placed(t.modules, t.actors, rows[n])
      BY <2>1, <2>3 DEF Placed
    <2> QED
      BY <2>4, <2>5
  <1>15. Sound(m)
    BY <1>11, <1>12, <1>13, <1>14 DEF Sound
  <1> QED
    BY <1>15 DEF m

(* A shortlist is cut to the limit and filed under the next module.        *)
LEMMA ListedGrows ==
    ASSUME NEW t, Sound(t), NEW lists, Listed(t, lists), Len(lists) < Len(t.modules),
           NEW drafts \in Shortlists
    PROVE  Listed(t, Append(lists, SubSeq(drafts, 1, Min({Len(drafts), CandidateLimit(t)}))))
  <1> DEFINE n == Min({Len(drafts), CandidateLimit(t)})
             cut == SubSeq(drafts, 1, n)
             more == Append(lists, cut)
             X == ToSet(drafts)
             Z == ToSet(lists) \cup {cut}
  <1>1. /\ IsSequence(drafts) /\ Len(drafts) \in Nat /\ DOMAIN drafts = 1 .. Len(drafts)
        /\ IsSequence(lists) /\ Len(lists) \in Nat /\ DOMAIN lists = 1 .. Len(lists)
        /\ Len(t.modules) \in Nat
    BY TableConstants, SequenceFacts DEF Sound, IsTable, Listed
  <1>2. CandidateLimit(t) \in Int
    <2> DEFINE m == Max({1, Len(t.modules)})
               q == (2 * Budget + m - 1) \div m
    <2>1. CandidateLimit(t) = Max({ShortMin, Min({ShortMax, q})})
      BY DEF CandidateLimit
    <2>2. m \in Nat /\ m > 0
      BY <1>1, MaxTwo
    <2> HIDE DEF m
    <2>3. q \in Int
      BY <2>2, TableConstants
    <2> HIDE DEF q
    <2>4. ShortMin \in Int /\ ShortMax \in Int
      BY TableConstants
    <2>5. Min({ShortMax, q}) \in Int
      BY <2>3, <2>4, MinTwo
    <2> QED
      BY <2>1, <2>4, <2>5, MaxTwo
  <1>3. n \in Int /\ n <= Len(drafts)
    <2> DEFINE a == Len(drafts)
               b == CandidateLimit(t)
    <2>1. a \in Int /\ b \in Int
      BY <1>1, <1>2
    <2> HIDE DEF a, b
    <2>2. Min({a, b}) = IF a <= b THEN a ELSE b
      BY <2>1, MinTwo
    <2>3. n = Min({a, b})
      BY DEF a, b
    <2> HIDE DEF n
    <2> QED
      BY <2>1, <2>2, <2>3 DEF a
  <1> HIDE DEF n
  <1>4. \A i \in 1 .. n : i \in DOMAIN drafts /\ drafts[i] \in X
    BY <1>1, <1>3 DEF ToSet
  <1> HIDE DEF X
  <1>5. /\ cut \in Seq(X) /\ Len(cut) = IF 1 <= n THEN n - 1 + 1 ELSE 0
        /\ \A i \in 1 .. n - 1 + 1 : SubSeq(drafts, 1, n)[i] = drafts[1 + i - 1]
    BY <1>3, <1>4, SubSeqProperties
  <1> HIDE DEF cut
  <1>6. IsSequence(cut) /\ DOMAIN cut = 1 .. Len(cut) /\ Len(cut) \in Nat
    BY <1>5, ListType, SequenceFacts
  <1>7. \A k \in DOMAIN cut : k \in DOMAIN drafts /\ cut[k] = drafts[k]
    <2>1. ASSUME NEW k \in DOMAIN cut PROVE k \in DOMAIN drafts /\ cut[k] = drafts[k]
      <3>1. k \in 1 .. n /\ k \in 1 .. n - 1 + 1 /\ 1 + k - 1 = k
        BY <1>3, <1>5, <1>6
      <3> QED
        BY <1>4, <1>5, <3>1 DEF cut
    <2> QED
      BY <2>1
  <1>8. \A k \in DOMAIN cut : /\ cut[k].priority \in {"required", "recommended", "optional"}
                              /\ IsSequence(cut[k].refs)
    BY <1>7, TableConstants
  <1>9. lists \in Seq(Z) /\ cut \in Z
    <2>1. \A i \in DOMAIN lists : lists[i] \in Z
      BY DEF ToSet
    <2> HIDE DEF Z
    <2> QED
      BY <1>1, <2>1, MembersType DEF Z
  <1> HIDE DEF Z
  <1>10. /\ more \in Seq(Z) /\ Len(more) = Len(lists) + 1
         /\ \A i \in 1 .. Len(lists) : more[i] = lists[i]
         /\ more[Len(lists) + 1] = cut
    BY <1>9, AppendProperties
  <1> HIDE DEF more
  <1>11. IsSequence(more) /\ DOMAIN more = 1 .. Len(lists) + 1
    BY <1>10, ListType, SequenceFacts
  <1>12. \A i \in DOMAIN more : (i \in DOMAIN lists /\ more[i] = lists[i]) \/ more[i] = cut
    BY <1>1, <1>10, <1>11
  <1>13. Listed(t, more)
    BY <1>1, <1>6, <1>8, <1>10, <1>11, <1>12 DEF Listed
  <1> QED
    BY <1>13 DEF more, cut, n

-----------------------------------------------------------------------------
(* The table of both pipelines *)

(* The table is sound at every stage; candidates are listed per module;    *)
(* selection leaves no idle actor, the relationships link rows of the table.*)
TableInv ==
    /\ FloorInv
    /\ Sound(table)
    /\ stage = "stored" => shortlist = <<>>
    /\ stage = "groups" => Listed(table, shortlist)
    /\ stage \in {"selected", "related"} => IdleActors(table) = {}
    /\ stage = "related" => Linked(RowIds(table), table.relations)

LEMMA TableInvInit == Init => TableInv
  <1> SUFFICES ASSUME Init PROVE TableInv
    OBVIOUS
  <1>1. Sound(Empty)
    <2>1. /\ Empty.modules = <<>> /\ Empty.actors = <<>> /\ Empty.rows = <<>>
          /\ Empty.relations = <<>>
      BY DEF Empty
    <2>2. IsTable(Empty)
      BY <2>1, NoneIsSequence DEF IsTable, Empty
    <2>3. DOMAIN Empty.rows = {}
      BY <2>1
    <2> QED
      BY <2>2, <2>3 DEF Sound, Distinct
  <1>2. FloorInv
    BY FloorInvInit
  <1> QED
    BY <1>1, <1>2 DEF Init, TableInv

LEMMA TableInvNext == TableInv /\ [Next]_vars => TableInv'
  <1> SUFFICES ASSUME TableInv, [Next]_vars PROVE TableInv'
    OBVIOUS
  <1> USE DEF TableInv
  <1>1. FloorInv'
    BY FloorInvNext
  <1>2. CASE BuildFloor
    <2>1. Sound(floor)
      BY FloorFacts DEF FloorInv
    <2> QED
      BY <1>1, <1>2, <2>1 DEF BuildFloor, Sound
  <1>3. CASE EnrichBatch
    BY <1>1, <1>3 DEF EnrichBatch
  <1>4. CASE CompleteTable
    <2>1. Sound(floor) /\ floor = Floor(source) /\ Rebuilt(floor, enriched)
      BY <1>4, FloorFacts DEF FloorInv, CompleteTable
    <2>2. Sound(Merged(floor, enriched))
      BY <2>1, FloorFacts, MergedFacts DEF FloorInv
    <2>3. Sound(table')
      BY <1>4, <2>1, <2>2 DEF CompleteTable
    <2> QED
      BY <1>1, <1>4, <2>3 DEF CompleteTable
  <1>5. CASE GenerateGroups
    <2>1. PICK draft \in GroupDrafts : table' = Grouped(source, draft)
      BY <1>5 DEF GenerateGroups
    <2>2. Sound(table')
      BY <2>1, GroupedFacts DEF FloorInv
    <2>3. Listed(table', <<>>)
      <3>1. Len(<<>>) = 0 /\ Len(table'.modules) \in Nat
        BY <2>2, NoneIsSequence, SequenceFacts DEF Sound, IsTable
      <3> QED
        BY <3>1, NoneIsSequence DEF Listed
    <2> QED
      BY <1>1, <1>5, <2>2, <2>3 DEF GenerateGroups
  <1>6. CASE ProposeCandidates
    <2>1. PICK drafts \in Shortlists :
            shortlist' = Append(shortlist, SubSeq(drafts, 1, Min({Len(drafts), CandidateLimit(table)})))
      BY <1>6 DEF ProposeCandidates
    <2>2. Listed(table, shortlist')
      BY <1>6, <2>1, ListedGrows DEF ProposeCandidates
    <2> QED
      BY <1>1, <1>6, <2>2 DEF ProposeCandidates
  <1>7. CASE SelectRows
    <2> DEFINE chosen == Selected(table, shortlist)
               ids == Numbered([n \in DOMAIN chosen |-> chosen[n].module])
               rows == [n \in DOMAIN chosen |->
                          [id |-> ids[n], name |-> chosen[n].name, module |-> chosen[n].module,
                           primary |-> table.actors[chosen[n].actor].id,
                           secondary |-> {}, codes |-> {}]]
               m == [modules |-> table.modules, actors |-> table.actors, rows |-> rows,
                     relations |-> <<>>]
    <2>1. Listed(table, shortlist) /\ Sound(table)
      BY <1>7 DEF SelectRows
    <2>2. Sound(m)
      BY <2>1, SelectRowsFacts
    <2>3. table' = WithoutIdleActors(m) /\ stage' = "selected"
      <3>1. /\ table' = WithoutIdleActors([table EXCEPT !.rows = rows, !.relations = <<>>])
            /\ stage' = "selected"
        BY <1>7 DEF SelectRows, Mapped
      <3> HIDE DEF rows
      <3>2. PICK e : e = [table EXCEPT !.rows = rows, !.relations = <<>>]
        OBVIOUS
      <3>3. e = m
        BY <2>1, <3>2 DEF Sound, IsTable
      <3> QED
        BY <3>1, <3>2, <3>3
    <2> HIDE DEF m
    <2>4. Sound(table') /\ IdleActors(table') = {}
      BY <2>2, <2>3, WithoutIdleFacts
    <2> QED
      BY <1>1, <2>3, <2>4 DEF SelectRows
  <1>8. CASE Relate
    <2>1. PICK drafts \in LinkDrafts :
            table' = IF stage = "table" THEN WithoutIdleActors(Related(table, drafts))
                     ELSE Related(table, drafts)
      BY <1>8 DEF Relate
    <2> DEFINE r == Related(table, drafts)
    <2>2. /\ Sound(r) /\ r.rows = table.rows /\ r.actors = table.actors
          /\ Linked(RowIds(table), r.relations)
      BY TableConstants, RelatedFacts
    <2>3. stage' = "related"
      BY <1>8 DEF Relate
    <2> HIDE DEF r
    <2>4. CASE stage = "table"
      <3>1. table' = WithoutIdleActors(r)
        BY <2>1, <2>4 DEF r
      <3>2. /\ Sound(table') /\ IdleActors(table') = {}
            /\ table'.rows = table.rows /\ table'.relations = r.relations
        BY <2>2, <3>1, WithoutIdleFacts
      <3>3. Linked(RowIds(table'), table'.relations)
        BY <2>2, <3>2 DEF RowIds
      <3> QED
        BY <1>1, <2>3, <3>2, <3>3
    <2>5. CASE stage = "selected"
      <3>1. table' = r
        BY <2>1, <2>5 DEF r
      <3>2. IdleActors(r) = IdleActors(table)
        BY <2>2 DEF IdleActors, ActorIds
      <3>3. Linked(RowIds(r), r.relations)
        BY <2>2 DEF RowIds
      <3> QED
        BY <1>1, <2>2, <2>3, <2>5, <3>1, <3>2, <3>3
    <2> QED
      BY <1>8, <2>4, <2>5 DEF Relate
  <1>9. CASE RelateFails
    BY <1>1, <1>9 DEF RelateFails
  <1>10. CASE LayOut
    BY <1>1, <1>10 DEF LayOut
  <1>11. CASE UNCHANGED vars
    BY <1>1, <1>11 DEF vars
  <1> QED
    BY <1>2, <1>3, <1>4, <1>5, <1>6, <1>7, <1>8, <1>9, <1>10, <1>11 DEF Next

LEMMA TableInvariant == Spec => []TableInv
  BY TableInvInit, TableInvNext, PTL DEF Spec

(* After the relationships the validator finds nothing wrong with the      *)
(* table of either pipeline but emptiness or a cycle of includes: the      *)
(* stages leave no dangling end, no role held twice, no include that is    *)
(* not shared and no actor without a use case (rules.py).                  *)
THEOREM TableStaysSound == Spec => []TableIsSound
  <1>1. TableInv => TableIsSound
    BY LinkedIssues DEF TableInv, TableIsSound
  <1> QED
    BY <1>1, TableInvariant, PTL

-----------------------------------------------------------------------------
(* What the selection covers *)

LEMMA KeyFacts ==
    ASSUME NEW c, NEW d
    PROVE  /\ Key(c, "actor") = Key(d, "actor") <=> c.actor = d.actor
           /\ Key(c, "module") = Key(d, "module") <=> c.order = d.order
           /\ Key(c, "any") = Key(d, "any") <=> c.order = d.order /\ c.rank = d.rank
  <1>1. Key(c, "actor") = <<c.actor>> /\ Key(d, "actor") = <<d.actor>>
    BY DEF Key
  <1>2. Key(c, "module") = <<c.order>> /\ Key(d, "module") = <<d.order>>
    BY DEF Key
  <1>3. Key(c, "any") = <<c.order, c.rank>> /\ Key(d, "any") = <<d.order, d.rank>>
    BY DEF Key
  <1>4. \A x, y : <<x>> = <<y>> <=> x = y
    OBVIOUS
  <1>5. \A x, y, z, w : <<x, y>> = <<z, w>> <=> x = z /\ y = w
    OBVIOUS
  <1> QED
    BY <1>1, <1>2, <1>3, <1>4, <1>5

(* Actors come before modules, and modules before the best of the rest.    *)
LEMMA PassesFacts ==
    ASSUME NEW pool, IsFiniteSet(pool), Ranked(pool), NEW A, NEW B, NEW C, Passes(pool, A, B, C)
    PROVE  /\ C \in SUBSET pool /\ Cardinality(C) \in Nat /\ Cardinality(pool) \in Nat
           /\ Cardinality(C) <= Budget /\ Cardinality(C) <= Cardinality(pool)
           /\ Cardinality(C) = Budget \/ C = pool
           /\ (\E c \in pool : \A d \in C : d.actor # c.actor) =>
                \A c, d \in C : c.actor = d.actor => c = d
           /\ (\E c \in pool : \A d \in C : d.order # c.order) =>
                \A c, d \in C : c.actor = d.actor /\ c.order = d.order => c = d
           /\ \A c \in pool \ C, d \in C : Score(c) > Score(d) =>
                \/ \A x \in pool : x.actor = d.actor => Score(x) <= Score(d)
                \/ \A x \in pool : x.order = d.order => Score(x) <= Score(d)
  <1>1. /\ A \in SUBSET B /\ B \in SUBSET C /\ C \in SUBSET pool
        /\ Cardinality(A) <= Budget /\ Cardinality(B) <= Budget /\ Cardinality(C) <= Budget
    BY DEF Passes, Filled, Taken
  <1>2. /\ IsFiniteSet(C) /\ Cardinality(C) \in Nat
        /\ Cardinality(pool) \in Nat /\ Cardinality(C) <= Cardinality(pool)
    BY <1>1, FS_Subset, FS_CardinalityType
  <1>3. \A S \in SUBSET C : Cardinality(S) = Budget => S = C
    <2> SUFFICES ASSUME NEW S \in SUBSET C, Cardinality(S) = Budget PROVE S = C
      OBVIOUS
    <2>1. IsFiniteSet(S) /\ Cardinality(S) <= Cardinality(C)
          /\ (Cardinality(S) = Cardinality(C) => S = C)
      BY <1>2, FS_Subset
    <2> QED
      BY <1>1, <1>2, <2>1, TableConstants
  <1>4. \A c \in pool : Score(c) \in Nat
    BY DEF Ranked
  <1>5. \A c, d \in A : c.actor = d.actor => c = d
    BY KeyFacts DEF Passes, Filled, Taken
  <1>6. \A c \in B \ A, d \in B : c.order = d.order => c = d
    BY KeyFacts DEF Passes, Filled, Taken
  <1>7. Cardinality(A) = Budget \/ \A c \in pool : \E d \in A : d.actor = c.actor
    BY KeyFacts DEF Passes, Filled
  <1>8. Cardinality(B) = Budget \/ \A c \in pool : \E d \in B : d.order = c.order
    BY KeyFacts DEF Passes, Filled
  <1>9. Cardinality(C) = Budget \/ C = pool
    <2>1. SUFFICES ASSUME \A c \in pool : \E d \in C : Key(d, "any") = Key(c, "any")
                   PROVE  C = pool
      BY DEF Passes, Filled
    <2>2. ASSUME NEW c \in pool PROVE c \in C
      <3>1. PICK d \in C : Key(d, "any") = Key(c, "any")
        BY <2>1
      <3>2. d.order = c.order /\ d.rank = c.rank
        BY <3>1, KeyFacts
      <3> QED
        BY <1>1, <3>2 DEF Ranked
    <2> QED
      BY <1>1, <2>2
  <1>10. ASSUME NEW c \in pool, \A d \in C : d.actor # c.actor
         PROVE  \A x, y \in C : x.actor = y.actor => x = y
    <2>1. A = C
      BY <1>1, <1>3, <1>7, <1>10
    <2> QED
      BY <1>5, <2>1
  <1>11. ASSUME NEW c \in pool, \A d \in C : d.order # c.order
         PROVE  \A x, y \in C : x.actor = y.actor /\ x.order = y.order => x = y
    <2>1. B = C
      BY <1>1, <1>3, <1>8, <1>11
    <2> QED
      BY <1>5, <1>6, <2>1
  <1>12. ASSUME NEW c \in pool \ C, NEW d \in C, Score(c) > Score(d)
         PROVE  \/ \A x \in pool : x.actor = d.actor => Score(x) <= Score(d)
                \/ \A x \in pool : x.order = d.order => Score(x) <= Score(d)
    <2>1. d \in B
      <3>1. ASSUME d \notin B PROVE FALSE
        <4>1. Better(c, d)
          BY <1>12 DEF Better
        <4>2. PICK e \in C \ {d} : Key(e, "any") = Key(c, "any")
          BY <3>1, <4>1 DEF Passes, Filled, Taken
        <4>3. e.order = c.order /\ e.rank = c.rank
          BY <4>2, KeyFacts
        <4> QED
          BY <1>1, <1>12, <4>3 DEF Ranked
      <3> QED
        BY <3>1
    <2>2. ASSUME d \in A, NEW x \in pool, x.actor = d.actor, ~ Score(x) <= Score(d) PROVE FALSE
      <3>1. Better(x, d)
        <4>1. Score(x) > Score(d)
          BY <1>1, <1>4, <2>2
        <4> QED
          BY <4>1 DEF Better
      <3>2. PICK e \in A \ {d} : Key(e, "actor") = Key(x, "actor")
        BY <2>2, <3>1 DEF Passes, Filled, Taken
      <3>3. e.actor = d.actor
        BY <2>2, <3>2, KeyFacts
      <3> QED
        BY <1>5, <2>2, <3>3
    <2>3. ASSUME d \in B \ A, NEW x \in pool, x.order = d.order, ~ Score(x) <= Score(d) PROVE FALSE
      <3>1. Better(x, d)
        <4>1. Score(x) > Score(d)
          BY <1>1, <1>4, <2>3
        <4> QED
          BY <4>1 DEF Better
      <3>2. PICK e \in B \ {d} : Key(e, "module") = Key(x, "module")
        BY <2>3, <3>1 DEF Passes, Filled, Taken
      <3>3. e.order = d.order
        BY <2>3, <3>2, KeyFacts
      <3> QED
        BY <1>6, <2>3, <3>3
    <2> QED
      BY <2>1, <2>2, <2>3
  <1> QED
    BY <1>1, <1>2, <1>9, <1>10, <1>11, <1>12

(* What SelectRows does: it lists the candidates the passes leave, and its *)
(* table has a row for each.                                               *)
LEMMA SelectRowsStep ==
    ASSUME TableInv, SelectRows
    PROVE  /\ stage = "groups" /\ Listed(table, shortlist)
           /\ \E A, B, C : /\ Passes(Filtered(table, shortlist), A, B, C)
                           /\ ToSet(enriched') = C /\ Len(table'.rows) = Cardinality(C)
  <1> DEFINE chosen == Selected(table, shortlist)
             pool == Filtered(table, shortlist)
             ids == Numbered([n \in DOMAIN chosen |-> chosen[n].module])
             rows == [n \in DOMAIN chosen |->
                        [id |-> ids[n], name |-> chosen[n].name, module |-> chosen[n].module,
                         primary |-> table.actors[chosen[n].actor].id,
                         secondary |-> {}, codes |-> {}]]
             m == [modules |-> table.modules, actors |-> table.actors, rows |-> rows,
                   relations |-> <<>>]
  <1>1. Listed(table, shortlist) /\ Sound(table) /\ stage = "groups" /\ enriched' = chosen
    BY DEF SelectRows, TableInv
  <1>2. Sound(m)
    BY <1>1, SelectRowsFacts
  <1>3. table' = WithoutIdleActors(m)
    <2>1. table' = WithoutIdleActors([table EXCEPT !.rows = rows, !.relations = <<>>])
      BY DEF SelectRows, Mapped
    <2> HIDE DEF rows
    <2>2. PICK e : e = [table EXCEPT !.rows = rows, !.relations = <<>>]
      OBVIOUS
    <2>3. e = m
      BY <1>1, <2>2 DEF Sound, IsTable
    <2> QED
      BY <2>1, <2>2, <2>3
  <1>4. m.rows = rows
    OBVIOUS
  <1> HIDE DEF m
  <1>5. table'.rows = rows
    BY <1>2, <1>3, <1>4, WithoutIdleFacts
  <1>6. PICK A, B, C : Passes(pool, A, B, C) /\ Lists(chosen, C)
    BY <1>1, SelectedFacts
  <1>7. DOMAIN rows = DOMAIN chosen /\ rows = [n \in DOMAIN chosen |-> rows[n]]
    OBVIOUS
  <1> HIDE DEF rows, chosen, pool
  <1>8. /\ IsSequence(chosen) /\ Cardinality(C) \in Nat /\ DOMAIN chosen = 1 .. Cardinality(C)
        /\ \A n \in DOMAIN chosen : chosen[n] \in C
        /\ \A x \in C : \E n \in DOMAIN chosen : chosen[n] = x
    BY <1>6 DEF Lists
  <1>9. Len(rows) = Cardinality(C)
    BY <1>7, <1>8, SequenceOf
  <1>10. ToSet(chosen) = C
    BY <1>8 DEF ToSet
  <1>11. Passes(Filtered(table, shortlist), A, B, C)
    BY <1>6 DEF pool
  <1> QED
    BY <1>1, <1>5, <1>9, <1>10, <1>11

(* The selection uses up its budget as far as names allow, leaves no actor *)
(* out for the second row of another and no module for a second row of     *)
(* both its actor and its module, and passes a better candidate over only  *)
(* for the best of an actor or of a module (_select_candidates).           *)
THEOREM SelectionAlwaysCovers == Spec => SelectionCovers
  <1> DEFINE pool == Filtered(table, shortlist)
             names == {c.name : c \in pool}
             chosen == ToSet(enriched')
             best(d, S) == \A x \in S : Score(x) <= Score(d)
             ofActor(c) == {x \in pool : x.actor = c.actor}
             ofModule(c) == {x \in pool : x.order = c.order}
             Covered ==
               /\ Len(table'.rows) = Min({Budget, Cardinality(names)})
               /\ Cardinality({c.name : c \in chosen}) = Len(table'.rows)
               /\ {c.actor : c \in chosen} # {c.actor : c \in pool} =>
                    \A c, d \in chosen : c.actor = d.actor => c = d
               /\ {c.order : c \in chosen} # {c.order : c \in pool} =>
                    \A c, d \in chosen : c.actor = d.actor /\ c.order = d.order => c = d
               /\ \A c \in pool \ chosen, d \in chosen :
                    Score(c) > Score(d) => best(d, ofActor(d)) \/ best(d, ofModule(d))
  <1>1. ASSUME TableInv, SelectRows PROVE Covered
    <2>1. /\ Listed(table, shortlist)
          /\ \E A, B, C : Passes(pool, A, B, C) /\ chosen = C /\ Len(table'.rows) = Cardinality(C)
      BY <1>1, SelectRowsStep
    <2>2. PICK A, B, C : Passes(pool, A, B, C) /\ chosen = C /\ Len(table'.rows) = Cardinality(C)
      BY <2>1
    <2>3. /\ IsFiniteSet(pool) /\ Ranked(pool)
          /\ \A c, d \in pool : c.name = d.name => c = d
      BY <2>1, FilteredFacts
    <2> HIDE DEF pool, chosen
    <2>4. /\ C \in SUBSET pool /\ Cardinality(C) \in Nat /\ Cardinality(pool) \in Nat
          /\ Cardinality(C) <= Budget /\ Cardinality(C) <= Cardinality(pool)
          /\ Cardinality(C) = Budget \/ C = pool
      BY <2>2, <2>3, PassesFacts
    <2>5. /\ (\E c \in pool : \A d \in C : d.actor # c.actor) =>
               \A c, d \in C : c.actor = d.actor => c = d
          /\ (\E c \in pool : \A d \in C : d.order # c.order) =>
               \A c, d \in C : c.actor = d.actor /\ c.order = d.order => c = d
      BY <2>2, <2>3, PassesFacts
    <2>6. \A c \in pool \ C, d \in C : Score(c) > Score(d) =>
            \/ \A x \in pool : x.actor = d.actor => Score(x) <= Score(d)
            \/ \A x \in pool : x.order = d.order => Score(x) <= Score(d)
      BY <2>2, <2>3, PassesFacts
    <2>7. Cardinality(names) = Cardinality(pool)
      <3> DEFINE f == [c \in pool |-> c.name]
      <3>1. /\ names = {f[c] : c \in pool}
            /\ \A c, d \in pool : f[c] = f[d] => c = d
        BY <2>3
      <3> HIDE DEF f, names
      <3> QED
        BY <2>3, <3>1, ImageFacts
    <2>8. Cardinality({c.name : c \in C}) = Cardinality(C)
      <3> DEFINE f == [c \in C |-> c.name]
                 S == {c.name : c \in C}
      <3>1. /\ S = {f[c] : c \in C}
            /\ \A c, d \in C : f[c] = f[d] => c = d
        BY <2>3, <2>4
      <3>2. IsFiniteSet(C)
        BY <2>3, <2>4, FS_Subset
      <3> HIDE DEF f, S
      <3>3. Cardinality(S) = Cardinality(C)
        BY <3>1, <3>2, ImageFacts
      <3> QED
        BY <3>3 DEF S
    <2> HIDE DEF names
    <2>9. Cardinality(C) = Min({Budget, Cardinality(names)})
      <3>1. Budget \in Int /\ Cardinality(names) \in Int
        BY <2>4, <2>7, TableConstants
      <3>2. Min({Budget, Cardinality(names)})
              = IF Budget <= Cardinality(names) THEN Budget ELSE Cardinality(names)
        BY <3>1, MinTwo
      <3> QED
        BY <2>4, <2>7, <3>1, <3>2
    <2>10. {c.actor : c \in C} # {c.actor : c \in pool} => \E c \in pool : \A d \in C : d.actor # c.actor
      BY <2>4
    <2>11. {c.order : c \in C} # {c.order : c \in pool} => \E c \in pool : \A d \in C : d.order # c.order
      BY <2>4
    <2>12. \A c \in pool \ C, d \in C :
             Score(c) > Score(d) => best(d, ofActor(d)) \/ best(d, ofModule(d))
      BY <2>6
    <2> QED
      BY <2>2, <2>5, <2>8, <2>9, <2>10, <2>11, <2>12
  <1>2. TableInv /\ [Next]_vars => (stage = "groups" /\ stage' = "selected" => Covered)
    <2> SUFFICES ASSUME TableInv, [Next]_vars, stage = "groups", stage' = "selected"
                 PROVE  SelectRows
      BY <1>1
    <2> QED
      BY DEF Next, vars, BuildFloor, EnrichBatch, CompleteTable, GenerateGroups,
             ProposeCandidates, Relate, RelateFails, LayOut
  <1>3. [][stage = "groups" /\ stage' = "selected" => Covered]_vars => SelectionCovers
    BY DEF SelectionCovers
  <1> HIDE DEF Covered
  <1> QED
    BY <1>2, <1>3, TableInvariant, PTL DEF Spec

-----------------------------------------------------------------------------
(* The two columns of actors *)

(* There are finitely many lines to the actors of a set, and those to one  *)
(* more actor add up.                                                      *)
LEMMA DrawnFinite ==
    ASSUME NEW t, IsSequence(t.rows), NEW A, IsFiniteSet(A)
    PROVE  IsFiniteSet(Drawn(t, A)) /\ Cardinality(Drawn(t, A)) \in Nat
  <1> DEFINE X == DOMAIN t.rows
             Y == {"primary", "secondary"}
             P == (X \X Y) \X A
             f == [p \in P |-> <<p[1][1], p[1][2], p[2]>>]
             T == {f[p] : p \in P}
  <1>1. IsFiniteSet(X)
    BY SequenceFinite
  <1>2. IsFiniteSet(Y)
    <2>1. IsFiniteSet({"primary"}) /\ Y = {"primary"} \cup {"secondary"}
      BY FS_Singleton
    <2> HIDE DEF Y
    <2> QED
      BY <2>1, FS_AddElement
  <1> HIDE DEF X, Y
  <1>3. IsFiniteSet(P)
    <2>1. IsFiniteSet(X \X Y)
      BY <1>1, <1>2, FS_Product
    <2> DEFINE Q == X \X Y
    <2> HIDE DEF Q
    <2>2. IsFiniteSet(Q \X A)
      BY <2>1, FS_Product DEF Q
    <2> QED
      BY <2>2 DEF Q
  <1>4. IsFiniteSet(T)
    <2> HIDE DEF f, P
    <2> QED
      BY <1>3, ImageFacts
  <1>5. X \X Y \X A \subseteq T
    <2>1. ASSUME NEW x \in X, NEW y \in Y, NEW a \in A PROVE <<x, y, a>> \in T
      <3>1. <<<<x, y>>, a>> \in P
        OBVIOUS
      <3>2. f[<<<<x, y>>, a>>] = <<x, y, a>>
        BY <3>1
      <3> HIDE DEF f, P
      <3> QED
        BY <3>1, <3>2
    <2> HIDE DEF T
    <2> QED
      BY <2>1
  <1>6. Drawn(t, A) \in SUBSET (X \X Y \X A)
    BY DEF Drawn, X, Y
  <1> HIDE DEF T
  <1>7. Drawn(t, A) \in SUBSET T
    BY <1>5, <1>6
  <1> QED
    BY <1>4, <1>7, FS_Subset, FS_CardinalityType

LEMMA DrawnAdds ==
    ASSUME NEW t, IsSequence(t.rows), NEW A, IsFiniteSet(A), NEW a, a \notin A
    PROVE  Cardinality(Drawn(t, A \cup {a})) = Cardinality(Drawn(t, A)) + Weight(t, a)
  <1> DEFINE X == DOMAIN t.rows
             Y == {"primary", "secondary"}
             drawn(x, y, b) == IF y = "primary" THEN t.rows[x].primary = b ELSE b \in t.rows[x].secondary
             S == Drawn(t, A)
             T == Drawn(t, {a})
  <1>1. IsFiniteSet(S) /\ IsFiniteSet(T)
    <2>1. IsFiniteSet({a})
      BY FS_Singleton
    <2> QED
      BY <2>1, DrawnFinite
  <1>2. \A B : Drawn(t, B) = {l \in X \X Y \X B : drawn(l[1], l[2], l[3])}
    BY DEF Drawn
  <1> HIDE DEF drawn
  <1>3. Drawn(t, A \cup {a}) = S \cup T
    <2> DEFINE pick(B) == {l \in X \X Y \X B : drawn(l[1], l[2], l[3])}
    <2>1. pick(A \cup {a}) = pick(A) \cup pick({a})
      <3> HIDE DEF X, Y
      <3> QED
        OBVIOUS
    <2> QED
      BY <1>2, <2>1
  <1>4. S \cap T = {}
    <2>1. \A l \in S : l[3] \in A
      BY <1>2
    <2>2. \A l \in T : l[3] = a
      BY <1>2
    <2> HIDE DEF S, T
    <2> QED
      BY <2>1, <2>2
  <1> HIDE DEF S, T
  <1>5. /\ Cardinality(S \cup T) = Cardinality(S) + Cardinality(T) - Cardinality(S \cap T)
        /\ Cardinality(S) \in Nat /\ Cardinality(T) \in Nat
    BY <1>1, FS_Union, FS_CardinalityType
  <1>6. Cardinality(S \cap T) = 0
    BY <1>4, FS_EmptySet
  <1>7. Cardinality(S \cup T) = Cardinality(S) + Cardinality(T)
    BY <1>5, <1>6
  <1> QED
    BY <1>3, <1>7 DEF Weight, S, T

(* Actors of the table, each on its side.                                  *)
Sided(t) == UNION {[D -> {"left", "right"}] : D \in SUBSET ActorIds(t)}
Other(s) == IF s = "left" THEN "right" ELSE "left"

LEMMA SideWeightFacts ==
    ASSUME NEW t, Sound(t)
    PROVE  /\ IsSequence(t.rows) /\ IsFiniteSet(ActorIds(t))
           /\ \A A \in SUBSET ActorIds(t) :
                IsFiniteSet(A) /\ IsFiniteSet(Drawn(t, A)) /\ Cardinality(Drawn(t, A)) \in Nat
           /\ \A a : Weight(t, a) \in Nat
           /\ \A side \in Sided(t) : \A s : SideWeight(t, side, s) \in Nat
  <1>1. IsSequence(t.rows) /\ IsSequence(t.actors)
    BY DEF Sound, IsTable
  <1>2. IsFiniteSet(ActorIds(t))
    <2> DEFINE f == [i \in DOMAIN t.actors |-> t.actors[i].id]
    <2>1. ActorIds(t) = {f[i] : i \in DOMAIN t.actors}
      BY DEF ActorIds
    <2>2. IsFiniteSet(DOMAIN t.actors)
      BY <1>1, SequenceFinite
    <2> HIDE DEF f
    <2> QED
      BY <2>1, <2>2, ImageFacts
  <1>3. ASSUME NEW A \in SUBSET ActorIds(t)
        PROVE  IsFiniteSet(A) /\ IsFiniteSet(Drawn(t, A)) /\ Cardinality(Drawn(t, A)) \in Nat
    <2>1. IsFiniteSet(A)
      BY <1>2, FS_Subset
    <2> QED
      BY <1>1, <2>1, DrawnFinite
  <1>4. ASSUME NEW a PROVE Weight(t, a) \in Nat
    <2>1. IsFiniteSet({a})
      BY FS_Singleton
    <2> QED
      BY <1>1, <2>1, DrawnFinite DEF Weight
  <1>5. ASSUME NEW side \in Sided(t), NEW s PROVE SideWeight(t, side, s) \in Nat
    <2>1. {a \in DOMAIN side : side[a] = s} \in SUBSET ActorIds(t)
      BY DEF Sided
    <2> QED
      BY <1>3, <2>1 DEF SideWeight
  <1> QED
    BY <1>1, <1>2, <1>3, <1>4, <1>5

(* An actor that is put on a side adds its weight to that side.            *)
LEMMA PutFacts ==
    ASSUME NEW t, Sound(t), NEW side \in Sided(t), NEW a \in ActorIds(t), a \notin DOMAIN side,
           NEW s \in {"left", "right"}
    PROVE  /\ Put(side, a, s) \in Sided(t) /\ DOMAIN Put(side, a, s) = DOMAIN side \cup {a}
           /\ SideWeight(t, Put(side, a, s), s) = SideWeight(t, side, s) + Weight(t, a)
           /\ SideWeight(t, Put(side, a, s), Other(s)) = SideWeight(t, side, Other(s))
  <1> DEFINE new == [x \in DOMAIN side \cup {a} |-> IF x = a THEN s ELSE side[x]]
             on(f, r) == {x \in DOMAIN f : f[x] = r}
  <1>1. Put(side, a, s) = new
    BY DEF Put
  <1>2. PICK D \in SUBSET ActorIds(t) : side \in [D -> {"left", "right"}]
    BY DEF Sided
  <1>3. DOMAIN side = D
    BY <1>2
  <1>4. new \in [D \cup {a} -> {"left", "right"}] /\ D \cup {a} \in SUBSET ActorIds(t)
    BY <1>2, <1>3
  <1>5. new \in Sided(t)
    <2> HIDE DEF new
    <2> QED
      BY <1>4 DEF Sided
  <1>6. s # Other(s)
    BY DEF Other
  <1>7. on(new, s) = on(side, s) \cup {a} /\ a \notin on(side, s)
    OBVIOUS
  <1>8. on(new, Other(s)) = on(side, Other(s))
    BY <1>6
  <1>9. DOMAIN new = DOMAIN side \cup {a}
    OBVIOUS
  <1> HIDE DEF new
  <1>10. on(side, s) \in SUBSET ActorIds(t)
    BY <1>2, <1>3
  <1>11. \A f, r : SideWeight(t, f, r) = Cardinality(Drawn(t, on(f, r)))
    BY DEF SideWeight
  <1> HIDE DEF on
  <1>12. IsFiniteSet(on(side, s)) /\ IsSequence(t.rows)
    BY <1>10, SideWeightFacts
  <1>13. Cardinality(Drawn(t, on(side, s) \cup {a})) = Cardinality(Drawn(t, on(side, s))) + Weight(t, a)
    BY <1>7, <1>12, DrawnAdds
  <1>14. SideWeight(t, new, s) = SideWeight(t, side, s) + Weight(t, a)
    BY <1>7, <1>11, <1>13
  <1>15. SideWeight(t, new, Other(s)) = SideWeight(t, side, Other(s))
    BY <1>8, <1>11
  <1> QED
    BY <1>1, <1>5, <1>9, <1>14, <1>15

(* How far the two sides are apart.                                        *)
SideGap(t, side) ==
    Max({SideWeight(t, side, "left") - SideWeight(t, side, "right"),
         SideWeight(t, side, "right") - SideWeight(t, side, "left")})

LEMMA SideGapFacts ==
    ASSUME NEW t, Sound(t), NEW side \in Sided(t)
    PROVE  /\ SideGap(t, side) \in Nat
           /\ SideWeight(t, side, "left") <= SideWeight(t, side, "right") =>
                SideGap(t, side) = SideWeight(t, side, "right") - SideWeight(t, side, "left")
           /\ ~ (SideWeight(t, side, "left") <= SideWeight(t, side, "right")) =>
                SideGap(t, side) = SideWeight(t, side, "left") - SideWeight(t, side, "right")
  <1> DEFINE l == SideWeight(t, side, "left")
             r == SideWeight(t, side, "right")
  <1>1. l \in Nat /\ r \in Nat
    BY SideWeightFacts
  <1>2. SideGap(t, side) = Max({l - r, r - l})
    BY DEF SideGap
  <1> HIDE DEF l, r
  <1>3. l - r \in Int /\ r - l \in Int
    BY <1>1
  <1>4. Max({l - r, r - l}) = IF l - r <= r - l THEN r - l ELSE l - r
    BY <1>3, MaxTwo
  <1>5. /\ SideGap(t, side) \in Nat
        /\ l <= r => SideGap(t, side) = r - l
        /\ ~ (l <= r) => SideGap(t, side) = l - r
    BY <1>1, <1>2, <1>4
  <1> QED
    BY <1>5 DEF l, r

(* The actors of F are placed: the sides differ by no more than one of     *)
(* them weighs, or by what the dragged actors left before them.            *)
Balanced(t, pinned, side, F) ==
    /\ side \in Sided(t) /\ DOMAIN side = DOMAIN pinned \cup F
    /\ \/ SideGap(t, side) + Cardinality(Drawn(t, F)) <= SideGap(t, pinned)
       \/ \E a \in F : SideGap(t, side) <= Weight(t, a)

(* One more actor on the lighter side.                                     *)
LEMMA BalanceStep ==
    ASSUME NEW t, Sound(t), NEW pinned \in Sided(t), NEW side, NEW F \in SUBSET ActorIds(t),
           Balanced(t, pinned, side, F), NEW a \in ActorIds(t), a \notin DOMAIN side
    PROVE  Balanced(t, pinned, Put(side, a, Lighter(t, pinned, side)), F \cup {a})
  <1> DEFINE s == Lighter(t, pinned, side)
             new == Put(side, a, s)
             l == SideWeight(t, side, "left")
             r == SideWeight(t, side, "right")
             ln == SideWeight(t, new, "left")
             rn == SideWeight(t, new, "right")
             w == Weight(t, a)
             g == SideGap(t, side)
             n == SideGap(t, new)
  <1>1. side \in Sided(t) /\ DOMAIN side = DOMAIN pinned \cup F
    BY DEF Balanced
  <1>2. s = IF l <= r THEN "left" ELSE "right"
    BY DEF Lighter
  <1>3. s \in {"left", "right"} /\ Other("left") = "right" /\ Other("right") = "left"
    BY <1>2 DEF Other
  <1> HIDE DEF s
  <1>4. /\ new \in Sided(t) /\ DOMAIN new = DOMAIN side \cup {a}
        /\ SideWeight(t, new, s) = SideWeight(t, side, s) + w
        /\ SideWeight(t, new, Other(s)) = SideWeight(t, side, Other(s))
    BY <1>1, <1>3, PutFacts, ZenonT(40)
  <1> HIDE DEF new
  <1>5. l \in Nat /\ r \in Nat /\ w \in Nat
    BY <1>1, SideWeightFacts
  <1>6. /\ g \in Nat /\ (l <= r => g = r - l) /\ (~ (l <= r) => g = l - r)
    BY <1>1, SideGapFacts
  <1>7. /\ n \in Nat /\ (ln <= rn => n = rn - ln) /\ (~ (ln <= rn) => n = ln - rn)
    BY <1>4, SideGapFacts
  <1>8. IF l <= r THEN ln = l + w /\ rn = r ELSE rn = r + w /\ ln = l
    <2>1. CASE l <= r
      <3>1. s = "left"
        BY <1>2, <2>1
      <3> QED
        BY <1>3, <1>4, <2>1, <3>1
    <2>2. CASE ~ (l <= r)
      <3>1. s = "right"
        BY <1>2, <2>2
      <3> QED
        BY <1>3, <1>4, <2>2, <3>1
    <2> QED
      BY <2>1, <2>2
  <1> HIDE DEF l, r, ln, rn
  <1>9. n <= w \/ n + w = g
    BY <1>5, <1>6, <1>7, <1>8
  <1>10. a \notin F /\ IsFiniteSet(F) /\ IsSequence(t.rows) /\ Cardinality(Drawn(t, F)) \in Nat
    BY <1>1, SideWeightFacts
  <1>11. Cardinality(Drawn(t, F \cup {a})) = Cardinality(Drawn(t, F)) + w
    BY <1>10, DrawnAdds
  <1>12. SideGap(t, pinned) \in Nat
    BY SideGapFacts
  <1> HIDE DEF g, w, n
  <1>13. \/ g + Cardinality(Drawn(t, F)) <= SideGap(t, pinned)
         \/ \E b \in F : g <= Weight(t, b)
    BY DEF Balanced, g
  <1>14. \/ n + Cardinality(Drawn(t, F \cup {a})) <= SideGap(t, pinned)
         \/ \E b \in F \cup {a} : n <= Weight(t, b)
    <2>1. CASE n <= w
      BY <2>1 DEF w
    <2>2. CASE n + w = g /\ g + Cardinality(Drawn(t, F)) <= SideGap(t, pinned)
      <3>1. n + (Cardinality(Drawn(t, F)) + w) <= SideGap(t, pinned)
        BY <1>5, <1>7, <1>10, <1>12, <2>2
      <3> QED
        BY <1>11, <3>1
    <2>3. ASSUME n + w = g, NEW b \in F, g <= Weight(t, b) PROVE n <= Weight(t, b)
      <3>1. Weight(t, b) \in Nat
        BY SideWeightFacts
      <3> QED
        BY <1>5, <1>7, <2>3, <3>1
    <2> QED
      BY <1>9, <1>13, <2>1, <2>2, <2>3
  <1> QED
    BY <1>1, <1>4, <1>14 DEF Balanced, new, s, n

LEMMA HeaviestFacts ==
    ASSUME NEW t, Sound(t), NEW A \in SUBSET ActorIds(t), A # {}
    PROVE  Heaviest(t, A) \in A
  <1> DEFINE f == [a \in A |-> Weight(t, a)]
             T == {f[a] : a \in A}
  <1>1. IsFiniteSet(A) /\ \A a \in A : Weight(t, a) \in Nat
    BY SideWeightFacts
  <1>2. T \in SUBSET Int /\ T # {}
    BY <1>1
  <1>3. IsFiniteSet(T)
    <2> HIDE DEF f
    <2> QED
      BY <1>1, ImageFacts
  <1>4. Max(T) \in T /\ \A x \in T : x <= Max(T)
    <2> HIDE DEF T
    <2> QED
      BY <1>2, <1>3, MaxOf
  <1>5. PICK m \in A : Max(T) = Weight(t, m)
    BY <1>4
  <1>6. \A b \in A : Weight(t, b) <= Weight(t, m)
    BY <1>4, <1>5
  <1> QED
    BY <1>6 DEF Heaviest

(* All actors are placed, and the columns are balanced.                    *)
LEMMA ActorSidesFacts ==
    ASSUME NEW t, Sound(t), NEW pinned \in Sided(t)
    PROVE  Balanced(t, pinned, ActorSides(t, pinned), ActorIds(t) \ DOMAIN pinned)
  <1> DEFINE free == ActorIds(t) \ DOMAIN pinned
             N == Cardinality(free)
             next(side) == Put(side, Heaviest(t, free \ DOMAIN side), Lighter(t, pinned, side))
             Placing(f) == f = [n \in 0 .. N |-> IF n = 0 THEN pinned ELSE next(f[n - 1])]
             g == CHOOSE f : Placing(f)
             V == Sided(t)
             to(side) == IF free \ DOMAIN side # {} THEN next(side) ELSE side
             step == [p \in Nat \X V |-> to(p[2])]
             F(side) == DOMAIN side \ DOMAIN pinned
             Fit(side, n) == /\ F(side) \in SUBSET free /\ Cardinality(F(side)) = n
                             /\ Balanced(t, pinned, side, F(side))
  <1>1. ActorSides(t, pinned) = g[N]
    BY DEF ActorSides
  <1>2. IsFiniteSet(free) /\ N \in Nat
    <2>1. free \in SUBSET ActorIds(t) /\ IsFiniteSet(ActorIds(t))
      BY SideWeightFacts
    <2> HIDE DEF free
    <2> QED
      BY <2>1, FS_Subset, FS_CardinalityType
  <1>3. \A side \in V : DOMAIN side \subseteq ActorIds(t)
    BY DEF Sided
  <1>4. ASSUME NEW side \in V, free \ DOMAIN side # {}
        PROVE  Heaviest(t, free \ DOMAIN side) \in free \ DOMAIN side
    <2> DEFINE A == free \ DOMAIN side
    <2>1. A \in SUBSET ActorIds(t) /\ A # {}
      BY <1>4
    <2> HIDE DEF A
    <2>2. Heaviest(t, A) \in A
      BY <2>1, HeaviestFacts
    <2> QED
      BY <2>2 DEF A
  <1>5. \A side : Lighter(t, pinned, side) \in {"left", "right"}
    BY DEF Lighter
  <1>6. ASSUME NEW side \in V, free \ DOMAIN side # {}
        PROVE  next(side) \in V /\ DOMAIN next(side) = DOMAIN side \cup {Heaviest(t, free \ DOMAIN side)}
    <2> DEFINE a == Heaviest(t, free \ DOMAIN side)
               s == Lighter(t, pinned, side)
    <2>1. a \in ActorIds(t) /\ a \notin DOMAIN side /\ s \in {"left", "right"}
      BY <1>4, <1>5, <1>6
    <2> HIDE DEF a, s
    <2>2. Put(side, a, s) \in Sided(t) /\ DOMAIN Put(side, a, s) = DOMAIN side \cup {a}
      BY <2>1, PutFacts
    <2> QED
      BY <2>2 DEF a, s
  <1>7. ASSUME NEW side \in V, NEW n \in Nat, Fit(side, n), free \ DOMAIN side # {}
        PROVE  Fit(next(side), n + 1)
    <2> DEFINE a == Heaviest(t, free \ DOMAIN side)
               new == next(side)
    <2>1. a \in free /\ a \notin DOMAIN side
      BY <1>4, <1>7
    <2>2. Balanced(t, pinned, new, F(side) \cup {a})
      <3>1. F(side) \in SUBSET ActorIds(t) /\ a \in ActorIds(t)
        BY <1>7, <2>1
      <3> DEFINE S == F(side)
      <3> HIDE DEF S, a
      <3>2. Balanced(t, pinned, Put(side, a, Lighter(t, pinned, side)), S \cup {a})
        BY <1>7, <2>1, <3>1, BalanceStep DEF S
      <3> QED
        BY <3>2 DEF a, S
    <2>3. DOMAIN new = DOMAIN side \cup {a}
      BY <1>6, <1>7
    <2> HIDE DEF new, a
    <2>4. F(new) = F(side) \cup {a} /\ a \notin F(side)
      BY <2>1, <2>3
    <2>5. Cardinality(F(side) \cup {a}) = n + 1
      <3> DEFINE S == F(side)
      <3>1. S \in SUBSET free /\ Cardinality(S) = n /\ a \notin S
        BY <1>7, <2>4
      <3> HIDE DEF S
      <3>2. IsFiniteSet(S)
        BY <1>2, <3>1, FS_Subset
      <3>3. Cardinality(S \cup {a}) = IF a \in S THEN Cardinality(S) ELSE Cardinality(S) + 1
        BY <3>2, FS_AddElement
      <3> QED
        BY <3>1, <3>3 DEF S
    <2>6. Fit(new, n + 1)
      BY <1>7, <2>1, <2>2, <2>4, <2>5
    <2> QED
      BY <2>6 DEF new
  <1> HIDE DEF next
  <1>8. step \in [Nat \X V -> V]
    <2>1. \A side \in V : to(side) \in V
      BY <1>6
    <2> HIDE DEF to, V
    <2> QED
      BY <2>1
  <1>9. PICK f : Steps(f, V, pinned, step, N)
    <2>1. pinned \in V
      OBVIOUS
    <2> HIDE DEF V, step, N
    <2> QED
      BY <1>2, <1>8, <2>1, StepsExist
  <1>10. /\ f \in [0 .. N -> V] /\ f[0] = pinned
         /\ \A n \in 1 .. N : f[n] = to(f[n - 1])
    <2>1. ASSUME NEW n \in 1 .. N PROVE f[n] = to(f[n - 1])
      <3>1. n - 1 \in 0 .. N /\ n \in Nat
        BY <1>2
      <3>2. f[n - 1] \in V /\ f[n] = step[<<n, f[n - 1]>>]
        BY <1>9, <3>1 DEF Steps
      <3> HIDE DEF V, to
      <3> QED
        BY <3>1, <3>2
    <2> HIDE DEF step, to
    <2> QED
      BY <1>9, <2>1 DEF Steps
  <1> HIDE DEF step
  <1>11. Fit(pinned, 0)
    <2>1. F(pinned) = {} /\ DOMAIN pinned = DOMAIN pinned \cup {}
      OBVIOUS
    <2>2. Cardinality(F(pinned)) = 0
      BY <2>1, FS_EmptySet
    <2>3. Drawn(t, {}) = {}
      BY DEF Drawn
    <2>4. SideGap(t, pinned) + Cardinality(Drawn(t, {})) <= SideGap(t, pinned)
      <3>1. SideGap(t, pinned) \in Nat /\ Cardinality(Drawn(t, {})) = 0
        BY <2>3, SideGapFacts, FS_EmptySet
      <3> QED
        BY <3>1
    <2>5. Balanced(t, pinned, pinned, {})
      BY <2>1, <2>4 DEF Balanced
    <2> QED
      BY <2>1, <2>2, <2>5
  <1>12. ASSUME NEW side \in V, NEW n \in Nat, n < N, Fit(side, n) PROVE free \ DOMAIN side # {}
    <2>1. SUFFICES ASSUME free \subseteq DOMAIN side PROVE FALSE
      OBVIOUS
    <2>2. F(side) = free
      BY <1>12, <2>1
    <2> QED
      BY <1>2, <1>12, <2>2
  <1> DEFINE S == {n \in Nat : n <= N => Fit(f[n], n)}
  <1>13. S = Nat
    <2> HIDE DEF Fit, V
    <2>1. 0 \in S
      BY <1>10, <1>11
    <2>2. ASSUME NEW n \in S, n + 1 <= N PROVE Fit(f[n + 1], n + 1)
      <3>1. n \in Nat /\ n < N /\ n \in 0 .. N /\ n + 1 \in 1 .. N /\ (n + 1) - 1 = n
        BY <1>2, <2>2
      <3>2. f[n] \in V /\ f[n + 1] = to(f[n])
        <4> HIDE DEF to, N, S
        <4>1. f[n + 1] = to(f[(n + 1) - 1])
          BY <1>10, <3>1
        <4> QED
          BY <1>10, <3>1, <4>1
      <3>3. Fit(f[n], n)
        BY <2>2, <3>1
      <3>4. free \ DOMAIN f[n] # {}
        BY <1>12, <3>1, <3>2, <3>3
      <3> QED
        BY <1>7, <3>1, <3>2, <3>3, <3>4
    <2>3. \A n \in S : n + 1 \in S
      BY <2>2
    <2> HIDE DEF S
    <2> QED
      BY <2>1, <2>3, FromZero DEF S
  <1> HIDE DEF S
  <1>13a. \A n \in 0 .. N : Fit(f[n], n)
    <2> HIDE DEF Fit, N
    <2> QED
      BY <1>2, <1>13 DEF S
  <1>14. \A n \in 1 .. N : f[n] = next(f[n - 1])
    <2> HIDE DEF Fit, V
    <2>1. ASSUME NEW n \in 1 .. N PROVE f[n] = next(f[n - 1])
      <3>1. n - 1 \in Nat /\ n - 1 < N /\ n - 1 \in 0 .. N
        BY <1>2
      <3>2. f[n - 1] \in V /\ Fit(f[n - 1], n - 1)
        BY <1>10, <1>13a, <3>1
      <3>3. free \ DOMAIN f[n - 1] # {}
        BY <1>12, <3>1, <3>2
      <3> QED
        BY <1>10, <3>3
    <2> QED
      BY <2>1
  <1>15. Placing(f)
    <2> HIDE DEF V, N
    <2> QED
      BY <1>2, <1>10, <1>14
  <1>16. Placing(g)
    BY <1>15
  <1> HIDE DEF g
  <1>17. g[0] = pinned /\ \A n \in 1 .. N : g[n] = next(g[n - 1])
    <2>1. g = [n \in 0 .. N |-> IF n = 0 THEN pinned ELSE next(g[n - 1])]
      BY <1>16
    <2> HIDE DEF N
    <2> QED
      BY <1>2, <2>1
  <1> HIDE DEF Placing, Fit, V
  <1> DEFINE E == {n \in Nat : n <= N => g[n] = f[n]}
  <1>18. E = Nat
    <2>1. 0 \in E
      BY <1>10, <1>17
    <2>2. ASSUME NEW n \in E, n + 1 <= N PROVE g[n + 1] = f[n + 1]
      <3>1. n \in Nat /\ n <= N /\ n + 1 \in 1 .. N /\ (n + 1) - 1 = n
        BY <1>2, <2>2
      <3> QED
        BY <1>14, <1>17, <2>2, <3>1
    <2>3. \A n \in E : n + 1 \in E
      BY <2>2
    <2> HIDE DEF E
    <2> QED
      BY <2>1, <2>3, FromZero DEF E
  <1>19. Fit(g[N], N)
    BY <1>2, <1>13a, <1>18
  <1> DEFINE last == g[N]
  <1>20. Fit(last, N)
    BY <1>19
  <1> HIDE DEF last
  <1>21. F(last) = free
    <2> DEFINE G == F(last)
    <2>1. G \in SUBSET free /\ Cardinality(G) = Cardinality(free)
      BY <1>20 DEF Fit
    <2> HIDE DEF G, free
    <2>2. G = free
      BY <1>2, <2>1, FS_Subset
    <2> QED
      BY <2>2 DEF G
  <1>22. Balanced(t, pinned, last, free)
    BY <1>20, <1>21 DEF Fit
  <1> QED
    BY <1>1, <1>22 DEF last

(* How far the columns can be apart.                                       *)
LEMMA ColumnsFacts ==
    ASSUME NEW t, Sound(t), NEW pinned \in Sided(t)
    PROVE  /\ DOMAIN ActorSides(t, pinned) = ActorIds(t)
           /\ SideGap(t, ActorSides(t, pinned)) <=
                Max({0, SideGap(t, pinned) - Cardinality(Drawn(t, ActorIds(t) \ DOMAIN pinned))}
                    \cup {Weight(t, a) : a \in ActorIds(t) \ DOMAIN pinned})
  <1> DEFINE side == ActorSides(t, pinned)
             free == ActorIds(t) \ DOMAIN pinned
             dragged == SideGap(t, pinned)
             placed == Cardinality(Drawn(t, free))
             W == {Weight(t, a) : a \in free}
             M == {0, dragged - placed} \cup W
  <1>1. /\ side \in Sided(t) /\ DOMAIN side = DOMAIN pinned \cup free
        /\ \/ SideGap(t, side) + placed <= dragged
           \/ \E a \in free : SideGap(t, side) <= Weight(t, a)
    BY ActorSidesFacts DEF Balanced
  <1>2. DOMAIN side = ActorIds(t)
    <2>1. DOMAIN pinned \subseteq ActorIds(t)
      BY DEF Sided
    <2> QED
      BY <1>1, <2>1
  <1>3. /\ SideGap(t, side) \in Nat /\ dragged \in Nat /\ placed \in Nat
        /\ \A a : Weight(t, a) \in Nat
    <2>1. free \in SUBSET ActorIds(t)
      OBVIOUS
    <2> QED
      BY <1>1, <2>1, SideGapFacts, SideWeightFacts
  <1>4. M \in SUBSET Int /\ M # {}
    BY <1>3
  <1>5. IsFiniteSet(M)
    <2>1. IsFiniteSet(W)
      <3> DEFINE f == [a \in free |-> Weight(t, a)]
      <3>1. W = {f[a] : a \in free}
        OBVIOUS
      <3>2. IsFiniteSet(free)
        <4>1. free \in SUBSET ActorIds(t)
          OBVIOUS
        <4> QED
          BY <4>1, SideWeightFacts
      <3> HIDE DEF f, W, free
      <3> QED
        BY <3>1, <3>2, ImageFacts
    <2> HIDE DEF W
    <2>2. IsFiniteSet(W \cup {0})
      BY <2>1, FS_AddElement
    <2> DEFINE W0 == W \cup {0}
               d == dragged - placed
    <2>3. M = W0 \cup {d}
      OBVIOUS
    <2> HIDE DEF W0, d, M
    <2>4. IsFiniteSet(W0 \cup {d})
      BY <2>2, FS_AddElement DEF W0
    <2> QED
      BY <2>3, <2>4
  <1>6. dragged - placed \in M /\ \A a \in free : Weight(t, a) \in M
    OBVIOUS
  <1> HIDE DEF M
  <1>7. SideGap(t, side) <= Max(M)
    <2>1. Max(M) \in M /\ \A x \in M : x <= Max(M)
      BY <1>4, <1>5, MaxOf
    <2>2. PICK top \in Int : top = Max(M) /\ \A x \in M : x <= top
      BY <1>4, <2>1
    <2>3. dragged - placed <= top /\ \A a \in free : Weight(t, a) <= top
      BY <1>6, <2>2
    <2> HIDE DEF free, placed, dragged
    <2>4. ASSUME SideGap(t, side) + placed <= dragged PROVE SideGap(t, side) <= top
      BY <1>3, <2>2, <2>3, <2>4
    <2>5. ASSUME NEW a \in free, SideGap(t, side) <= Weight(t, a) PROVE SideGap(t, side) <= top
      BY <1>3, <2>2, <2>3, <2>5
    <2>6. SideGap(t, side) <= top
      BY <1>1, <2>4, <2>5
    <2> QED
      BY <2>2, <2>6
  <1> QED
    BY <1>2, <1>7 DEF M

LEMMA NobodySided ==
    ASSUME NEW t
    PROVE  <<>> \in Sided(t)
  <1> DEFINE e == [i \in 1 .. 0 |-> i]
  <1>1. e \in Seq(Nat) /\ Len(e) = 0
    <2>1. \A i \in 1 .. 0 : i \in Nat
      OBVIOUS
    <2> QED
      BY <2>1, IsASeq
  <1>2. e \in [{} -> {"left", "right"}]
    OBVIOUS
  <1> HIDE DEF e
  <1>3. e = <<>>
    BY <1>1, EmptySeq
  <1>4. e \in Sided(t)
    BY <1>2 DEF Sided
  <1> QED
    BY <1>3, <1>4

LEMMA OneSided ==
    ASSUME NEW t, Sound(t), NEW e, e = <<>>, NEW a \in ActorIds(t), NEW s \in {"left", "right"}
    PROVE  Put(e, a, s) \in Sided(t)
  <1>1. ASSUME NEW side \in Sided(t), a \notin DOMAIN side PROVE Put(side, a, s) \in Sided(t)
    BY <1>1, PutFacts
  <1>2. e \in Sided(t) /\ a \notin DOMAIN e
    BY NobodySided
  <1> QED
    BY <1>1, <1>2

(* What LayOut does to the columns, for any actor dragged.                 *)
LEMMA LayOutFacts ==
    ASSUME TableInv, LayOut
    PROVE  SidesBalanced'
  <1>1. Sound(table) /\ table' = table /\ stage' = "laid"
    BY DEF TableInv, LayOut
  <1>2. \E pinned \in Sided(table) :
           diagram' = [pinned |-> pinned, side |-> ActorSides(table, pinned)]
    <2>1. PICK pinned : /\ \/ pinned = <<>>
                           \/ \E a \in ActorIds(table), s \in {"left", "right"} : pinned = Put(<<>>, a, s)
                        /\ diagram' = [pinned |-> pinned, side |-> ActorSides(table, pinned)]
      BY DEF LayOut
    <2>2. CASE pinned = <<>>
      BY <2>1, <2>2, NobodySided
    <2>3. ASSUME NEW a \in ActorIds(table), NEW s \in {"left", "right"}, pinned = Put(<<>>, a, s)
          PROVE  pinned \in Sided(table)
      BY <1>1, <2>3, OneSided
    <2> QED
      BY <2>1, <2>2, <2>3
  <1>3. PICK pinned \in Sided(table) :
           diagram' = [pinned |-> pinned, side |-> ActorSides(table, pinned)]
    BY <1>2
  <1>4. diagram'.pinned = pinned /\ diagram'.side = ActorSides(table, pinned)
    BY <1>3
  <1>5. /\ DOMAIN ActorSides(table, pinned) = ActorIds(table)
        /\ SideGap(table, ActorSides(table, pinned)) <=
             Max({0, SideGap(table, pinned) - Cardinality(Drawn(table, ActorIds(table) \ DOMAIN pinned))}
                 \cup {Weight(table, a) : a \in ActorIds(table) \ DOMAIN pinned})
    BY <1>1, ColumnsFacts
  <1> QED
    BY <1>1, <1>4, <1>5 DEF SidesBalanced, SideGap

(* The two columns of the diagram differ by no more than the heaviest      *)
(* actor the layout could place, or by what the dragged actors leave       *)
(* (actorSides of layout.mjs).                                             *)
THEOREM SidesStayBalanced == Spec => []SidesBalanced
  <1>1. Init => SidesBalanced
    BY DEF Init, SidesBalanced
  <1>2. TableInv /\ SidesBalanced /\ [Next]_vars => SidesBalanced'
    <2> SUFFICES ASSUME TableInv, SidesBalanced, [Next]_vars PROVE SidesBalanced'
      OBVIOUS
    <2>1. CASE LayOut
      BY <2>1, LayOutFacts
    <2>2. CASE UNCHANGED vars
      BY <2>2 DEF vars, SidesBalanced
    <2>3. CASE Next /\ ~ LayOut
      <3>1. stage' # "laid"
        BY <2>3 DEF Next, BuildFloor, EnrichBatch, CompleteTable, GenerateGroups,
                    ProposeCandidates, SelectRows, Relate, RelateFails
      <3> QED
        BY <3>1 DEF SidesBalanced
    <2> QED
      BY <2>1, <2>2, <2>3
  <1> QED
    BY <1>1, <1>2, TableInvariant, PTL DEF Spec

=============================================================================
