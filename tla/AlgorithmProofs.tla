--------------------------- MODULE AlgorithmProofs ---------------------------
(***************************************************************************)
(* Theorems about the pure functions of MCAlgorithms: the retries of a     *)
(* database call, the layers of a retrieval's fields, the history of a     *)
(* turn, the queries of a retrieval, the streams of the client, the scope  *)
(* of a search and of its neighbours, the ranking of chunks from the       *)
(* search to the context, and the chunks, pages and vectors of a text.     *)
(* Each theorem says what holds of every input, of any length, and of      *)
(* those that the module takes.                                            *)
(*                                                                         *)
(* What a recursive function computes is shown place by place: the places  *)
(* where a claim fails would have a least one (Least, UpTo), and a         *)
(* recursion has a solution because its initial pieces do (Recursion).     *)
(*                                                                         *)
(* The sections that follow are, in this order: numbers and recursion;     *)
(* lists, with what sorting, picking and joining give; one section per     *)
(* function; the inputs that the module takes; the theorems.               *)
(***************************************************************************)
EXTENDS MCAlgorithms, FiniteSetTheorems, FunctionTheorems, SequenceTheorems, WellFoundedInduction, TLAPS

-----------------------------------------------------------------------------
(* Numbers, and recursion on them.                                         *)

\* A set of naturals has a least element.
LEMMA Least ==
  ASSUME NEW T, T \subseteq Nat, T # {}
  PROVE  \E x \in T : \A y \in T : x <= y
<1>1. \E x \in T : \A y \in T : ~ (<<y, x>> \in OpToRel(<, Nat))
  BY WFMin, NatLessThanWellFounded
<1>2. \A x, y \in Nat : y < x => <<y, x>> \in OpToRel(<, Nat)
  BY DEF OpToRel
<1>3. PICK x \in T : \A y \in T : ~ (<<y, x>> \in OpToRel(<, Nat))
  BY <1>1
<1>4. ASSUME NEW y \in T PROVE x <= y
  <2>1. x \in Nat /\ y \in Nat /\ ~(y < x)
    BY <1>2, <1>3
  <2> QED
    BY <2>1
<1> QED
  BY <1>3, <1>4

\* A set that has 0, and with a number below n the next, has all up to n.
LEMMA UpTo ==
  ASSUME NEW n \in Nat, NEW G, 0 \in G, \A i \in 0 .. n - 1 : i \in G => i + 1 \in G
  PROVE  \A k \in 0 .. n : k \in G
<1> SUFFICES ASSUME NEW k \in 0 .. n, k \notin G PROVE FALSE
  OBVIOUS
<1> DEFINE B == {i \in 0 .. n : i \notin G}
<1>1. B \subseteq Nat /\ B # {}
  OBVIOUS
<1> HIDE DEF B
<1>2. PICK x \in B : \A y \in B : x <= y
  BY <1>1, Least
<1>3. x \in 0 .. n /\ x \notin G /\ x # 0
  BY DEF B
<1>4. x - 1 \in 0 .. n - 1 /\ x - 1 \in 0 .. n /\ ~(x <= x - 1) /\ x - 1 + 1 = x
  BY <1>3
<1>5. x - 1 \in G
  BY <1>2, <1>4 DEF B
<1> QED
  BY <1>3, <1>4, <1>5

\* f is computed from b by the step G.
Computed(f, n, S, b, G) == f \in [0 .. n -> S] /\ f[0] = b /\ \A i \in 1 .. n : f[i] = G[<<i, f[i - 1]>>]

\* A recursion from 0 on has a solution, whatever its step is.
LEMMA Recursion ==
  ASSUME NEW n \in Nat, NEW S, NEW b \in S, NEW G \in [(1 .. n) \X S -> S]
  PROVE  \E f : Computed(f, n, S, b, G)
<1> DEFINE Solves(k, f) == f \in [0 .. k -> S] /\ f[0] = b /\ \A i \in 1 .. k : f[i] = G[<<i, f[i - 1]>>]
           T == {k \in 0 .. n : \E f : Solves(k, f)}
<1>1. 0 \in T
  <2> DEFINE h == [i \in 0 .. 0 |-> b]
  <2>1. Solves(0, h) /\ 0 \in 0 .. n
    OBVIOUS
  <2> HIDE DEF h
  <2> QED
    BY <2>1
<1>2. ASSUME NEW k \in 0 .. n - 1, k \in T PROVE k + 1 \in T
  <2>1. PICK f : Solves(k, f)
    BY <1>2
  <2> DEFINE h == [i \in 0 .. k + 1 |-> IF i = k + 1 THEN G[<<k + 1, f[k]>>] ELSE f[i]]
  <2>2. k + 1 \in 1 .. n /\ k \in 0 .. k
    OBVIOUS
  <2>3. f[k] \in S /\ G[<<k + 1, f[k]>>] \in S
    BY <2>1, <2>2
  <2>4. h \in [0 .. k + 1 -> S] /\ h[0] = b
    BY <2>1, <2>3
  <2>5. ASSUME NEW i \in 1 .. k + 1 PROVE h[i] = G[<<i, h[i - 1]>>]
    <3>1. CASE i = k + 1
      <4>1. /\ k + 1 \in 0 .. k + 1 /\ k \in 0 .. k + 1 /\ k # k + 1 /\ i - 1 = k
        BY <3>1
      <4>2. h[k + 1] = G[<<k + 1, f[k]>>] /\ h[k] = f[k]
        BY <4>1
      <4> HIDE DEF h
      <4> QED
        BY <3>1, <4>1, <4>2
    <3>2. CASE i # k + 1
      <4>1. i \in 1 .. k /\ i - 1 \in 0 .. k /\ i \in 0 .. k + 1 /\ i - 1 \in 0 .. k + 1 /\ i - 1 # k + 1
        BY <3>2
      <4>2. h[i] = f[i] /\ h[i - 1] = f[i - 1]
        BY <4>1, <3>2
      <4> QED
        BY <4>1, <4>2, <2>1
    <3> QED
      BY <3>1, <3>2
  <2> HIDE DEF h
  <2>6. Solves(k + 1, h)
    BY <2>4, <2>5
  <2>7. k + 1 \in 0 .. n
    OBVIOUS
  <2> QED
    BY <2>6, <2>7
<1> HIDE DEF T
<1>3. n \in T
  BY <1>1, <1>2, UpTo
<1> QED
  BY <1>3 DEF T, Computed

\* The places of a row that starts at 0.
LEMMA FromZero ==
  ASSUME NEW n \in Nat
  PROVE  /\ 0 \in 0 .. n /\ \A i \in 1 .. n : i \in 0 .. n /\ i # 0
         /\ \A i \in 0 .. n : i # 0 => i \in 1 .. n
OBVIOUS

\* f solves the equation of that recursion.
Solution(f, n, S, b, G) ==
  /\ f = [i \in 0 .. n |-> IF i = 0 THEN b ELSE G[<<i, f[i - 1]>>]]
  /\ \A i \in 1 .. n : f[i - 1] \in S

\* What is computed solves it.
LEMMA Solved ==
  ASSUME NEW n \in Nat, NEW S, NEW b \in S, NEW G \in [(1 .. n) \X S -> S]
  PROVE  \E f : Solution(f, n, S, b, G)
<1>1. PICK f : Computed(f, n, S, b, G)
  BY Recursion
<1>2. f \in [0 .. n -> S] /\ f[0] = b /\ \A i \in 1 .. n : f[i] = G[<<i, f[i - 1]>>]
  BY <1>1 DEF Computed
<1>3. \A i \in 1 .. n : i - 1 \in 0 .. n /\ f[i - 1] \in S
  BY <1>2
<1>4. \A i \in 0 .. n : f[i] = IF i = 0 THEN b ELSE G[<<i, f[i - 1]>>]
  BY <1>2, FromZero
<1>5. f = [i \in 0 .. n |-> f[i]]
  BY <1>2
<1> QED
  BY <1>3, <1>4, <1>5 DEF Solution

\* A row that starts in S and never leaves it by one step stays in it.
LEMMA Stays ==
  ASSUME NEW n \in Nat, NEW S, NEW c, c[0] \in S, \A i \in 1 .. n : c[i - 1] \in S => c[i] \in S
  PROVE  \A i \in 0 .. n : c[i] \in S
<1> DEFINE T == {i \in 0 .. n : c[i] \in S}
<1>1. 0 \in T
  OBVIOUS
<1>2. ASSUME NEW i \in 0 .. n - 1, i \in T PROVE i + 1 \in T
  <2>1. i + 1 \in 1 .. n /\ i + 1 \in 0 .. n /\ i + 1 - 1 = i
    OBVIOUS
  <2>2. PICK j \in 1 .. n : j = i + 1 /\ j - 1 = i
    BY <2>1
  <2>3. c[j] \in S
    BY <1>2, <2>2
  <2> QED
    BY <2>1, <2>2, <2>3
<1> HIDE DEF T
<1>3. \A i \in 0 .. n : i \in T
  BY <1>1, <1>2, UpTo
<1> QED
  BY <1>3 DEF T

-----------------------------------------------------------------------------
(* Lists: places, orders, picks, joins and sums.                           *)

\* `ahead` orders the set T strictly and totally.
StrictOrder(T, ahead) ==
  /\ \A x \in T : <<x, x>> \notin ahead
  /\ \A x, y, z \in T : <<x, y>> \in ahead /\ <<y, z>> \in ahead => <<x, z>> \in ahead
  /\ \A x, y \in T : x # y => <<x, y>> \in ahead \/ <<y, x>> \in ahead

\* f lists the elements of T as `ahead` has them.
Enumerates(f, T, ahead) ==
  /\ f \in [1 .. Cardinality(T) -> T]
  /\ \A x \in T : \E n \in 1 .. Cardinality(T) : f[n] = x
  /\ \A m, n \in 1 .. Cardinality(T) : m < n <=> <<f[m], f[n]>> \in ahead
  /\ \A m, n \in 1 .. Cardinality(T) : f[m] = f[n] => m = n

\* The elements of a finite set, each at the place that its order gives it.
LEMMA InOrderLists ==
  ASSUME NEW T, IsFiniteSet(T), NEW ahead, StrictOrder(T, ahead)
  PROVE  Cardinality(T) \in Nat /\ Enumerates(InOrder(T, ahead), T, ahead)
<1> DEFINE n == Cardinality(T)
           before(x) == {y \in T : <<y, x>> \in ahead}
           rank == [x \in T |-> Cardinality(before(x))]
<1>1. n \in Nat
  BY FS_CardinalityType
<1>2. \A x \in T : IsFiniteSet(before(x)) /\ Cardinality(before(x)) \in Nat /\ Cardinality(before(x)) < n
  <2> SUFFICES ASSUME NEW x \in T
               PROVE  IsFiniteSet(before(x)) /\ Cardinality(before(x)) \in Nat /\ Cardinality(before(x)) < n
    OBVIOUS
  <2>1. before(x) \in SUBSET T /\ x \notin before(x)
    BY DEF StrictOrder
  <2> HIDE DEF before
  <2>2. IsFiniteSet(before(x)) /\ Cardinality(before(x)) <= n /\ before(x) # T
    BY <2>1, FS_Subset
  <2>3. Cardinality(before(x)) \in Nat /\ Cardinality(before(x)) # n
    BY <2>1, <2>2, FS_Subset, FS_CardinalityType
  <2> QED
    BY <1>1, <2>2, <2>3
<1>3. \A x, y \in T : <<x, y>> \in ahead => Cardinality(before(x)) < Cardinality(before(y))
  <2> SUFFICES ASSUME NEW x \in T, NEW y \in T, <<x, y>> \in ahead
               PROVE  Cardinality(before(x)) < Cardinality(before(y))
    OBVIOUS
  <2>1. before(x) \in SUBSET before(y) /\ x \in before(y) /\ x \notin before(x)
    BY DEF StrictOrder
  <2>2. /\ IsFiniteSet(before(x)) /\ IsFiniteSet(before(y)) /\ before(x) # before(y)
        /\ Cardinality(before(x)) \in Nat /\ Cardinality(before(y)) \in Nat
    BY <1>2, <2>1
  <2> HIDE DEF before
  <2>3. Cardinality(before(x)) <= Cardinality(before(y)) /\ Cardinality(before(x)) # Cardinality(before(y))
    BY <2>1, <2>2, FS_Subset
  <2> QED
    BY <2>2, <2>3
<1> HIDE DEF before, n
<1>4. rank \in [T -> 0 .. n - 1] /\ \A x \in T : rank[x] = Cardinality(before(x))
  BY <1>1, <1>2
<1>5. \A x, y \in T : <<x, y>> \in ahead <=> rank[x] < rank[y]
  <2> SUFFICES ASSUME NEW x \in T, NEW y \in T PROVE <<x, y>> \in ahead <=> rank[x] < rank[y]
    OBVIOUS
  <2>1. rank[x] \in Nat /\ rank[y] \in Nat
    BY <1>1, <1>4
  <2>2. CASE <<x, y>> \in ahead
    BY <1>3, <1>4, <2>2
  <2>3. CASE x = y
    BY <2>1, <2>3 DEF StrictOrder
  <2>4. CASE <<y, x>> \in ahead
    <3>1. rank[y] < rank[x]
      BY <1>3, <1>4, <2>4
    <3>2. <<x, y>> \notin ahead
      BY <2>4 DEF StrictOrder
    <3> QED
      BY <2>1, <3>1, <3>2
  <2> QED
    BY <2>2, <2>3, <2>4 DEF StrictOrder
<1> HIDE DEF rank
<1>6. \A x, y \in T : rank[x] = rank[y] => x = y
  <2> SUFFICES ASSUME NEW x \in T, NEW y \in T, rank[x] = rank[y], x # y PROVE FALSE
    OBVIOUS
  <2>1. rank[x] < rank[y] \/ rank[y] < rank[x]
    BY <1>5 DEF StrictOrder
  <2>2. rank[x] \in Int /\ rank[y] \in Int
    BY <1>1, <1>4
  <2> QED
    BY <2>1, <2>2
<1>7. \A k \in 0 .. n - 1 : \E x \in T : rank[x] = k
  <2>1. rank \in Injection(T, 0 .. n - 1)
    BY <1>4, <1>6, Fun_IsInj
  <2>2. IsFiniteSet(0 .. n - 1) /\ Cardinality(0 .. n - 1) = n
    <3>1. n - 1 \in Int /\ 0 \in Int
      BY <1>1
    <3>2. IsFiniteSet(0 .. n - 1) /\ Cardinality(0 .. n - 1) = IF 0 > n - 1 THEN 0 ELSE n - 1 - 0 + 1
      BY <3>1, FS_Interval
    <3> QED
      BY <1>1, <3>2
  <2>3. rank \in Surjection(T, 0 .. n - 1)
    BY <2>1, <2>2, FS_Injection DEF n
  <2> QED
    BY <2>3, Fun_SurjectionProperties
<1> DEFINE f == InOrder(T, ahead)
<1>8. f = [k \in 1 .. n |-> CHOOSE x \in T : Cardinality(before(x)) = k - 1]
  BY DEF InOrder, n, before
<1>9. \A k \in 1 .. n : f[k] \in T /\ rank[f[k]] = k - 1
  <2> SUFFICES ASSUME NEW k \in 1 .. n PROVE f[k] \in T /\ rank[f[k]] = k - 1
    OBVIOUS
  <2>1. k - 1 \in 0 .. n - 1
    BY <1>1
  <2>2. \E x \in T : Cardinality(before(x)) = k - 1
    BY <1>4, <1>7, <2>1
  <2>3. f[k] = CHOOSE x \in T : Cardinality(before(x)) = k - 1
    BY <1>8
  <2> HIDE DEF f
  <2>4. f[k] \in T /\ Cardinality(before(f[k])) = k - 1
    BY <2>2, <2>3, Zenon
  <2> QED
    BY <1>4, <2>4
<1>10. f \in [1 .. n -> T]
  BY <1>8, <1>9
<1> HIDE DEF f
<1>11. \A x \in T : \E k \in 1 .. n : f[k] = x
  <2> SUFFICES ASSUME NEW x \in T PROVE \E k \in 1 .. n : f[k] = x
    OBVIOUS
  <2>1. PICK k : k = rank[x] + 1
    OBVIOUS
  <2>2. k \in 1 .. n /\ k - 1 = rank[x]
    BY <1>1, <1>4, <2>1
  <2>3. f[k] \in T /\ rank[f[k]] = rank[x]
    BY <1>9, <2>2
  <2> QED
    BY <1>6, <2>2, <2>3
<1>12. \A j, k \in 1 .. n : j < k <=> <<f[j], f[k]>> \in ahead
  <2> SUFFICES ASSUME NEW j \in 1 .. n, NEW k \in 1 .. n PROVE j < k <=> <<f[j], f[k]>> \in ahead
    OBVIOUS
  <2>1. f[j] \in T /\ f[k] \in T /\ rank[f[j]] = j - 1 /\ rank[f[k]] = k - 1
    BY <1>9
  <2>2. <<f[j], f[k]>> \in ahead <=> j - 1 < k - 1
    BY <1>5, <2>1
  <2> QED
    BY <1>1, <2>2
<1>13. \A j, k \in 1 .. n : f[j] = f[k] => j = k
  <2> SUFFICES ASSUME NEW j \in 1 .. n, NEW k \in 1 .. n, f[j] = f[k] PROVE j = k
    OBVIOUS
  <2>1. j - 1 = k - 1
    BY <1>9
  <2> QED
    BY <1>1, <2>1
<1> QED
  BY <1>1, <1>10, <1>11, <1>12, <1>13 DEF Enumerates, f, n

\* Numbers, upwards.
LEMMA UpwardsOrders ==
  ASSUME NEW T, T \subseteq Int
  PROVE  StrictOrder(T, Upwards(T))
BY DEF StrictOrder, Upwards

\* `ahead` is the order of what may be equal: of two that are not, one is before
\* the other and before or behind whatever is between.
WeakOrder(T, ahead) ==
  /\ \A x \in T : <<x, x>> \notin ahead
  /\ \A x, y, z \in T : <<x, y>> \in ahead /\ <<y, z>> \in ahead => <<x, z>> \in ahead
  /\ \A x, y, z \in T : <<x, z>> \in ahead => <<x, y>> \in ahead \/ <<y, z>> \in ahead

\* Where equal elements stay as they were, no two are equal.
LEMMA StableOrders ==
  ASSUME NEW T, T \subseteq Int, NEW ahead, WeakOrder(T, ahead)
  PROVE  StrictOrder(T, Stable(T, ahead))
<1> DEFINE R == Stable(T, ahead)
<1>1. \A x, y \in T : <<x, y>> \in R <=> <<x, y>> \in ahead \/ (x < y /\ <<y, x>> \notin ahead)
  BY DEF Stable
<1> HIDE DEF R
<1>2. ASSUME NEW x \in T PROVE <<x, x>> \notin R
  <2>1. <<x, x>> \notin ahead /\ ~(x < x)
    BY DEF WeakOrder
  <2> QED
    BY <1>1, <2>1
<1>3. ASSUME NEW x \in T, NEW y \in T, NEW z \in T, <<x, y>> \in R, <<y, z>> \in R PROVE <<x, z>> \in R
  <2>1. CASE <<x, y>> \in ahead
    <3>1. <<x, z>> \in ahead \/ <<z, y>> \in ahead
      BY <2>1 DEF WeakOrder
    <3>2. <<z, y>> \notin ahead
      BY <1>1, <1>3 DEF WeakOrder
    <3> QED
      BY <1>1, <3>1, <3>2
  <2>2. CASE <<y, z>> \in ahead
    <3>1. <<y, x>> \in ahead \/ <<x, z>> \in ahead
      BY <2>2 DEF WeakOrder
    <3>2. <<y, x>> \notin ahead
      BY <1>1, <1>3 DEF WeakOrder
    <3> QED
      BY <1>1, <3>1, <3>2
  <2>3. CASE <<x, y>> \notin ahead /\ <<y, z>> \notin ahead
    <3>1. x < y /\ y < z /\ <<y, x>> \notin ahead /\ <<z, y>> \notin ahead
      BY <1>1, <1>3, <2>3
    <3>2. x < z
      BY <3>1
    <3>3. <<z, x>> \notin ahead
      BY <3>1 DEF WeakOrder
    <3> QED
      BY <1>1, <3>2, <3>3
  <2> QED
    BY <2>1, <2>2, <2>3
<1>4. ASSUME NEW x \in T, NEW y \in T, x # y PROVE <<x, y>> \in R \/ <<y, x>> \in R
  <2>1. x < y \/ y < x
    BY <1>4
  <2> QED
    BY <1>1, <2>1
<1> QED
  BY <1>2, <1>3, <1>4 DEF StrictOrder, R

\* The beginning of a list.
LEMMA TakeIsPrefix ==
  ASSUME NEW X, NEW s \in Seq(X), NEW n \in Nat
  PROVE  /\ Take(s, n) \in Seq(X) /\ Len(Take(s, n)) = Least2(n, Len(s))
         /\ Least2(n, Len(s)) \in 0 .. Len(s) /\ Len(s) \in Nat
         /\ \A i \in 1 .. Least2(n, Len(s)) : i \in 1 .. Len(s) /\ Take(s, n)[i] = s[i]
<1>1. PICK m : m = Least2(n, Len(s))
  OBVIOUS
<1>2. Len(s) \in Nat /\ m \in 0 .. Len(s) /\ \A i \in 1 .. m : s[i] \in X
  BY <1>1 DEF Least2
<1>3. /\ SubSeq(s, 1, m) \in Seq(X)
      /\ Len(SubSeq(s, 1, m)) = IF 1 <= m THEN m - 1 + 1 ELSE 0
      /\ \A i \in 1 .. m - 1 + 1 : SubSeq(s, 1, m)[i] = s[1 + i - 1]
  <2>1. 1 \in Int /\ m \in Int
    BY <1>2
  <2> QED
    BY <1>2, <2>1, SubSeqProperties
<1>4. Len(SubSeq(s, 1, m)) = m
  BY <1>2, <1>3
<1>5. \A i \in 1 .. m : i \in 1 .. Len(s) /\ SubSeq(s, 1, m)[i] = s[i]
  <2> SUFFICES ASSUME NEW i \in 1 .. m PROVE i \in 1 .. Len(s) /\ SubSeq(s, 1, m)[i] = s[i]
    OBVIOUS
  <2>1. i \in 1 .. m - 1 + 1 /\ 1 + i - 1 = i /\ i \in 1 .. Len(s)
    BY <1>2
  <2> QED
    BY <1>3, <2>1
<1> QED
  BY <1>1, <1>2, <1>3, <1>4, <1>5 DEF Take

\* r has the elements of s at the places f, which are those of T, upwards.
Picks(r, s, T, f) ==
  /\ f \in [1 .. Len(r) -> T] /\ Len(r) = Cardinality(T)
  /\ \A i \in T : \E n \in 1 .. Len(r) : f[n] = i
  /\ \A m, n \in 1 .. Len(r) : m < n => f[m] < f[n]
  /\ \A m, n \in 1 .. Len(r) : f[m] = f[n] => m = n
  /\ \A n \in 1 .. Len(r) : r[n] = s[f[n]]

\* The elements at some of the places.
LEMMA AtPicks ==
  ASSUME NEW X, NEW s \in Seq(X), NEW T, T \subseteq DOMAIN s
  PROVE  At(s, T) \in Seq(X) /\ Len(At(s, T)) \in Nat /\ \E f : Picks(At(s, T), s, T, f)
<1> DEFINE f == InOrder(T, Upwards(T))
           r == At(s, T)
           c == Cardinality(T)
<1>1. Len(s) \in Nat /\ DOMAIN s = 1 .. Len(s) /\ T \subseteq Int /\ \A i \in 1 .. Len(s) : s[i] \in X
  OBVIOUS
<1>2. IsFiniteSet(T)
  <2>1. IsFiniteSet(1 .. Len(s)) /\ T \in SUBSET (1 .. Len(s))
    BY <1>1, FS_Interval
  <2> QED
    BY <2>1, FS_Subset
<1>3. c \in Nat /\ Enumerates(f, T, Upwards(T))
  BY <1>1, <1>2, UpwardsOrders, InOrderLists
<1>4. r = [n \in 1 .. c |-> s[f[n]]]
  BY DEF At
<1> HIDE DEF f, c, r
<1>5. \A n \in 1 .. c : f[n] \in T /\ s[f[n]] \in X
  BY <1>1, <1>3 DEF Enumerates, c
<1>6. r \in Seq(X) /\ Len(r) = c
  BY <1>3, <1>4, <1>5
<1>7. \A n \in 1 .. Len(r) : r[n] = s[f[n]]
  BY <1>4, <1>6
<1>8. \A m, n \in 1 .. c : m < n => f[m] < f[n]
  BY <1>3 DEF Enumerates, Upwards, c
<1>9. Picks(r, s, T, f)
  BY <1>3, <1>6, <1>7, <1>8 DEF Enumerates, Picks, c
<1> QED
  BY <1>3, <1>6, <1>9 DEF r

\* r has the elements of s in the order `ahead`, equal ones as they were.
Sorts(r, s, ahead, f) ==
  /\ f \in [1 .. Len(s) -> 1 .. Len(s)] /\ Len(r) = Len(s)
  /\ \A i \in 1 .. Len(s) : \E n \in 1 .. Len(s) : f[n] = i
  /\ \A m, n \in 1 .. Len(s) : f[m] = f[n] => m = n
  /\ \A m, n \in 1 .. Len(s) : m < n => <<f[n], f[m]>> \notin ahead
  /\ \A m, n \in 1 .. Len(s) : <<f[m], f[n]>> \in ahead => m < n
  /\ \A n \in 1 .. Len(s) : r[n] = s[f[n]]

\* A sorted list.
LEMMA OrderedSorts ==
  ASSUME NEW X, NEW s \in Seq(X), NEW ahead, WeakOrder(DOMAIN s, ahead)
  PROVE  Ordered(s, ahead) \in Seq(X) /\ Len(s) \in Nat /\ \E f : Sorts(Ordered(s, ahead), s, ahead, f)
<1> DEFINE T == 1 .. Len(s)
           R == Stable(T, ahead)
           f == InOrder(T, R)
           r == Ordered(s, ahead)
<1>1. Len(s) \in Nat /\ DOMAIN s = T /\ T \subseteq Int /\ \A i \in T : s[i] \in X
  OBVIOUS
<1>2. IsFiniteSet(T) /\ Cardinality(T) = Len(s)
  <2>1. 1 \in Int /\ Len(s) \in Int
    BY <1>1
  <2>2. IsFiniteSet(T) /\ Cardinality(T) = IF 1 > Len(s) THEN 0 ELSE Len(s) - 1 + 1
    BY <2>1, FS_Interval
  <2> QED
    BY <1>1, <2>2
<1>3. r = [n \in T |-> s[f[n]]]
  BY <1>1 DEF Ordered
<1>4. Enumerates(f, T, R)
  <2>1. StrictOrder(T, R)
    BY <1>1, StableOrders
  <2> QED
    BY <1>2, <2>1, InOrderLists
<1>5. \A x, y \in T : <<x, y>> \in R <=> <<x, y>> \in ahead \/ (x < y /\ <<y, x>> \notin ahead)
  BY DEF Stable
<1> HIDE DEF f, R, r
<1>6. /\ f \in [T -> T]
      /\ \A x \in T : \E n \in T : f[n] = x
      /\ \A m, n \in T : m < n <=> <<f[m], f[n]>> \in R
      /\ \A m, n \in T : f[m] = f[n] => m = n
  BY <1>2, <1>4 DEF Enumerates
<1>7. ASSUME NEW m \in T, NEW n \in T, m < n PROVE <<f[n], f[m]>> \notin ahead
  <2>1. f[m] \in T /\ f[n] \in T /\ <<f[m], f[n]>> \in R
    BY <1>6, <1>7
  <2>2. <<f[m], f[n]>> \in ahead \/ <<f[n], f[m]>> \notin ahead
    BY <1>5, <2>1
  <2> QED
    BY <1>1, <2>1, <2>2 DEF WeakOrder
<1>8. ASSUME NEW m \in T, NEW n \in T, <<f[m], f[n]>> \in ahead PROVE m < n
  <2>1. f[m] \in T /\ f[n] \in T
    BY <1>6
  <2> QED
    BY <1>5, <1>6, <1>8, <2>1
<1>9. r \in Seq(X) /\ Len(r) = Len(s) /\ \A n \in T : r[n] = s[f[n]]
  <2>1. \A n \in T : s[f[n]] \in X
    BY <1>1, <1>6
  <2> QED
    BY <1>1, <1>3, <2>1
<1>10. Sorts(r, s, ahead, f)
  BY <1>6, <1>7, <1>8, <1>9 DEF Sorts
<1> QED
  BY <1>1, <1>9, <1>10 DEF r

\* The elements of two lists that are joined.
LEMMA ToSetOfJoined ==
  ASSUME NEW X, NEW s \in Seq(X), NEW t \in Seq(X)
  PROVE  ToSet(s \o t) = ToSet(s) \union ToSet(t)
<1>1. /\ Len(s) \in Nat /\ Len(t) \in Nat /\ DOMAIN s = 1 .. Len(s) /\ DOMAIN t = 1 .. Len(t)
      /\ DOMAIN (s \o t) = 1 .. Len(s) + Len(t)
      /\ \A i \in 1 .. Len(s) + Len(t) : (s \o t)[i] = IF i <= Len(s) THEN s[i] ELSE t[i - Len(s)]
  BY ConcatProperties
<1>2. ASSUME NEW x \in ToSet(s \o t) PROVE x \in ToSet(s) \union ToSet(t)
  <2>1. PICK i \in 1 .. Len(s) + Len(t) : x = (s \o t)[i]
    BY <1>1 DEF ToSet
  <2>2. CASE i <= Len(s)
    <3>1. i \in 1 .. Len(s) /\ x = s[i]
      BY <1>1, <2>1, <2>2
    <3> QED
      BY <1>1, <3>1 DEF ToSet
  <2>3. CASE ~(i <= Len(s))
    <3>1. i - Len(s) \in 1 .. Len(t) /\ x = t[i - Len(s)]
      BY <1>1, <2>1, <2>3
    <3> QED
      BY <1>1, <3>1 DEF ToSet
  <2> QED
    BY <2>2, <2>3
<1>3. ASSUME NEW x \in ToSet(s) PROVE x \in ToSet(s \o t)
  <2>1. PICK i \in 1 .. Len(s) : x = s[i]
    BY <1>1 DEF ToSet
  <2>2. i \in 1 .. Len(s) + Len(t) /\ i <= Len(s)
    BY <1>1
  <2>3. x = (s \o t)[i]
    BY <1>1, <2>1, <2>2
  <2> QED
    BY <1>1, <2>2, <2>3 DEF ToSet
<1>4. ASSUME NEW x \in ToSet(t) PROVE x \in ToSet(s \o t)
  <2>1. PICK i \in 1 .. Len(t) : x = t[i]
    BY <1>1 DEF ToSet
  <2>2. PICK j : j = i + Len(s)
    OBVIOUS
  <2>3. j \in 1 .. Len(s) + Len(t) /\ ~(j <= Len(s)) /\ j - Len(s) = i
    BY <1>1, <2>2
  <2>4. x = (s \o t)[j]
    BY <1>1, <2>1, <2>3
  <2> QED
    BY <1>1, <2>3, <2>4 DEF ToSet
<1> QED
  BY <1>2, <1>3, <1>4

\* An increasing map of 1 .. m onto itself.
LEMMA UpwardsIsIdentity ==
  ASSUME NEW m \in Nat, NEW f \in [1 .. m -> 1 .. m],
         \A i \in 1 .. m : \E n \in 1 .. m : f[n] = i,
         \A k, n \in 1 .. m : k < n => f[k] < f[n]
  PROVE  \A i \in 1 .. m : f[i] = i
<1> DEFINE wrong == {i \in 1 .. m : f[i] # i}
<1> SUFFICES ASSUME wrong # {} PROVE FALSE
  OBVIOUS
<1>1. PICK i \in wrong : \A j \in wrong : i <= j
  <2>1. wrong \subseteq Nat
    OBVIOUS
  <2> HIDE DEF wrong
  <2> QED
    BY <2>1, Least
<1>2. i \in 1 .. m /\ f[i] \in 1 .. m /\ f[i] # i
  OBVIOUS
<1>3. \A j \in 1 .. m : j < i => f[j] = j
  <2> SUFFICES ASSUME NEW j \in 1 .. m, j < i PROVE f[j] = j
    OBVIOUS
  <2>1. ~(i <= j)
    BY <1>2
  <2> QED
    BY <1>1, <2>1
<1> HIDE DEF wrong
<1>4. CASE f[i] < i
  <2>1. f[f[i]] = f[i] /\ f[f[i]] < f[i]
    BY <1>2, <1>3, <1>4
  <2> QED
    BY <1>2, <2>1
<1>5. CASE i < f[i]
  <2>1. PICK n \in 1 .. m : f[n] = i
    BY <1>2
  <2>2. n < i \/ n = i \/ i < n
    BY <1>2
  <2>3. CASE n < i
    BY <1>2, <1>3, <2>1, <2>3
  <2>4. CASE i < n
    <3>1. f[i] < f[n]
      BY <1>2, <2>4
    <3> QED
      BY <1>2, <1>5, <2>1, <3>1
  <2> QED
    BY <1>2, <2>1, <2>2, <2>3, <2>4
<1> QED
  BY <1>2, <1>4, <1>5

\* A sum is that of the numbers before it and the next.
LEMMA SumsStep ==
  ASSUME NEW s \in Seq(Int)
  PROVE  /\ Len(s) \in Nat /\ Sums(s)[0] = 0
         /\ \A i \in 1 .. Len(s) : Sums(s)[i] = Sums(s)[i - 1] + s[i]
         /\ \A i \in 0 .. Len(s) : Sums(s)[i] \in Int
<1> DEFINE n == Len(s)
<1>1. n \in Nat /\ 0 \in Int /\ \A i \in 1 .. n : s[i] \in Int
  OBVIOUS
<1> HIDE DEF n
<1> DEFINE G == [p \in (1 .. n) \X (Int) |-> p[2] + s[p[1]]]
<1>2. \A i \in 1 .. n, x \in Int : x + s[i] \in Int
  BY <1>1
<1>3. G \in [(1 .. n) \X (Int) -> Int]
  <2>1. \A p \in (1 .. n) \X (Int) : p[1] \in 1 .. n /\ p[2] \in Int
    OBVIOUS
  <2> QED
    BY <1>2, <2>1
<1>4. \A i \in 1 .. n, x \in Int : G[<<i, x>>] = x + s[i]
  OBVIOUS
<1> HIDE DEF G
<1>5. PICK f : Solution(f, n, Int, 0, G)
  BY <1>1, <1>3, Solved, Zenon
<1> DEFINE Solves(g) == g = [i \in 0 .. n |-> IF i = 0 THEN 0 ELSE g[i - 1] + s[i]]
           c == CHOOSE g : Solves(g)
<1>6. Solves(f)
  <2>1. \A i \in 1 .. n : G[<<i, f[i - 1]>>] = f[i - 1] + s[i]
    BY <1>4, <1>5 DEF Solution
  <2> QED
    BY <1>1, <1>5, <2>1, FromZero DEF Solution
<1>7. Solves(c)
  BY <1>6, Zenon
<1>8. Sums(s) = c
  BY Zenon DEF Sums, n
<1> HIDE DEF c
<1>9. \A i \in 0 .. n : c[i] = IF i = 0 THEN 0 ELSE c[i - 1] + s[i]
  BY <1>7
<1> HIDE DEF Solves
<1>10. c[0] = 0 /\ \A i \in 1 .. n : c[i] = c[i - 1] + s[i]
  BY <1>1, <1>9, FromZero, Zenon
<1>11. \A i \in 0 .. n : c[i] \in Int
  <2>1. \A i \in 1 .. n : c[i - 1] \in Int => c[i] \in Int
    BY <1>1, <1>2, <1>10
  <2> QED
    BY <1>1, <1>10, <2>1, Stays
<1> QED
  BY <1>1, <1>8, <1>10, <1>11 DEF n

\* Lists are joined one by one.
LEMMA JoinedStep ==
  ASSUME NEW X, NEW lists \in Seq(Seq(X))
  PROVE  \E c : /\ Joined(lists) = c[Len(lists)] /\ Len(lists) \in Nat /\ c[0] = <<>>
                /\ \A i \in 0 .. Len(lists) : c[i] \in Seq(X)
                /\ \A i \in 1 .. Len(lists) : c[i] = c[i - 1] \o lists[i]
<1> DEFINE n == Len(lists)
<1>1. n \in Nat /\ <<>> \in Seq(X) /\ \A i \in 1 .. n : lists[i] \in Seq(X)
  OBVIOUS
<1> HIDE DEF n
<1> DEFINE G == [p \in (1 .. n) \X (Seq(X)) |-> p[2] \o lists[p[1]]]
<1>2. \A i \in 1 .. n, x \in Seq(X) : x \o lists[i] \in Seq(X)
  BY <1>1
<1>3. G \in [(1 .. n) \X (Seq(X)) -> Seq(X)]
  <2>1. \A p \in (1 .. n) \X (Seq(X)) : p[1] \in 1 .. n /\ p[2] \in Seq(X)
    OBVIOUS
  <2> QED
    BY <1>2, <2>1
<1>4. \A i \in 1 .. n, x \in Seq(X) : G[<<i, x>>] = x \o lists[i]
  OBVIOUS
<1> HIDE DEF G
<1>5. PICK f : Solution(f, n, Seq(X), <<>>, G)
  BY <1>1, <1>3, Solved, Zenon
<1> DEFINE Solves(g) == g = [i \in 0 .. n |-> IF i = 0 THEN <<>> ELSE g[i - 1] \o lists[i]]
           c == CHOOSE g : Solves(g)
<1>6. Solves(f)
  <2>1. \A i \in 1 .. n : G[<<i, f[i - 1]>>] = f[i - 1] \o lists[i]
    BY <1>4, <1>5 DEF Solution
  <2> QED
    BY <1>1, <1>5, <2>1, FromZero DEF Solution
<1>7. Solves(c)
  BY <1>6, Zenon
<1>8. Joined(lists) = c[n]
  BY Zenon DEF Joined, n
<1> HIDE DEF c
<1>9. \A i \in 0 .. n : c[i] = IF i = 0 THEN <<>> ELSE c[i - 1] \o lists[i]
  BY <1>7
<1> HIDE DEF Solves
<1>10. c[0] = <<>> /\ \A i \in 1 .. n : c[i] = c[i - 1] \o lists[i]
  BY <1>1, <1>9, FromZero, Zenon
<1>11. \A i \in 0 .. n : c[i] \in Seq(X)
  <2>1. \A i \in 1 .. n : c[i - 1] \in Seq(X) => c[i] \in Seq(X)
    BY <1>1, <1>2, <1>10
  <2> QED
    BY <1>1, <1>10, <2>1, Stays
<1> QED
  BY <1>1, <1>8, <1>10, <1>11 DEF n

\* What is joined has the elements of all the lists.
LEMMA JoinedHasAll ==
  ASSUME NEW X, NEW lists \in Seq(Seq(X))
  PROVE  /\ Joined(lists) \in Seq(X)
         /\ \A x : x \in ToSet(Joined(lists)) <=> \E i \in 1 .. Len(lists) : x \in ToSet(lists[i])
<1>1. PICK c : /\ Joined(lists) = c[Len(lists)] /\ Len(lists) \in Nat /\ c[0] = <<>>
               /\ \A i \in 0 .. Len(lists) : c[i] \in Seq(X)
               /\ \A i \in 1 .. Len(lists) : c[i] = c[i - 1] \o lists[i]
  BY JoinedStep
<1> DEFINE n == Len(lists)
           Has(i) == \A x : x \in ToSet(c[i]) <=> \E j \in 1 .. i : x \in ToSet(lists[j])
           T == {i \in 0 .. n : Has(i)}
<1>2. n \in Nat /\ \A i \in 1 .. n : lists[i] \in Seq(X)
  OBVIOUS
<1>3. 0 \in T
  <2>1. ToSet(<<>>) = {}
    BY DEF ToSet
  <2>2. 1 .. 0 = {} /\ 0 \in 0 .. n
    BY <1>2
  <2> QED
    BY <1>1, <2>1, <2>2
<1>4. ASSUME NEW i \in 0 .. n - 1, i \in T PROVE i + 1 \in T
  <2>1. PICK j \in 1 .. n : j = i + 1 /\ j - 1 = i /\ j \in 0 .. n /\ i \in 0 .. n /\ 1 .. j = (1 .. i) \union {j}
    BY <1>2
  <2>2. c[j] = c[i] \o lists[j] /\ c[i] \in Seq(X) /\ lists[j] \in Seq(X) /\ Has(i)
    BY <1>1, <1>2, <1>4, <2>1
  <2>3. ToSet(c[j]) = ToSet(c[i]) \union ToSet(lists[j])
    BY <2>2, ToSetOfJoined
  <2>4. Has(j)
    BY <2>1, <2>2, <2>3
  <2> QED
    BY <2>1, <2>4
<1> HIDE DEF T
<1>5. \A i \in 0 .. n : i \in T
  BY <1>2, <1>3, <1>4, UpTo
<1>6. n \in 0 .. n
  BY <1>2
<1> QED
  BY <1>1, <1>5, <1>6 DEF T

\* r has the elements of s at the places f, the first with each key.
Firsts(r, s, key, f) ==
  /\ f \in [1 .. Len(r) -> 1 .. Len(s)]
  /\ \A n \in 1 .. Len(r) : r[n] = s[f[n]]
  /\ \A m, n \in 1 .. Len(r) : m < n => f[m] < f[n]
  /\ \A m, n \in 1 .. Len(r) : key[f[m]] = key[f[n]] => m = n
  /\ \A i \in 1 .. Len(s) : \E n \in 1 .. Len(r) : key[f[n]] = key[i] /\ f[n] <= i

\* The first of the elements with the same key: one for each key, the earliest.
LEMMA FirstOfPicks ==
  ASSUME NEW X, NEW s \in Seq(X), NEW key
  PROVE  /\ FirstOf(s, key) \in Seq(X) /\ Len(FirstOf(s, key)) \in Nat
         /\ \E f : Firsts(FirstOf(s, key), s, key, f)
<1> DEFINE r == FirstOf(s, key)
           T == {i \in DOMAIN s : \A j \in 1 .. i - 1 : key[j] # key[i]}
<1>1. Len(s) \in Nat /\ DOMAIN s = 1 .. Len(s) /\ T \subseteq 1 .. Len(s) /\ T \subseteq DOMAIN s
  OBVIOUS
<1>2. r = At(s, T)
  BY DEF FirstOf
<1>3. \A i, j \in T : key[i] = key[j] => i = j
  <2> SUFFICES ASSUME NEW i \in T, NEW j \in T, key[i] = key[j], i # j PROVE FALSE
    OBVIOUS
  <2>1. i \in 1 .. j - 1 \/ j \in 1 .. i - 1
    BY <1>1
  <2> QED
    BY <2>1
<1>4. ASSUME NEW i \in 1 .. Len(s) PROVE \E j \in T : key[j] = key[i] /\ j <= i
  <2> DEFINE same == {j \in 1 .. i : key[j] = key[i]}
  <2>1. same \subseteq Nat /\ i \in same
    BY <1>1
  <2>2. PICK j \in same : \A k \in same : j <= k
    <3> HIDE DEF same
    <3> QED
      BY <2>1, Least
  <2>3. j \in 1 .. Len(s) /\ j <= i /\ key[j] = key[i] /\ j \in 1 .. i
    BY <1>1
  <2>4. ASSUME NEW k \in 1 .. j - 1 PROVE key[k] # key[j]
    <3>1. k \in 1 .. i /\ ~(j <= k)
      BY <1>1, <2>3
    <3> QED
      BY <2>2, <2>3, <3>1
  <2>5. j \in T
    BY <1>1, <2>3, <2>4
  <2> QED
    BY <2>3, <2>5
<1> HIDE DEF T, r
<1>5. r \in Seq(X) /\ Len(r) \in Nat
  BY <1>1, <1>2, AtPicks
<1>6. PICK f : Picks(r, s, T, f)
  BY <1>1, <1>2, AtPicks
<1>7. f \in [1 .. Len(r) -> 1 .. Len(s)] /\ \A n \in 1 .. Len(r) : f[n] \in T
  BY <1>1, <1>6 DEF Picks
<1>8. \A m, n \in 1 .. Len(r) : key[f[m]] = key[f[n]] => m = n
  BY <1>3, <1>6, <1>7 DEF Picks
<1>9. ASSUME NEW i \in 1 .. Len(s) PROVE \E n \in 1 .. Len(r) : key[f[n]] = key[i] /\ f[n] <= i
  <2>1. PICK j \in T : key[j] = key[i] /\ j <= i
    BY <1>4
  <2>2. PICK n \in 1 .. Len(r) : f[n] = j
    BY <1>6 DEF Picks
  <2> QED
    BY <2>1, <2>2
<1>10. Firsts(r, s, key, f)
  BY <1>6, <1>7, <1>8, <1>9 DEF Firsts, Picks
<1> QED
  BY <1>5, <1>10 DEF r

\* A list without repetition is as long as the set of its elements.
LEMMA DistinctLength ==
  ASSUME NEW X, NEW r \in Seq(X), \A m, n \in 1 .. Len(r) : r[m] = r[n] => m = n
  PROVE  IsFiniteSet(ToSet(r)) /\ Cardinality(ToSet(r)) = Len(r)
<1>1. Len(r) \in Nat /\ DOMAIN r = 1 .. Len(r) /\ r \in [1 .. Len(r) -> ToSet(r)]
  BY DEF ToSet
<1>2. r \in Surjection(1 .. Len(r), ToSet(r))
  <2>1. \A x \in ToSet(r) : \E n \in 1 .. Len(r) : r[n] = x
    BY <1>1 DEF ToSet
  <2> QED
    BY <1>1, <2>1, Fun_IsSurj
<1>3. r \in Injection(1 .. Len(r), ToSet(r))
  BY <1>1, Fun_IsInj
<1>4. IsFiniteSet(1 .. Len(r)) /\ Cardinality(1 .. Len(r)) = Len(r)
  <2>1. 1 \in Int /\ Len(r) \in Int
    BY <1>1
  <2>2. IsFiniteSet(1 .. Len(r)) /\ Cardinality(1 .. Len(r)) = IF 1 > Len(r) THEN 0 ELSE Len(r) - 1 + 1
    BY <2>1, FS_Interval
  <2> QED
    BY <1>1, <2>2
<1> QED
  BY <1>2, <1>3, <1>4, FS_Surjection

\* The elements at the first places are the beginning of the list.
LEMMA AtFirst ==
  ASSUME NEW X, NEW s \in Seq(X), NEW m \in 0 .. Len(s)
  PROVE  /\ At(s, 1 .. m) \in Seq(X) /\ Len(At(s, 1 .. m)) = m
         /\ \A i \in 1 .. m : At(s, 1 .. m)[i] = s[i]
<1> DEFINE r == At(s, 1 .. m)
<1>1. Len(s) \in Nat /\ DOMAIN s = 1 .. Len(s) /\ 1 .. m \subseteq DOMAIN s /\ m \in Nat
  OBVIOUS
<1>2. r \in Seq(X) /\ Len(r) \in Nat
  BY <1>1, AtPicks
<1>3. PICK f : Picks(r, s, 1 .. m, f)
  BY <1>1, AtPicks
<1> HIDE DEF r
<1>4. Len(r) = m
  <2>1. 1 \in Int /\ m \in Int
    BY <1>1
  <2>2. Cardinality(1 .. m) = IF 1 > m THEN 0 ELSE m - 1 + 1
    BY <2>1, FS_Interval
  <2> QED
    BY <1>1, <1>3, <2>2 DEF Picks
<1>5. /\ f \in [1 .. m -> 1 .. m] /\ \A i \in 1 .. m : \E n \in 1 .. m : f[n] = i
      /\ \A k, n \in 1 .. m : k < n => f[k] < f[n]
      /\ \A n \in 1 .. m : r[n] = s[f[n]]
  BY <1>3, <1>4 DEF Picks
<1>6. \A i \in 1 .. m : f[i] = i
  BY <1>1, <1>5, UpwardsIsIdentity
<1> QED
  BY <1>2, <1>4, <1>5, <1>6 DEF r

-----------------------------------------------------------------------------
(* The retries of a database call.                                         *)

\* The budget of retries: all that the lemmas know of it.
LEMMA BudgetIsNat == MaxRetries \in Nat
  BY DEF MaxRetries

\* A call makes its attempts up to the first that is final.
LEMMA AttemptsMade ==
  ASSUME NEW p, NEW outcomes
  PROVE  LET n == Attempts(p, outcomes)
         IN /\ n \in 1 .. MaxRetries + 1 /\ Final(p, outcomes, n)
            /\ \A i \in 1 .. n - 1 : ~Final(p, outcomes, i)
<1> DEFINE T == {n \in 1 .. MaxRetries + 1 : Final(p, outcomes, n)}
<1>1. MaxRetries + 1 \in T
  BY BudgetIsNat DEF Final
<1>2. T \subseteq Nat
  BY BudgetIsNat
<1>3. PICK n \in T : \A m \in T : n <= m
  <2> HIDE DEF T
  <2> QED
    BY <1>1, <1>2, Least
<1>4. \A i \in 1 .. n - 1 : ~Final(p, outcomes, i)
  <2>1. SUFFICES ASSUME NEW i \in 1 .. n - 1, Final(p, outcomes, i) PROVE FALSE
    OBVIOUS
  <2>2. n \in 1 .. MaxRetries + 1 /\ MaxRetries \in Nat
    BY BudgetIsNat
  <2>3. i \in 1 .. MaxRetries + 1 /\ ~(n <= i)
    BY <2>2
  <2> QED
    BY <2>1, <2>3, <1>3
<1> QED
  BY <1>3, <1>4 DEF Attempts

\* A commit that can be made again is of an operation that is retried; what is
\* inserted once is not retried, a document or its claim not after a timeout.
LEMMA PoliciesSafe ==
  ASSUME NEW op \in Operations
  PROVE  LET p == PolicyOf(op)
         IN /\ p.effect = "insert" /\ op \notin DOMAIN UploadCalls => ~p.retried
            /\ p.effect = "claim" => ~p.afterTimeout
            /\ p.effect = "insert" /\ op \in DOMAIN UploadCalls => ~p.afterTimeout
<1>1. PICK t \in Tables : op \in DOMAIN t /\ PolicyOf(op) = t[op]
  BY DEF Operations, PolicyOf
<1>2. CASE t = UploadCalls
  BY <1>1, <1>2 DEF UploadCalls, Insert, SetOnce, Read, Policy
<1>3. CASE t = StatusCalls
  BY <1>1, <1>3 DEF StatusCalls, Set, Read, Policy
<1>4. CASE t = ReplacementCalls
  BY <1>1, <1>4 DEF ReplacementCalls, Claim, Set, SetOnce, Policy
<1>5. CASE t = MaintenanceCalls
  BY <1>1, <1>5 DEF MaintenanceCalls, Set, Read, Policy
<1>6. CASE t = TurnCalls
  BY <1>1, <1>6 DEF TurnCalls, Direct, Read, Policy
<1>7. CASE t = SessionCalls
  BY <1>1, <1>7 DEF SessionCalls, Direct, Set, Read, Policy
<1>8. CASE t = FeedbackCalls
  BY <1>1, <1>8 DEF FeedbackCalls, Direct, Read, Policy
<1> QED
  BY <1>1, <1>2, <1>3, <1>4, <1>5, <1>6, <1>7, <1>8 DEF Tables

\* Whatever the outcomes of its attempts, a call inserts nothing twice by itself.
LEMMA CallInsertsOnce ==
  ASSUME NEW op \in Operations, NEW outcomes
  PROVE  InsertsOnce(op, outcomes)
<1> DEFINE p == PolicyOf(op)
           n == Attempts(p, outcomes)
<1>1. n \in 1 .. MaxRetries + 1 /\ \A i \in 1 .. n - 1 : ~Final(p, outcomes, i)
  BY AttemptsMade
<1>2. \A i \in Committed(p, outcomes) \ {n} : i \in 1 .. n - 1 /\ Commits(outcomes[i])
  BY <1>1 DEF Committed
<1>3. \A i \in Committed(p, outcomes) \ {n} :
        p.retried /\ (p.afterTimeout \/ outcomes[i] = "lost")
  BY <1>1, <1>2 DEF Final, Commits
<1> QED
  BY <1>3, PoliciesSafe DEF InsertsOnce

\* An attempt raises what is retried unless it was refused for good.
LEMMA TransientOutcomes ==
  ASSUME NEW o \in Outcomes \ {"ok"}
  PROVE  Transient(Raises(o)) <=> o # "fatal"
<1>1. CASE o \in {"refused", "lost"}
  BY <1>1 DEF Transient, Raises
<1>2. CASE o \in {"timeout", "late"}
  BY <1>2 DEF Transient, Raises
<1>3. CASE o = "fatal"
  BY <1>3 DEF Transient, Raises
<1> QED
  BY <1>1, <1>2, <1>3 DEF Outcomes

\* A call that may be repeated succeeds if one of its attempts would.
LEMMA CallFaultsMasked ==
  ASSUME NEW op \in Operations, NEW outcomes \in [1 .. MaxRetries + 1 -> Outcomes]
  PROVE  FaultsMasked(op, outcomes)
<1> DEFINE p == PolicyOf(op)
           n == Attempts(p, outcomes)
<1> SUFFICES ASSUME p.retried, p.afterTimeout
             PROVE  outcomes[n] = "ok" <=>
                      \E i \in 1 .. MaxRetries + 1 :
                        outcomes[i] = "ok" /\ \A j \in 1 .. i - 1 : outcomes[j] # "fatal"
  BY DEF FaultsMasked, Returns
<1>1. MaxRetries \in Nat
  BY BudgetIsNat
<1>2. n \in 1 .. MaxRetries + 1 /\ Final(p, outcomes, n) /\ \A i \in 1 .. n - 1 : ~Final(p, outcomes, i)
  BY AttemptsMade
<1>3. \A i \in 1 .. MaxRetries + 1 :
        Final(p, outcomes, i) <=> outcomes[i] \in {"ok", "fatal"} \/ i = MaxRetries + 1
  BY TransientOutcomes DEF Final
<1> HIDE DEF p, n
<1>4. ASSUME outcomes[n] = "ok"
      PROVE  \E i \in 1 .. MaxRetries + 1 :
               outcomes[i] = "ok" /\ \A j \in 1 .. i - 1 : outcomes[j] # "fatal"
  <2>1. \A j \in 1 .. n - 1 : j \in 1 .. MaxRetries + 1
    BY <1>1, <1>2
  <2> QED
    BY <1>2, <1>3, <1>4, <2>1
<1>5. ASSUME NEW i \in 1 .. MaxRetries + 1, outcomes[i] = "ok",
             \A j \in 1 .. i - 1 : outcomes[j] # "fatal"
      PROVE  outcomes[n] = "ok"
  <2>1. ~(i \in 1 .. n - 1)
    BY <1>2, <1>3, <1>5
  <2>2. CASE n = i
    BY <2>2, <1>5
  <2>3. CASE n # i
    <3>1. n \in 1 .. i - 1 /\ n # MaxRetries + 1
      BY <2>1, <2>3, <1>1, <1>2
    <3> QED
      BY <3>1, <1>2, <1>3, <1>5
  <2> QED
    BY <2>2, <2>3
<1> QED
  BY <1>4, <1>5

\* What no retry can mend is not retried.
LEMMA PermanentIsFinal ==
  ASSUME NEW e \in Exceptions
  PROVE  PermanentNotRetried(e)
BY DEF PermanentNotRetried, Transient

-----------------------------------------------------------------------------
(* The fields of a retrieval.                                              *)

\* What two layers give is what one of them gives, the first before the second.
LEMMA Laid ==
  ASSUME NEW a, NEW b
  PROVE  /\ DOMAIN Config!Over(a, b) = DOMAIN a \union DOMAIN b
         /\ \A f \in DOMAIN a \union DOMAIN b :
              Config!Over(a, b)[f] = IF f \in DOMAIN a THEN a[f] ELSE b[f]
BY DEF Config!Over

\* The merged layers: an item's nested fields, then the batch's, under the item's top.
LEMMA MergedFields ==
  ASSUME NEW item, NEW batch
  PROVE  LET m == Config!Merge(item, batch)
         IN /\ m.top = item.top
            /\ m.preset = IF item.preset # Config!NoPreset THEN item.preset ELSE batch.preset
            /\ DOMAIN m.nested = DOMAIN item.nested \union DOMAIN batch.top \union DOMAIN batch.nested
            /\ \A f \in DOMAIN m.nested :
                 m.nested[f] = IF f \in DOMAIN item.nested THEN item.nested[f]
                               ELSE IF f \in DOMAIN batch.top THEN batch.top[f] ELSE batch.nested[f]
<1> DEFINE first == Config!FoldLayer(Config!EmptyLayer, batch)
           m == Config!Merge(item, batch)
<1>1. DOMAIN Config!NoFields = {}
  BY DEF Config!NoFields
<1>2. /\ first.top = batch.top
      /\ first.nested = Config!Over(batch.nested, Config!Over(Config!NoFields, Config!NoFields))
      /\ first.preset = batch.preset
  BY DEF Config!FoldLayer, Config!EmptyLayer
<1>3. /\ DOMAIN first.nested = DOMAIN batch.nested
      /\ \A f \in DOMAIN batch.nested : first.nested[f] = batch.nested[f]
  BY <1>1, <1>2, Laid DEF Config!Over
<1>4. /\ m.top = item.top
      /\ m.nested = Config!Over(item.nested, Config!Over(first.top, first.nested))
      /\ m.preset = IF item.preset # Config!NoPreset THEN item.preset ELSE first.preset
  BY DEF Config!FoldLayer, Config!Merge
<1> HIDE DEF first, m
<1>5. DOMAIN m.nested = DOMAIN item.nested \union DOMAIN batch.top \union DOMAIN batch.nested
      /\ \A f \in DOMAIN m.nested :
           m.nested[f] = IF f \in DOMAIN item.nested THEN item.nested[f]
                         ELSE IF f \in DOMAIN batch.top THEN batch.top[f] ELSE batch.nested[f]
  <2>1. PICK rest : rest = Config!Over(first.top, first.nested)
    OBVIOUS
  <2>2. DOMAIN rest = DOMAIN batch.top \union DOMAIN batch.nested
        /\ \A f \in DOMAIN rest :
             rest[f] = IF f \in DOMAIN batch.top THEN batch.top[f] ELSE batch.nested[f]
    BY <1>2, <1>3, <2>1, Laid DEF Config!Over
  <2>3. DOMAIN m.nested = DOMAIN item.nested \union DOMAIN rest
        /\ \A f \in DOMAIN m.nested :
             m.nested[f] = IF f \in DOMAIN item.nested THEN item.nested[f] ELSE rest[f]
    BY <1>4, <2>1, Laid DEF Config!Over
  <2> QED
    BY <2>2, <2>3
<1> QED
  BY <1>2, <1>4, <1>5 DEF m

\* The value that is picked for a field.
LEMMA FieldValue ==
  ASSUME NEW item, NEW batch, NEW env, NEW f
  PROVE  LET preset == IF item.preset # Config!NoPreset THEN item.preset ELSE batch.preset
         IN Config!Pick(f, Config!Merge(item, batch), env)[1] =
              IF f \in DOMAIN item.top THEN item.top[f]
              ELSE IF f \in DOMAIN item.nested THEN item.nested[f]
              ELSE IF f \in DOMAIN batch.top THEN batch.top[f]
              ELSE IF f \in DOMAIN batch.nested THEN batch.nested[f]
              ELSE IF f \in DOMAIN Config!PresetFields(preset) THEN Config!PresetFields(preset)[f]
              ELSE env[f]
<1> DEFINE preset == IF item.preset # Config!NoPreset THEN item.preset ELSE batch.preset
           value == Config!Pick(f, Config!Merge(item, batch), env)[1]
<1>1. PICK m : m = Config!Merge(item, batch)
  OBVIOUS
<1>2. /\ m.top = item.top /\ m.preset = preset
      /\ DOMAIN m.nested = DOMAIN item.nested \union DOMAIN batch.top \union DOMAIN batch.nested
      /\ \A g \in DOMAIN m.nested :
           m.nested[g] = IF g \in DOMAIN item.nested THEN item.nested[g]
                         ELSE IF g \in DOMAIN batch.top THEN batch.top[g] ELSE batch.nested[g]
  BY <1>1, MergedFields
<1>3. value = IF f \in DOMAIN m.top THEN m.top[f]
              ELSE IF f \in DOMAIN m.nested THEN m.nested[f]
              ELSE IF f \in DOMAIN Config!PresetFields(m.preset) THEN Config!PresetFields(m.preset)[f]
              ELSE env[f]
  BY <1>1 DEF Config!Pick
<1> HIDE DEF value, preset
<1>4. value = IF f \in DOMAIN item.top THEN item.top[f]
              ELSE IF f \in DOMAIN item.nested THEN item.nested[f]
              ELSE IF f \in DOMAIN batch.top THEN batch.top[f]
              ELSE IF f \in DOMAIN batch.nested THEN batch.nested[f]
              ELSE IF f \in DOMAIN Config!PresetFields(preset) THEN Config!PresetFields(preset)[f]
              ELSE env[f]
  BY <1>2, <1>3
<1> QED
  BY <1>4 DEF value, preset

\* The value of a field is that of the first place that gives it.
LEMMA FieldFromFirstPlace ==
  ASSUME NEW item, NEW batch, NEW env
  PROVE  Config!LayersRespected(item, batch, env)
<1> SUFFICES ASSUME NEW f \in {"enabled", "strategy"}
             PROVE  LET places == Config!Precedence(item, batch)
                        giving == {i \in DOMAIN places : f \in DOMAIN places[i]}
                        value == Config!Pick(f, Config!Merge(item, batch), env)[1]
                    IN IF giving = {} THEN value = env[f]
                       ELSE value = places[CHOOSE i \in giving : \A j \in giving : i <= j][f]
  BY DEF Config!LayersRespected
<1> DEFINE places == Config!Precedence(item, batch)
           giving == {i \in DOMAIN places : f \in DOMAIN places[i]}
           value == Config!Pick(f, Config!Merge(item, batch), env)[1]
           first == CHOOSE i \in giving : \A j \in giving : i <= j
           preset == IF item.preset # Config!NoPreset THEN item.preset ELSE batch.preset
<1>1. /\ DOMAIN places = 1 .. 5
      /\ places[1] = item.top /\ places[2] = item.nested /\ places[3] = batch.top
      /\ places[4] = batch.nested /\ places[5] = Config!PresetFields(preset)
  BY DEF Config!Precedence
<1>2. value = IF f \in DOMAIN item.top THEN item.top[f]
              ELSE IF f \in DOMAIN item.nested THEN item.nested[f]
              ELSE IF f \in DOMAIN batch.top THEN batch.top[f]
              ELSE IF f \in DOMAIN batch.nested THEN batch.nested[f]
              ELSE IF f \in DOMAIN Config!PresetFields(preset) THEN Config!PresetFields(preset)[f]
              ELSE env[f]
  BY FieldValue
<1> HIDE DEF places, value, preset
<1>3. CASE giving = {}
  <2>1. \A i \in 1 .. 5 : f \notin DOMAIN places[i]
    BY <1>1, <1>3
  <2>2. value = env[f]
    BY <1>1, <1>2, <2>1
  <2> QED
    BY <1>3, <2>2 DEF places, value
<1>4. CASE giving # {}
  <2>1. \E i \in giving : \A j \in giving : i <= j
    <3>1. \E i \in 1 .. 5 : i \in giving /\ \A j \in 1 .. i - 1 : j \notin giving
      <4>1. giving \subseteq {1, 2, 3, 4, 5}
        BY <1>1
      <4> HIDE DEF giving, first
      <4>2. \E i \in {1, 2, 3, 4, 5} : i \in giving
        BY <4>1, <1>4
      <4> QED
        BY <4>2
    <3> QED
      BY <1>1, <3>1
  <2>2. first \in giving /\ \A j \in giving : first <= j
    BY <2>1
  <2>3. /\ first \in 1 .. 5 /\ f \in DOMAIN places[first]
        /\ \A j \in 1 .. 5 : j < first => f \notin DOMAIN places[j]
    BY <2>2, <1>1
  <2> HIDE DEF first
  <2>4. value = places[first][f]
    <3>1. first = 1 \/ first = 2 \/ first = 3 \/ first = 4 \/ first = 5
      BY <2>3
    <3>2. CASE first = 1
      BY <1>1, <1>2, <2>3, <3>2
    <3>3. CASE first = 2
      BY <1>1, <1>2, <2>3, <3>3
    <3>4. CASE first = 3
      BY <1>1, <1>2, <2>3, <3>4
    <3>5. CASE first = 4
      BY <1>1, <1>2, <2>3, <3>5
    <3>6. CASE first = 5
      BY <1>1, <1>2, <2>3, <3>6
    <3> QED
      BY <3>1, <3>2, <3>3, <3>4, <3>5, <3>6
  <2> QED
    BY <1>4, <2>4 DEF places, value, first
<1> QED
  BY <1>3, <1>4 DEF places, value

\* Wherever `enabled` is given, it is given as a boolean.
Switches(item, batch, env) ==
  /\ env.enabled \in BOOLEAN
  /\ \A i \in 1 .. 5 : LET place == Config!Precedence(item, batch)[i]
                      IN "enabled" \in DOMAIN place => place["enabled"] \in BOOLEAN

\* A strategy runs exactly when transformation is wanted and there is one.
LEMMA StrategyRunsWhenWanted ==
  ASSUME NEW item, NEW batch, NEW env, Switches(item, batch, env)
  PROVE  Config!TransformationRuns(item, batch, env)
<1>1. PICK layer : layer = Config!Merge(item, batch)
  OBVIOUS
<1> DEFINE on == Config!Pick("enabled", layer, env)
           how == Config!Pick("strategy", layer, env)
<1>2. (on[2] = "env" => on[1] = env.enabled) /\ (how[2] = "env" => how[1] = env.strategy)
  BY DEF Config!Pick
<1>3. on[1] \in BOOLEAN
  <2>1. PICK preset : preset = IF item.preset # Config!NoPreset THEN item.preset ELSE batch.preset
    OBVIOUS
  <2>2. PICK places : places = Config!Precedence(item, batch)
    OBVIOUS
  <2>3. /\ places[1] = item.top /\ places[2] = item.nested /\ places[3] = batch.top
        /\ places[4] = batch.nested /\ places[5] = Config!PresetFields(preset)
    BY <2>1, <2>2 DEF Config!Precedence
  <2>4. \A i \in 1 .. 5 : "enabled" \in DOMAIN places[i] => places[i]["enabled"] \in BOOLEAN
    BY <2>2 DEF Switches
  <2>5. \A place \in {item.top, item.nested, batch.top, batch.nested, Config!PresetFields(preset)} :
          "enabled" \in DOMAIN place => place["enabled"] \in BOOLEAN
    BY <2>3, <2>4
  <2>6. env["enabled"] \in BOOLEAN
    BY DEF Switches
  <2>7. on[1] = IF "enabled" \in DOMAIN item.top THEN item.top["enabled"]
                ELSE IF "enabled" \in DOMAIN item.nested THEN item.nested["enabled"]
                ELSE IF "enabled" \in DOMAIN batch.top THEN batch.top["enabled"]
                ELSE IF "enabled" \in DOMAIN batch.nested THEN batch.nested["enabled"]
                ELSE IF "enabled" \in DOMAIN Config!PresetFields(preset)
                     THEN Config!PresetFields(preset)["enabled"]
                ELSE env["enabled"]
    BY <1>1, <2>1, FieldValue
  <2> HIDE DEF on
  <2> QED
    BY <2>5, <2>6, <2>7
<1>4. PICK a, b, c, d : a = on[1] /\ b = on[2] /\ c = how[1] /\ d = how[2]
  OBVIOUS
<1>5. /\ Config!TransformationRuns(item, batch, env) <=>
           (Config!RunTransformation(Config!Effective(layer, env), env) <=>
              (IF b # "env" THEN a ELSE d # "env" \/ env.enabled) /\ c # "none")
  BY <1>1, <1>4 DEF Config!TransformationRuns
<1>6. /\ Config!Effective(layer, env).scoped = (b # "env" \/ d # "env")
      /\ Config!Effective(layer, env).transformation = Config!Transformation(on, how, env)
  BY <1>4 DEF Config!Effective
<1> HIDE DEF on, how
<1>7. PICK t : t = Config!Transformation(on, how, env)
  OBVIOUS
<1>8. t.strategy = c /\ (b # "env" \/ d # "env" => (t.apply /\ c # "none" <=>
           (IF b # "env" THEN a ELSE TRUE) /\ c # "none"))
  BY <1>2, <1>3, <1>4, <1>7 DEF Config!Transformation
<1>9. Config!RunTransformation(Config!Effective(layer, env), env) <=>
        IF b # "env" \/ d # "env" THEN t.apply /\ t.strategy # "none"
        ELSE env.enabled /\ env.strategy # "none"
  BY <1>6, <1>7 DEF Config!RunTransformation
<1>10. CASE b # "env"
  BY <1>5, <1>8, <1>9, <1>10
<1>11. CASE b = "env" /\ d # "env"
  BY <1>5, <1>8, <1>9, <1>11
<1>12. CASE b = "env" /\ d = "env"
  BY <1>2, <1>4, <1>5, <1>9, <1>12
<1> QED
  BY <1>10, <1>11, <1>12

-----------------------------------------------------------------------------
(* The history of a turn.                                                  *)

\* The sum of what comes after each place of a sequence.
LEMMA NewerSums ==
  ASSUME NEW m \in Seq(Nat)
  PROVE  LET s == History!Newer(m)
         IN /\ s[Len(m)] = 0
            /\ \A i \in 0 .. Len(m) - 1 : s[i] = m[i + 1] + s[i + 1]
            /\ \A i \in 0 .. Len(m) : s[i] \in Nat
<1> DEFINE n == Len(m)
           s == History!Newer(m)
<1>1. n \in Nat /\ \A i \in 1 .. n : m[i] \in Nat
  OBVIOUS
<1> HIDE DEF n
<1> DEFINE G == [p \in (1 .. n) \X Nat |-> m[n - p[1] + 1] + p[2]]
<1>2. G \in [(1 .. n) \X Nat -> Nat]
  <2>1. \A p \in (1 .. n) \X Nat : p[1] \in 1 .. n /\ p[2] \in Nat /\ n - p[1] + 1 \in 1 .. n
    BY <1>1
  <2> QED
    BY <1>1, <2>1
<1>3. \A i \in 1 .. n, x \in Nat : G[<<i, x>>] = m[n - i + 1] + x
  OBVIOUS
<1> HIDE DEF G
<1>4. PICK f : Computed(f, n, Nat, 0, G)
  <2>1. 0 \in Nat
    OBVIOUS
  <2> QED
    BY <1>1, <1>2, <2>1, Recursion, Zenon
<1> DEFINE Solves(g) == g = [i \in 0 .. n |-> IF i = n THEN 0 ELSE m[i + 1] + g[i + 1]]
           back == [i \in 0 .. n |-> f[n - i]]
<1>y. f \in [0 .. n -> Nat] /\ f[0] = 0 /\ \A i \in 1 .. n : f[i] = G[<<i, f[i - 1]>>]
  BY <1>4 DEF Computed
<1>5. Solves(back)
  <2>1. \A i \in 0 .. n : n - i \in 0 .. n
    BY <1>1
  <2>2. ASSUME NEW i \in 0 .. n PROVE back[i] = IF i = n THEN 0 ELSE m[i + 1] + back[i + 1]
    <3>1. CASE i = n
      BY <1>1, <1>y, <3>1
    <3>2. CASE i # n
      <4>1. n - i \in 1 .. n /\ i + 1 \in 0 .. n /\ n - (i + 1) = n - i - 1 /\ n - (n - i) + 1 = i + 1
            /\ n - i - 1 \in 0 .. n
        BY <1>1, <3>2
      <4>2. f[n - i] = m[i + 1] + f[n - i - 1]
        BY <4>1, <1>3, <1>y
      <4> QED
        BY <3>2, <4>1, <4>2
    <3> QED
      BY <3>1, <3>2
  <2>3. back = [i \in 0 .. n |-> back[i]]
    OBVIOUS
  <2> HIDE DEF back
  <2> QED
    BY <2>2, <2>3
<1>6. s = CHOOSE g : Solves(g)
  BY Zenon DEF History!Newer, n
<1>7. Solves(s)
  BY <1>5, <1>6, Zenon
<1> HIDE DEF s
<1>8. s[n] = 0 /\ \A i \in 0 .. n - 1 : s[i] = m[i + 1] + s[i + 1]
  BY <1>1, <1>7
<1>9. \A i \in 0 .. n : s[i] \in Nat
  <2> DEFINE T == {k \in 0 .. n : s[n - k] \in Nat}
  <2>1. 0 \in T
    BY <1>1, <1>8
  <2>2. ASSUME NEW k \in 0 .. n - 1, k \in T PROVE k + 1 \in T
    <3>1. n - (k + 1) \in 0 .. n - 1 /\ n - (k + 1) + 1 = n - k /\ n - k \in 1 .. n /\ k + 1 \in 0 .. n
      BY <1>1
    <3>2. s[n - (k + 1)] = m[n - k] + s[n - k]
      BY <3>1, <1>8
    <3>3. m[n - k] \in Nat /\ s[n - k] \in Nat
      BY <3>1, <1>1, <2>2
    <3> QED
      BY <3>1, <3>2, <3>3
  <2> HIDE DEF T
  <2>3. \A k \in 0 .. n : k \in T
    BY <1>1, <2>1, <2>2, UpTo
  <2>4. SUFFICES ASSUME NEW i \in 0 .. n PROVE s[i] \in Nat
    OBVIOUS
  <2>5. n - i \in 0 .. n /\ n - (n - i) = i
    BY <1>1
  <2> QED
    BY <2>3, <2>5 DEF T
<1> QED
  BY <1>8, <1>9 DEF n, s

\* The newest n elements of a sequence.
LEMMA NewestElements ==
  ASSUME NEW S, NEW s \in Seq(S), NEW n \in Nat
  PROVE  LET q == History!Newest(s, n)
         IN /\ q \in Seq(S) /\ Len(q) = IF n < Len(s) THEN n ELSE Len(s)
            /\ \A i \in 1 .. Len(q) : q[i] = s[Len(s) - Len(q) + i]
<1> DEFINE k == IF n < Len(s) THEN n ELSE Len(s)
           from == Len(s) - k + 1
           q == SubSeq(s, from, Len(s))
<1>1. Len(s) \in Nat /\ k \in 0 .. Len(s)
  OBVIOUS
<1>2. q = History!Newest(s, n)
  BY DEF History!Newest, History!Min2
<1> HIDE DEF k
<1>3. from \in Int /\ Len(s) \in Int /\ \A i \in from .. Len(s) : s[i] \in S
  BY <1>1
<1> HIDE DEF from
<1>4. /\ q \in Seq(S) /\ Len(q) = IF from <= Len(s) THEN Len(s) - from + 1 ELSE 0
      /\ \A i \in 1 .. Len(s) - from + 1 : q[i] = s[from + i - 1]
  BY <1>3, SubSeqProperties
<1> HIDE DEF q
<1>5. Len(q) = k
  BY <1>1, <1>4 DEF from
<1>6. ASSUME NEW i \in 1 .. Len(q) PROVE q[i] = s[Len(s) - Len(q) + i]
  <2>1. i \in 1 .. Len(s) - from + 1 /\ from + i - 1 = Len(s) - Len(q) + i
    BY <1>1, <1>5 DEF from
  <2> QED
    BY <1>4, <2>1
<1> QED
  BY <1>2, <1>4, <1>5, <1>6 DEF k

\* The newest of the newest are the newest.
LEMMA NewestOfNewest ==
  ASSUME NEW S, NEW s \in Seq(S), NEW n \in Nat, NEW m \in 0 .. n
  PROVE  History!Newest(History!Newest(s, n), m) = History!Newest(s, m)
<1>1. PICK q : q = History!Newest(s, n)
  OBVIOUS
<1>2. /\ q \in Seq(S) /\ Len(q) = IF n < Len(s) THEN n ELSE Len(s)
      /\ \A i \in 1 .. Len(q) : q[i] = s[Len(s) - Len(q) + i]
  BY <1>1, NewestElements
<1>3. PICK a : a = History!Newest(q, m)
  OBVIOUS
<1>4. PICK b : b = History!Newest(s, m)
  OBVIOUS
<1>5. m \in Nat /\ n \in Nat /\ m <= n /\ Len(s) \in Nat /\ Len(q) \in Nat
  BY <1>2
<1>6. /\ a \in Seq(S) /\ Len(a) = IF m < Len(q) THEN m ELSE Len(q)
      /\ \A i \in 1 .. Len(a) : a[i] = q[Len(q) - Len(a) + i]
  BY <1>2, <1>3, <1>5, NewestElements
<1>7. /\ b \in Seq(S) /\ Len(b) = IF m < Len(s) THEN m ELSE Len(s)
      /\ \A i \in 1 .. Len(b) : b[i] = s[Len(s) - Len(b) + i]
  BY <1>4, <1>5, NewestElements
<1>8. Len(a) = Len(b) /\ Len(a) <= Len(q) /\ Len(q) <= Len(s) /\ Len(a) \in Nat
  BY <1>2, <1>5, <1>6, <1>7
<1>9. ASSUME NEW i \in 1 .. Len(a) PROVE a[i] = b[i]
  <2>1. Len(q) - Len(a) + i \in 1 .. Len(q)
        /\ Len(s) - Len(q) + (Len(q) - Len(a) + i) = Len(s) - Len(b) + i
    BY <1>5, <1>8
  <2> QED
    BY <1>2, <1>6, <1>7, <1>8, <2>1
<1> QED
  BY <1>3, <1>4, <1>1, <1>6, <1>7, <1>8, <1>9, SeqEqual

\* MAX_HISTORY_WINDOW: all that the lemmas know of it.
LEMMA MaxWindowIsNat == History!MaxWindow \in Nat
  BY DEF History!MaxWindow

\* A window is in its bounds, and what is loaded is enough for it.
LEMMA WindowsInBounds ==
  ASSUME NEW field \in {History!Unset} \union 0 .. History!MaxWindow, NEW env \in Int
  PROVE  History!Window(field, env) \in 0 .. History!MaxWindow
BY MaxWindowIsNat DEF History!Window, History!Clamped, History!Unset, History!Max2, History!Min2

\* What is loaded reaches as far back as both windows.
LEMMA LoadedEnough ==
  ASSUME NEW r \in 0 .. History!MaxWindow, NEW g \in 0 .. History!MaxWindow, NEW floor \in Int
  PROVE  LET limit == History!LoadLimit(r, g, floor)
         IN limit \in Nat /\ r <= limit /\ g <= limit
BY MaxWindowIsNat DEF History!LoadLimit, History!Max2, History!Min2

\* A slice of what was loaded is a slice of the session.
LEMMA SliceOfLoaded ==
  ASSUME NEW S, NEW s \in Seq(S), NEW limit \in Nat, NEW w \in 0 .. limit
  PROVE  History!Slice(History!Newest(s, limit), w) = History!Newest(s, w)
<1>1. PICK q : q = History!Newest(s, limit)
  OBVIOUS
<1>2. q \in Seq(S) /\ Len(q) = IF limit < Len(s) THEN limit ELSE Len(s)
  BY <1>1, NewestElements
<1>3. w \in Nat /\ w <= limit /\ Len(s) \in Nat /\ Len(q) \in Nat
  BY <1>2
<1>4. PICK b : b = History!Newest(s, w)
  OBVIOUS
<1>5. b \in Seq(S) /\ Len(b) = IF w < Len(s) THEN w ELSE Len(s)
  BY <1>3, <1>4, NewestElements
<1>6. CASE Len(q) = 0 \/ w <= 0
  <2>1. Len(b) = 0
    BY <1>2, <1>3, <1>5, <1>6
  <2>2. b = <<>>
    BY <1>5, <2>1
  <2> QED
    BY <1>1, <1>4, <1>6, <2>2 DEF History!Slice
<1>7. CASE ~(Len(q) = 0 \/ w <= 0)
  <2>1. History!Newest(q, w) = b
    BY <1>1, <1>3, <1>4, NewestOfNewest
  <2> QED
    BY <1>1, <1>4, <1>7, <2>1 DEF History!Slice
<1> QED
  BY <1>6, <1>7

\* The windows count from the end of the session, whatever was loaded.
LEMMA WindowsCountFromNewest ==
  ASSUME NEW t, NEW S, t.session \in Seq(S), t.env \in Int, t.floor \in Int,
         t.item \in {History!Unset} \union 0 .. History!MaxWindow,
         t.batch \in {History!Unset} \union 0 .. History!MaxWindow
  PROVE  History!WindowsHonoured(t)
<1>1. PICK retrieval : retrieval = History!Window(History!MergeField(t.item, t.batch), t.env)
  OBVIOUS
<1>2. PICK generation : generation = History!Window(History!Unset, t.env)
  OBVIOUS
<1>3. retrieval \in 0 .. History!MaxWindow /\ generation \in 0 .. History!MaxWindow
  <2>1. History!MergeField(t.item, t.batch) \in {History!Unset} \union 0 .. History!MaxWindow
    BY DEF History!MergeField
  <2> QED
    BY <1>1, <1>2, <2>1, WindowsInBounds
<1>4. PICK limit : limit = History!LoadLimit(retrieval, generation, t.floor)
  OBVIOUS
<1>5. limit \in Nat /\ retrieval \in 0 .. limit /\ generation \in 0 .. limit
  <2>1. limit \in Nat /\ retrieval <= limit /\ generation <= limit
    BY <1>3, <1>4, LoadedEnough
  <2> QED
    BY <1>3, <2>1, MaxWindowIsNat
<1>6. PICK loaded : loaded = History!Newest(t.session, limit)
  OBVIOUS
<1>7. History!Loaded(t) = loaded
  BY <1>1, <1>2, <1>4, <1>6 DEF History!Loaded
<1>8. /\ History!Slice(loaded, retrieval) = History!Newest(t.session, retrieval)
      /\ History!Slice(loaded, generation) = History!Newest(t.session, generation)
  BY <1>5, <1>6, SliceOfLoaded
<1>9. PICK plan : plan = History!Prepare(loaded, retrieval, generation, History!Unset, "gated", TRUE)
  OBVIOUS
<1>10. plan.transform = History!Slice(loaded, retrieval)
       /\ plan.generation = History!Slice(loaded, generation)
  BY <1>9 DEF History!Prepare, History!Trim
<1> QED
  BY <1>1, <1>2, <1>7, <1>8, <1>9, <1>10 DEF History!WindowsHonoured

\* Who opts out is never resolved.
LEMMA OptOutIsHeard ==
  ASSUME NEW skip \in BOOLEAN, NEW aware, NEW envAware, NEW transformation, NEW session
  PROVE  History!OptOutHolds(skip, aware, envAware, transformation, session)
<1>1. skip \/ aware = "no" => History!Policy(skip, aware, envAware, transformation) = "never"
  BY DEF History!Policy
<1>2. ASSUME NEW r, NEW g, NEW max, NEW gen
      PROVE  History!Prepare(session, r, g, max, "never", gen).transform = <<>>
  BY DEF History!Prepare
<1> QED
  BY <1>1, <1>2 DEF History!OptOutHolds

\* What comes after a place is no more than what comes after an earlier one.
LEMMA NewerFalls ==
  ASSUME NEW m \in Seq(Nat), NEW i \in 0 .. Len(m), NEW j \in 0 .. Len(m), i <= j
  PROVE  History!Newer(m)[i] >= History!Newer(m)[j]
<1>1. PICK s : s = History!Newer(m)
  OBVIOUS
<1>2. /\ \A k \in 0 .. Len(m) - 1 : s[k] = m[k + 1] + s[k + 1]
      /\ \A k \in 0 .. Len(m) : s[k] \in Nat
  BY <1>1, NewerSums
<1>3. Len(m) \in Nat /\ \A k \in 1 .. Len(m) : m[k] \in Nat
  OBVIOUS
<1> DEFINE T == {k \in 0 .. j : s[j - k] >= s[j]}
<1>4. 0 \in T
  BY <1>2
<1>5. ASSUME NEW k \in 0 .. j - 1, k \in T PROVE k + 1 \in T
  <2>1. /\ k + 1 \in 0 .. j /\ j - (k + 1) \in 0 .. Len(m) - 1 /\ j - (k + 1) + 1 = j - k
        /\ j - k \in 1 .. Len(m) /\ j - k \in 0 .. Len(m) /\ j - (k + 1) \in 0 .. Len(m)
    BY <1>3
  <2>2. s[j - (k + 1)] = m[j - k] + s[j - k] /\ m[j - k] \in Nat /\ s[j - k] \in Nat /\ s[j] \in Nat
    BY <1>2, <1>3, <2>1
  <2>3. s[j - k] >= s[j]
    BY <1>5
  <2>4. s[j - (k + 1)] >= s[j]
    BY <2>2, <2>3
  <2> QED
    BY <2>1, <2>4
<1> HIDE DEF T
<1>6. \A k \in 0 .. j : k \in T
  <2>1. j \in Nat
    BY <1>3
  <2> QED
    BY <1>4, <1>5, <2>1, UpTo
<1>7. j - i \in 0 .. j /\ j - (j - i) = i
  OBVIOUS
<1> QED
  BY <1>1, <1>6, <1>7 DEF T

\* Sequences that agree after their first places agree in their sums.
LEMMA NewerOfTail ==
  ASSUME NEW m \in Seq(Nat), NEW q \in Seq(Nat), NEW d \in Nat, Len(q) + d = Len(m), Len(q) # 0,
         \A i \in 2 .. Len(q) : q[i] = m[d + i]
  PROVE  History!Newer(q)[1] = History!Newer(m)[d + 1]
<1>1. PICK s : s = History!Newer(m)
  OBVIOUS
<1>2. PICK r : r = History!Newer(q)
  OBVIOUS
<1>3. s[Len(m)] = 0 /\ \A k \in 0 .. Len(m) - 1 : s[k] = m[k + 1] + s[k + 1]
  BY <1>1, NewerSums
<1>4. r[Len(q)] = 0 /\ \A k \in 0 .. Len(q) - 1 : r[k] = q[k + 1] + r[k + 1]
  BY <1>2, NewerSums
<1>5. Len(m) \in Nat /\ Len(q) \in Nat
  OBVIOUS
<1> DEFINE n == Len(q) - 1
           T == {k \in 0 .. n : r[Len(q) - k] = s[Len(m) - k]}
<1>6. n \in Nat
  BY <1>5
<1>7. 0 \in T
  BY <1>3, <1>4, <1>5
<1>8. ASSUME NEW k \in 0 .. n - 1, k \in T PROVE k + 1 \in T
  <2>1. /\ k + 1 \in 0 .. n /\ Len(q) - (k + 1) \in 0 .. Len(q) - 1
        /\ Len(m) - (k + 1) \in 0 .. Len(m) - 1
        /\ Len(q) - (k + 1) + 1 = Len(q) - k /\ Len(m) - (k + 1) + 1 = Len(m) - k
        /\ Len(q) - k \in 2 .. Len(q) /\ d + (Len(q) - k) = Len(m) - k
    BY <1>5
  <2>2. r[Len(q) - (k + 1)] = q[Len(q) - k] + r[Len(q) - k]
    BY <1>4, <2>1
  <2>3. s[Len(m) - (k + 1)] = m[Len(m) - k] + s[Len(m) - k]
    BY <1>3, <2>1
  <2>4. q[Len(q) - k] = m[Len(m) - k]
    BY <2>1
  <2>5. r[Len(q) - k] = s[Len(m) - k]
    BY <1>8
  <2> QED
    BY <2>1, <2>2, <2>3, <2>4, <2>5
<1> HIDE DEF T
<1>9. \A k \in 0 .. n : k \in T
  BY <1>6, <1>7, <1>8, UpTo
<1>10. n \in 0 .. n /\ Len(q) - n = 1 /\ Len(m) - n = d + 1
  <2>1. n + 1 = Len(q) /\ Len(q) + d = Len(m)
    BY <1>5
  <2> HIDE DEF n
  <2> QED
    BY <1>5, <1>6, <2>1
<1> HIDE DEF n
<1>11. r[1] = s[d + 1]
  BY <1>9, <1>10 DEF T
<1> QED
  BY <1>1, <1>2, <1>11

\* Cardinality is the same operator in the module.
LEMMA SameCardinality == ASSUME NEW T PROVE History!Cardinality(T) = Cardinality(T)
BY DEF History!Cardinality, Cardinality

\* The messages the budget reaches are those from one place on.
LEMMA ReachedFrom ==
  ASSUME NEW m \in Seq(Nat), NEW max \in Nat,
         NEW reached, reached = {i \in DOMAIN m : History!Newer(m)[i] < max}, reached # {}
  PROVE  \E first \in 1 .. Len(m) :
           /\ first = Len(m) - Cardinality(reached) + 1
           /\ History!Newer(m)[first] < max
           /\ first > 1 => History!Newer(m)[first - 1] >= max
<1>1. PICK s : s = History!Newer(m)
  OBVIOUS
<1>2. Len(m) \in Nat /\ DOMAIN m = 1 .. Len(m) /\ \A k \in 0 .. Len(m) : s[k] \in Nat
  BY <1>1, NewerSums
<1>3. reached \subseteq 1 .. Len(m) /\ \A i \in 1 .. Len(m) : i \in reached <=> s[i] < max
  BY <1>1, <1>2
<1>4. PICK first \in reached : \A i \in reached : first <= i
  <2>1. reached \subseteq Nat /\ reached # {}
    BY <1>2, <1>3
  <2> QED
    BY <2>1, Least
<1>5. first \in 1 .. Len(m)
  BY <1>3
<1>6. reached = first .. Len(m)
  <2>1. ASSUME NEW i \in first .. Len(m) PROVE i \in reached
    <3>1. i \in 1 .. Len(m) /\ i \in 0 .. Len(m) /\ first \in 0 .. Len(m) /\ first <= i
      BY <1>2, <1>5
    <3>2. s[first] >= s[i]
      BY <1>1, <3>1, NewerFalls
    <3>3. s[first] < max /\ s[first] \in Nat /\ s[i] \in Nat
      BY <1>2, <1>3, <1>5, <3>1
    <3>4. s[i] < max
      BY <3>2, <3>3
    <3> QED
      BY <1>3, <3>1, <3>4
  <2>2. ASSUME NEW i \in reached PROVE i \in first .. Len(m)
    BY <1>2, <1>3, <1>4, <1>5
  <2> QED
    BY <2>1, <2>2
<1>7. Cardinality(reached) = Len(m) - first + 1
  <2>1. first \in Int /\ Len(m) \in Int /\ ~(first > Len(m))
    BY <1>2, <1>5
  <2> QED
    BY <1>6, <2>1, FS_Interval
<1>8. first = Len(m) - Cardinality(reached) + 1
  BY <1>2, <1>5, <1>7
<1>9. ASSUME first > 1 PROVE s[first - 1] >= max
  <2>1. first - 1 \in 1 .. Len(m) /\ first - 1 \in 0 .. Len(m) /\ ~(first <= first - 1)
    BY <1>2, <1>5, <1>9
  <2>2. ~(s[first - 1] < max) /\ s[first - 1] \in Nat
    BY <1>2, <1>3, <1>4, <2>1
  <2> QED
    BY <2>2
<1> QED
  BY <1>1, <1>3, <1>5, <1>8, <1>9

\* The newest characters fill the budget, and what is cut is said to be.
LEMMA BudgetFilled ==
  ASSUME NEW m \in Seq(Nat), NEW max \in Nat \union {History!Unset}
  PROVE  History!BudgetKeepsNewest(m, max)
<1>1. Len(m) \in Nat /\ DOMAIN m = 1 .. Len(m) /\ \A i \in 1 .. Len(m) : m[i] \in Nat
  OBVIOUS
<1>2. PICK s : s = History!Newer(m)
  OBVIOUS
<1>3. /\ s[Len(m)] = 0 /\ \A k \in 0 .. Len(m) - 1 : s[k] = m[k + 1] + s[k + 1]
      /\ \A k \in 0 .. Len(m) : s[k] \in Nat
  BY <1>2, NewerSums
<1>4. s[0] = History!Total(m) /\ s[0] \in Nat
  BY <1>1, <1>2, <1>3 DEF History!Total
<1>5. CASE max = History!Unset \/ Len(m) = 0
  <2>1. History!Trim(m, max) = [kept |-> m, truncated |-> FALSE]
    BY <1>5 DEF History!Trim
  <2>2. ASSUME Len(m) > 0 PROVE Tail(m) = History!Newest(m, Len(m) - 1)
    <3>1. Tail(m) = SubSeq(m, 2, Len(m))
      BY <2>2, <1>1, TailIsSubSeq
    <3>2. Len(m) - (Len(m) - 1) + 1 = 2 /\ Len(m) - 1 < Len(m)
      BY <1>1
    <3> QED
      BY <3>1, <3>2 DEF History!Newest, History!Min2
  <2>3. max # History!Unset => History!Total(m) = History!Min2(History!Total(m), max)
    <3>1. ASSUME max # History!Unset PROVE s[0] = 0 /\ max \in Nat
      BY <3>1, <1>3, <1>5
    <3> QED
      BY <1>4, <3>1 DEF History!Min2
  <2> QED
    BY <2>1, <2>2, <2>3 DEF History!BudgetKeepsNewest
<1>6. CASE ~(max = History!Unset \/ Len(m) = 0)
  <2>0. max \in Nat /\ Len(m) # 0 /\ m # <<>>
    BY <1>6
  <2>1. PICK reached : reached = {i \in DOMAIN m : s[i] < max}
    OBVIOUS
  <2>2. CASE reached = {}
    <3>1. History!Trim(m, max) = [kept |-> <<>>, truncated |-> TRUE]
      BY <1>2, <1>6, <2>1, <2>2 DEF History!Trim
    <3>2. max = 0
      <4>1. Len(m) \in DOMAIN m /\ ~(s[Len(m)] < max)
        BY <1>1, <2>0, <2>1, <2>2
      <4> QED
        BY <1>3, <2>0, <4>1
    <3>3. History!Total(<<>>) = 0
      <4>1. <<>> \in Seq(Nat) /\ Len(<<>>) = 0
        OBVIOUS
      <4>2. History!Newer(<<>>)[Len(<<>>)] = 0
        BY <4>1, NewerSums
      <4> QED
        BY <4>1, <4>2 DEF History!Total
    <3>4. History!Min2(History!Total(m), max) = 0
      BY <1>4, <3>2 DEF History!Min2
    <3> QED
      BY <3>1, <3>3, <3>4, <2>0 DEF History!BudgetKeepsNewest
  <2>3. CASE reached # {}
    <3>1. PICK first \in 1 .. Len(m) :
            /\ first = Len(m) - Cardinality(reached) + 1 /\ s[first] < max
            /\ first > 1 => s[first - 1] >= max
      BY <1>2, <2>0, <2>1, <2>3, ReachedFrom
    <3>2. PICK cut : cut = History!Min2(m[first], max - s[first])
      OBVIOUS
    <3>3. PICK rest : rest = SubSeq(m, first + 1, Len(m))
      OBVIOUS
    <3>4. PICK kept : kept = <<cut>> \o rest
      OBVIOUS
    <3>5. History!Trim(m, max) = [kept |-> kept, truncated |-> first > 1 \/ cut < m[first]]
      <4>1. reached = {i \in DOMAIN m : History!Newer(m)[i] < max}
        BY <1>2, <2>1
      <4>2. cut = History!Min2(m[first], max - History!Newer(m)[first])
        BY <1>2, <3>2
      <4>3. /\ first = Len(m) - History!Cardinality(reached) + 1
            /\ kept = <<cut>> \o SubSeq(m, first + 1, Len(m))
        BY <3>1, <3>3, <3>4, SameCardinality
      <4> QED
        BY <1>6, <2>3, <4>1, <4>2, <4>3, Zenon DEF History!Trim
    <3>6. /\ m[first] \in Nat /\ s[first] \in Nat /\ s[first - 1] \in Nat
          /\ s[first - 1] = m[first] + s[first]
      <4>1. first - 1 \in 0 .. Len(m) - 1 /\ first - 1 + 1 = first /\ first \in 0 .. Len(m)
            /\ first - 1 \in 0 .. Len(m)
        BY <1>1
      <4> QED
        BY <1>1, <1>3, <4>1
    <3>7. cut \in Nat
      BY <2>0, <3>1, <3>2, <3>6 DEF History!Min2
    <3>8. /\ rest \in Seq(Nat) /\ Len(rest) = Len(m) - first
          /\ \A i \in 1 .. Len(rest) : rest[i] = m[first + i]
      <4>1. first + 1 \in Int /\ Len(m) \in Int /\ \A i \in first + 1 .. Len(m) : m[i] \in Nat
        BY <1>1
      <4>2. /\ rest \in Seq(Nat)
            /\ Len(rest) = IF first + 1 <= Len(m) THEN Len(m) - (first + 1) + 1 ELSE 0
            /\ \A i \in 1 .. Len(m) - (first + 1) + 1 : rest[i] = m[first + 1 + i - 1]
        BY <3>3, <4>1, SubSeqProperties
      <4>3. Len(rest) = Len(m) - first
        <5>0. first \in Nat /\ first <= Len(m) /\ Len(m) \in Nat
          BY <1>1
        <5>1. CASE first + 1 <= Len(m)
          BY <1>1, <4>2, <5>1
        <5>2. CASE ~(first + 1 <= Len(m))
          <6>1. first = Len(m)
            BY <5>0, <5>2
          <6> QED
            BY <1>1, <4>2, <5>2, <6>1
        <5> QED
          BY <5>1, <5>2
      <4>4. ASSUME NEW i \in 1 .. Len(rest) PROVE rest[i] = m[first + i]
        <5>1. i \in 1 .. Len(m) - (first + 1) + 1 /\ first + 1 + i - 1 = first + i
          BY <1>1, <4>3
        <5> QED
          BY <4>2, <5>1
      <4> QED
        BY <4>2, <4>3, <4>4
    <3>9. /\ kept \in Seq(Nat) /\ Len(kept) = Len(m) - first + 1 /\ kept[1] = cut
          /\ \A i \in 2 .. Len(kept) : kept[i] = m[first - 1 + i]
      <4>1. <<cut>> \in Seq(Nat) /\ Len(<<cut>>) = 1 /\ <<cut>>[1] = cut
        BY <3>7
      <4>2. /\ kept \in Seq(Nat) /\ Len(kept) = 1 + Len(rest)
            /\ \A i \in 1 .. 1 + Len(rest) : kept[i] = IF i <= 1 THEN <<cut>>[i] ELSE rest[i - 1]
        BY <3>4, <3>8, <4>1, ConcatProperties
      <4>3. Len(rest) \in Nat /\ Len(kept) = Len(m) - first + 1
        BY <1>1, <3>8, <4>2
      <4>4. kept[1] = cut
        BY <4>1, <4>2, <4>3
      <4>5. ASSUME NEW i \in 2 .. Len(kept) PROVE kept[i] = m[first - 1 + i]
        <5>1. /\ i \in 1 .. 1 + Len(rest) /\ ~(i <= 1) /\ i - 1 \in 1 .. Len(rest)
              /\ first + (i - 1) = first - 1 + i
          BY <1>1, <4>2, <4>3
        <5> QED
          BY <3>8, <4>2, <5>1
      <4> QED
        BY <4>2, <4>3, <4>4, <4>5
    <3>10. History!Total(kept) = cut + s[first]
      <4>1. /\ first - 1 \in Nat /\ Len(kept) + (first - 1) = Len(m)
            /\ Len(kept) # 0 /\ first - 1 + 1 = first
            /\ Len(kept) \in Nat
        BY <1>1, <3>9
      <4>2. History!Newer(kept)[1] = s[first]
        <5>1. PICK d \in Nat : d = first - 1
          BY <4>1
        <5>2. Len(kept) + d = Len(m) /\ d + 1 = first /\ \A i \in 2 .. Len(kept) : kept[i] = m[d + i]
          BY <3>9, <4>1, <5>1
        <5>3. History!Newer(kept)[1] = History!Newer(m)[d + 1]
          BY <3>9, <4>1, <5>2, NewerOfTail
        <5> QED
          BY <1>2, <5>2, <5>3
      <4>3. History!Newer(kept)[0] = kept[1] + History!Newer(kept)[1]
        <5>1. \A k \in 0 .. Len(kept) - 1 :
                History!Newer(kept)[k] = kept[k + 1] + History!Newer(kept)[k + 1]
          BY <3>9, NewerSums
        <5>2. 0 \in 0 .. Len(kept) - 1 /\ 0 + 1 = 1
          BY <4>1
        <5> QED
          BY <5>1, <5>2
      <4> QED
        BY <3>9, <4>2, <4>3 DEF History!Total
    <3>11. History!Total(kept) = History!Min2(History!Total(m), max)
      <4>1. CASE first = 1
        <5>1. s[0] = m[first] + s[first]
          BY <3>6, <4>1
        <5> QED
          BY <1>4, <2>0, <3>1, <3>2, <3>6, <3>10, <5>1 DEF History!Min2
      <4>2. CASE first > 1
        <5>1. s[first - 1] >= max
          BY <3>1, <4>2
        <5>2. s[0] >= s[first - 1]
          <6>1. 0 \in 0 .. Len(m) /\ first - 1 \in 0 .. Len(m) /\ 0 <= first - 1
            BY <1>1
          <6> QED
            BY <1>2, <6>1, NewerFalls
        <5>3. cut = max - s[first]
          BY <2>0, <3>1, <3>2, <3>6, <5>1 DEF History!Min2
        <5> QED
          BY SMTT(30), <1>4, <2>0, <3>6, <3>10, <5>1, <5>2, <5>3 DEF History!Min2
      <4> QED
        BY <4>1, <4>2
    <3>12. Tail(kept) = History!Newest(m, Len(kept) - 1)
      <4>1. Tail(kept) = rest
        <5>1. <<cut>> \in Seq(Nat) /\ kept # <<>>
          BY <3>7, <3>9, <1>1
        <5>2. /\ Tail(kept) \in Seq(Nat) /\ Len(Tail(kept)) = Len(kept) - 1
              /\ \A i \in 1 .. Len(Tail(kept)) : Tail(kept)[i] = kept[i + 1]
          BY <3>9, <5>1, HeadTailProperties
        <5>3. PICK tail : tail = Tail(kept)
          OBVIOUS
        <5>4. Len(tail) = Len(rest) /\ Len(rest) \in Nat
          BY <1>1, <3>8, <3>9, <5>2, <5>3
        <5>5. ASSUME NEW i \in 1 .. Len(tail) PROVE tail[i] = rest[i]
          <6>1. i \in 1 .. Len(rest) /\ i + 1 \in 2 .. Len(kept) /\ first - 1 + (i + 1) = first + i
            BY <1>1, <3>8, <3>9, <5>4
          <6> QED
            BY <3>8, <3>9, <5>2, <5>3, <6>1
        <5> QED
          BY <3>8, <5>2, <5>3, <5>4, <5>5, SeqEqual
      <4>2. /\ Len(kept) - 1 = Len(m) - first /\ Len(m) - (Len(m) - first) + 1 = first + 1
            /\ Len(m) - first < Len(m)
        BY <1>1, <3>9
      <4> QED
        BY <3>3, <4>1, <4>2 DEF History!Newest, History!Min2
    <3>13. first > 1 \/ cut < m[first] <=> kept # m
      <4>1. ASSUME first > 1 PROVE kept # m
        BY <1>1, <3>9, <4>1
      <4>2. ASSUME cut < m[first], kept = m, first = 1 PROVE FALSE
        BY <3>6, <3>7, <3>9, <4>2
      <4>3. ASSUME ~(first > 1 \/ cut < m[first]) PROVE kept = m
        <5>1. first = 1 /\ cut = m[1]
          BY <3>2, <3>6, <3>7, <2>0, <4>3 DEF History!Min2
        <5>2. Len(kept) = Len(m) /\ \A i \in 2 .. Len(kept) : kept[i] = m[i]
          BY <1>1, <3>9, <5>1
        <5>3. \A i \in 1 .. Len(kept) : kept[i] = m[i]
          BY <1>1, <3>9, <5>1, <5>2
        <5> QED
          BY <3>9, <5>2, <5>3, SeqEqual
      <4> QED
        BY <4>1, <4>2, <4>3
    <3> QED
      <4>1. PICK t : t = History!Trim(m, max)
        OBVIOUS
      <4>2. t.kept = kept /\ (t.truncated <=> kept # m)
        <5>1. t.kept = kept /\ t.truncated = (first > 1 \/ cut < m[first])
          BY <3>5, <4>1
        <5> QED
          BY <3>13, <5>1, Zenon
      <4> QED
        BY <3>11, <3>12, <4>1, <4>2 DEF History!BudgetKeepsNewest
  <2> QED
    BY <2>2, <2>3
<1> QED
  BY <1>5, <1>6

-----------------------------------------------------------------------------
(* The queries of a retrieval.                                             *)

\* What Alternatives computes, line by line.
LEMMA AlternativesSteps ==
  ASSUME NEW X, NEW q, NEW answer \in Seq(X)
  PROVE  \E c : /\ Alternatives(q, answer) = c[Len(answer)] /\ c[0] = <<>>
                /\ \A i \in 0 .. Len(answer) : c[i] \in Seq(X)
                /\ \A i \in 1 .. Len(answer) : c[i] = TakeLine(q, c[i - 1], answer[i])
<1> DEFINE n == Len(answer)
<1>1. n \in Nat /\ <<>> \in Seq(X) /\ \A i \in 1 .. n : answer[i] \in X
  OBVIOUS
<1> HIDE DEF n
<1> DEFINE G == [p \in (1 .. n) \X Seq(X) |-> TakeLine(q, p[2], answer[p[1]])]
<1>2. \A a \in Seq(X), line \in X : TakeLine(q, a, line) \in Seq(X)
  BY DEF TakeLine
<1>3. G \in [(1 .. n) \X Seq(X) -> Seq(X)]
  <2>1. \A p \in (1 .. n) \X Seq(X) : p[2] \in Seq(X) /\ answer[p[1]] \in X
    BY <1>1
  <2> QED
    BY <1>2, <2>1
<1>4. \A i \in 1 .. n, a \in Seq(X) : G[<<i, a>>] = TakeLine(q, a, answer[i])
  OBVIOUS
<1> HIDE DEF G
<1>5. PICK f : Solution(f, n, Seq(X), <<>>, G)
  BY <1>1, <1>3, Solved, Zenon
<1> DEFINE Solves(g) == g = [i \in 0 .. n |-> IF i = 0 THEN <<>> ELSE TakeLine(q, g[i - 1], answer[i])]
           c == CHOOSE g : Solves(g)
<1>6. Solves(f)
  <2>1. \A i \in 1 .. n : G[<<i, f[i - 1]>>] = TakeLine(q, f[i - 1], answer[i])
    BY <1>4, <1>5 DEF Solution
  <2> QED
    BY <1>1, <1>5, <2>1, FromZero DEF Solution
<1>7. Solves(c)
  BY <1>6, Zenon
<1>8. Alternatives(q, answer) = c[n]
  BY Zenon DEF Alternatives, n
<1> HIDE DEF c
<1>9. \A i \in 0 .. n : c[i] = IF i = 0 THEN <<>> ELSE TakeLine(q, c[i - 1], answer[i])
  BY <1>7
<1> HIDE DEF Solves
<1>10. c[0] = <<>> /\ \A i \in 1 .. n : c[i] = TakeLine(q, c[i - 1], answer[i])
  BY <1>1, <1>9, FromZero, Zenon
<1>11. \A i \in 0 .. n : c[i] \in Seq(X)
  <2>1. \A i \in 1 .. n : c[i - 1] \in Seq(X) => c[i] \in Seq(X)
    BY <1>1, <1>2, <1>10
  <2> QED
    BY <1>1, <1>10, <2>1, Stays
<1> QED
  BY <1>8, <1>10, <1>11 DEF n

\* What the first i lines of an answer offer beyond the question.
Offers(q, answer, i) == {Key(answer[n]) : n \in {m \in 1 .. i : answer[m] # Blank}} \ {Key(q)}

\* `a` is made of the first i lines: two phrases at most, distinct up to case, all
\* that was offered while there are fewer, each the first of its kind.
Collected(q, answer, i, a) ==
  /\ Len(a) \in 0 .. 2
  /\ \A k \in 1 .. Len(a) : Key(a[k]) \in Offers(q, answer, i)
  /\ \A k, l \in 1 .. Len(a) : Key(a[k]) = Key(a[l]) => k = l
  /\ Len(a) < 2 => Offers(q, answer, i) \subseteq {Key(a[k]) : k \in 1 .. Len(a)}
  /\ \A k \in 1 .. Len(a) :
       \E n \in 1 .. i : /\ answer[n] = a[k]
                         /\ \A m \in 1 .. n - 1 : (answer[m] = Blank \/ Key(answer[m]) \in
                              {Key(q)} \union {Key(a[j]) : j \in 1 .. k - 1})

\* A line is taken or passed over.
LEMMA LineTaken ==
  ASSUME NEW X, NEW q, NEW answer \in Seq(X), NEW i \in 1 .. Len(answer), NEW a \in Seq(X),
         Collected(q, answer, i - 1, a)
  PROVE  Collected(q, answer, i, TakeLine(q, a, answer[i]))
<1>1. /\ Len(answer) \in Nat /\ Len(a) \in 0 .. 2 /\ DOMAIN a = 1 .. Len(a) /\ i - 1 \in Nat
      /\ 1 .. i - 1 \subseteq 1 .. i /\ i \in 1 .. i /\ \A m \in 1 .. i : m = i \/ m \in 1 .. i - 1
  BY DEF Collected
<1>2. Offers(q, answer, i) = Offers(q, answer, i - 1) \union
        (IF answer[i] = Blank \/ Key(answer[i]) = Key(q) THEN {} ELSE {Key(answer[i])})
  BY <1>1 DEF Offers
<1>3. \A k \in 1 .. Len(a) :
       \E n \in 1 .. i : /\ answer[n] = a[k]
                         /\ \A m \in 1 .. n - 1 : (answer[m] = Blank \/ Key(answer[m]) \in
                              {Key(q)} \union {Key(a[j]) : j \in 1 .. k - 1})
  BY <1>1 DEF Collected
<1>4. CASE \/ answer[i] = Blank
           \/ Key(answer[i]) \in {Key(q)} \union {Key(b) : b \in ToSet(a)}
           \/ Len(a) = 2
  <2>1. TakeLine(q, a, answer[i]) = a
    BY <1>4 DEF TakeLine
  <2>2. Len(a) < 2 => Offers(q, answer, i) \subseteq {Key(a[k]) : k \in 1 .. Len(a)}
    BY <1>1, <1>2, <1>4 DEF Collected, ToSet
  <2>3. \A k \in 1 .. Len(a) : Key(a[k]) \in Offers(q, answer, i)
    BY <1>2 DEF Collected
  <2> QED
    BY <1>3, <2>1, <2>2, <2>3 DEF Collected
<1>5. CASE ~ \/ answer[i] = Blank
             \/ Key(answer[i]) \in {Key(q)} \union {Key(b) : b \in ToSet(a)}
             \/ Len(a) = 2
  <2>1. PICK b : b = Append(a, answer[i])
    OBVIOUS
  <2>2. TakeLine(q, a, answer[i]) = b
    BY <1>5, <2>1 DEF TakeLine
  <2>3. PICK s \in Nat : s = Len(a) + 1
    BY <1>1
  <2>4. /\ Len(b) = s /\ b[s] = answer[i] /\ \A k \in 1 .. Len(a) : b[k] = a[k]
    BY <1>1, <2>1, <2>3
  <2>5. /\ s \in 1 .. 2 /\ s \in 1 .. s /\ Len(a) < 2 /\ 1 .. s - 1 = 1 .. Len(a)
        /\ \A k \in 1 .. s : k = s \/ k \in 1 .. Len(a)
        /\ \A k \in 1 .. Len(a) : k \in 1 .. s /\ k # s /\ 1 .. k - 1 \subseteq 1 .. Len(a)
    BY <1>1, <1>5, <2>3
  <2>6. Key(b[s]) = Key(answer[i]) /\ \A k \in 1 .. Len(a) : Key(b[k]) = Key(a[k])
    BY <2>4
  <2>7. \A k \in 1 .. Len(a) : Key(a[k]) # Key(answer[i])
    BY <1>1, <1>5 DEF ToSet
  <2>8. Key(answer[i]) \in Offers(q, answer, i)
    BY <1>2, <1>5
  <2>9. \A k \in 1 .. s : Key(b[k]) \in Offers(q, answer, i)
    BY <1>2, <2>5, <2>6, <2>8 DEF Collected
  <2>10. \A k, l \in 1 .. s : Key(b[k]) = Key(b[l]) => k = l
    BY <2>5, <2>6, <2>7 DEF Collected
  <2>11. Offers(q, answer, i) \subseteq {Key(b[k]) : k \in 1 .. s}
    <3>1. Offers(q, answer, i - 1) \subseteq {Key(a[k]) : k \in 1 .. Len(a)}
      BY <2>5 DEF Collected
    <3>2. {Key(a[k]) : k \in 1 .. Len(a)} \subseteq {Key(b[k]) : k \in 1 .. s}
      BY <2>5, <2>6
    <3>3. Key(answer[i]) \in {Key(b[k]) : k \in 1 .. s}
      BY <2>5, <2>6
    <3> QED
      BY <1>2, <3>1, <3>2, <3>3
  <2>12. \A k \in 1 .. s :
       \E n \in 1 .. i : /\ answer[n] = b[k]
                         /\ \A m \in 1 .. n - 1 : (answer[m] = Blank \/ Key(answer[m]) \in
                              {Key(q)} \union {Key(b[j]) : j \in 1 .. k - 1})
    <3>1. ASSUME NEW k \in 1 .. Len(a)
          PROVE  \E n \in 1 .. i : /\ answer[n] = b[k]
                         /\ \A m \in 1 .. n - 1 : (answer[m] = Blank \/ Key(answer[m]) \in
                              {Key(q)} \union {Key(b[j]) : j \in 1 .. k - 1})
      <4>1. \A j \in 1 .. k - 1 : Key(b[j]) = Key(a[j])
        BY <2>5, <2>6
      <4>2. {Key(b[j]) : j \in 1 .. k - 1} = {Key(a[j]) : j \in 1 .. k - 1}
        BY <4>1
      <4>3. PICK n \in 1 .. i : /\ answer[n] = a[k]
                         /\ \A m \in 1 .. n - 1 : (answer[m] = Blank \/ Key(answer[m]) \in
                              {Key(q)} \union {Key(a[j]) : j \in 1 .. k - 1})
        BY <1>3
      <4> QED
        BY <2>4, <4>2, <4>3
    <3>2. \A m \in 1 .. i - 1 : answer[m] = Blank \/ Key(answer[m]) \in
                              {Key(q)} \union {Key(b[j]) : j \in 1 .. s - 1}
      <4>1. ASSUME NEW m \in 1 .. i - 1, answer[m] # Blank, Key(answer[m]) # Key(q)
            PROVE  Key(answer[m]) \in {Key(b[j]) : j \in 1 .. s - 1}
        <5>1. Key(answer[m]) \in Offers(q, answer, i - 1)
          BY <4>1 DEF Offers
        <5>2. Key(answer[m]) \in {Key(a[k]) : k \in 1 .. Len(a)}
          BY <2>5, <5>1 DEF Collected
        <5> QED
          BY <2>5, <2>6, <5>2
      <4> QED
        BY <4>1
    <3> QED
      BY <1>1, <2>4, <2>5, <3>1, <3>2
  <2> QED
    BY <2>2, <2>4, <2>5, <2>9, <2>10, <2>11, <2>12 DEF Collected
<1> QED
  BY <1>4, <1>5

\* What is collected of a whole answer.
LEMMA AlternativesCollected ==
  ASSUME NEW X, NEW q, NEW answer \in Seq(X)
  PROVE  /\ Alternatives(q, answer) \in Seq(X)
         /\ Collected(q, answer, Len(answer), Alternatives(q, answer))
<1>1. PICK c : /\ Alternatives(q, answer) = c[Len(answer)] /\ c[0] = <<>>
               /\ \A i \in 0 .. Len(answer) : c[i] \in Seq(X)
               /\ \A i \in 1 .. Len(answer) : c[i] = TakeLine(q, c[i - 1], answer[i])
  BY AlternativesSteps
<1> DEFINE n == Len(answer)
           T == {i \in 0 .. n : Collected(q, answer, i, c[i])}
<1>2. n \in Nat
  OBVIOUS
<1>3. 0 \in T
  <2>1. Collected(q, answer, 0, <<>>)
    BY DEF Collected, Offers
  <2> QED
    BY <1>1, <1>2, <2>1
<1>4. ASSUME NEW i \in 0 .. n - 1, i \in T PROVE i + 1 \in T
  <2>1. i + 1 \in 1 .. n /\ i + 1 \in 0 .. n /\ i + 1 - 1 = i /\ i \in 0 .. n
    BY <1>2
  <2>2. c[i + 1] = TakeLine(q, c[i], answer[i + 1]) /\ c[i] \in Seq(X)
    BY <1>1, <2>1
  <2>3. Collected(q, answer, i, c[i])
    BY <1>4
  <2>4. Collected(q, answer, i + 1, c[i + 1])
    <3>1. PICK j \in 1 .. n : j = i + 1
      BY <2>1
    <3>2. j - 1 = i
      BY <1>2, <3>1
    <3>3. Collected(q, answer, j, TakeLine(q, c[i], answer[j]))
      BY <2>2, <2>3, <3>2, LineTaken
    <3> QED
      BY <2>2, <3>1, <3>3
  <2> QED
    BY <2>1, <2>4
<1> HIDE DEF T
<1>5. \A i \in 0 .. n : i \in T
  BY <1>2, <1>3, <1>4, UpTo
<1>6. n \in 0 .. n
  BY <1>2
<1> QED
  BY <1>1, <1>5, <1>6 DEF T

\* The queries of an expansion: the question first, then what was collected.
LEMMA Expanded ==
  ASSUME NEW X, NEW q, NEW answer \in Seq(X)
  PROVE  /\ Len(Expand(q, answer)) = 1 + Len(Alternatives(q, answer))
         /\ Expand(q, answer)[1] = q
         /\ \A i \in 2 .. Len(Expand(q, answer)) : Expand(q, answer)[i] = Alternatives(q, answer)[i - 1]
         /\ DOMAIN Expand(q, answer) = 1 .. Len(Expand(q, answer))
<1>1. PICK a : a = Alternatives(q, answer)
  OBVIOUS
<1>2. PICK Y : Y = X \union {q}
  OBVIOUS
<1>3. a \in Seq(Y) /\ <<q>> \in Seq(Y) /\ Len(<<q>>) = 1 /\ <<q>>[1] = q
  <2>1. a \in Seq(X) /\ X \subseteq Y
    BY <1>1, <1>2, AlternativesCollected
  <2>2. a \in Seq(Y)
    BY <2>1, SeqMonotonic
  <2> QED
    BY <1>2, <2>2
<1>4. PICK e : e = <<q>> \o a
  OBVIOUS
<1>5. /\ e \in Seq(Y) /\ Len(e) = 1 + Len(a)
      /\ \A i \in 1 .. 1 + Len(a) : e[i] = IF i <= 1 THEN <<q>>[i] ELSE a[i - 1]
  BY <1>3, <1>4, ConcatProperties
<1>6. Len(a) \in Nat
  BY <1>3
<1>7. e[1] = q /\ \A i \in 2 .. Len(e) : e[i] = a[i - 1]
  BY <1>3, <1>5, <1>6
<1>8. e = Expand(q, answer) /\ DOMAIN e = 1 .. Len(e)
  BY <1>1, <1>4, <1>5 DEF Expand
<1> QED
  BY <1>1, <1>5, <1>7, <1>8

\* Two keys of what was offered are all that is counted.
LEMMA OffersCounted ==
  ASSUME NEW X, NEW q, NEW answer \in Seq(X), NEW a, Collected(q, answer, Len(answer), a),
         NEW offered, offered = Offers(q, answer, Len(answer))
  PROVE  Len(a) = IF Cardinality(offered) < 2 THEN Cardinality(offered) ELSE 2
<1> DEFINE n == Len(answer)
           f == [i \in 1 .. n |-> Key(answer[i])]
           R == {f[i] : i \in 1 .. n}
<1>1. n \in Nat
  OBVIOUS
<1>2. IsFiniteSet(1 .. n)
  BY <1>1, FS_Interval
<1>3. f \in Surjection(1 .. n, R)
  BY DEF Surjection
<1>4. offered \subseteq R
  BY DEF Offers
<1> HIDE DEF R, f
<1>5. IsFiniteSet(offered) /\ Cardinality(offered) \in Nat
  <2>1. IsFiniteSet(R)
    BY <1>2, <1>3, FS_Surjection
  <2> QED
    BY <1>4, <2>1, FS_Subset, FS_CardinalityType
<1>6. Len(a) \in 0 .. 2
  BY DEF Collected
<1>7. CASE Len(a) = 0
  <2>1. offered = {}
    BY <1>7 DEF Collected
  <2> QED
    BY <1>7, <2>1, FS_EmptySet
<1>8. CASE Len(a) = 1
  <2>1. offered = {Key(a[1])}
    BY <1>8 DEF Collected
  <2>2. Cardinality(offered) = 1
    BY <2>1, FS_Singleton
  <2> QED
    BY <1>8, <2>2
<1>9. CASE Len(a) = 2
  <2>1. PICK k, l : k = Key(a[1]) /\ l = Key(a[2])
    OBVIOUS
  <2>2. k # l /\ k \in offered /\ l \in offered
    <3>1. 1 \in 1 .. Len(a) /\ 2 \in 1 .. Len(a) /\ 1 # 2
      BY <1>9
    <3> QED
      BY <2>1, <3>1 DEF Collected
  <2>3. PICK S : S = {k}
    OBVIOUS
  <2>4. IsFiniteSet(S) /\ Cardinality(S) = 1 /\ l \notin S
    BY <2>2, <2>3, FS_Singleton
  <2>5. Cardinality(S \union {l}) = Cardinality(S) + 1
    BY <2>4, FS_AddElement
  <2>6. S \union {l} \subseteq offered
    BY <2>2, <2>3
  <2>7. Cardinality(S \union {l}) <= Cardinality(offered)
    BY <1>5, <2>6, FS_Subset
  <2>8. Cardinality(offered) >= 2
    BY <1>5, <2>4, <2>5, <2>7
  <2> QED
    BY <1>5, <1>9, <2>8
<1> QED
  BY <1>6, <1>7, <1>8, <1>9

\* No alternative is lost, whatever the LLM answered.
LEMMA AllAlternativesUsed ==
  ASSUME NEW X, NEW answer \in Seq(X)
  PROVE  AlternativesUsed(answer)
<1>1. PICK a : a = Alternatives("q", answer)
  OBVIOUS
<1>2. PICK e : e = Expand("q", answer)
  OBVIOUS
<1>3. a \in Seq(X) /\ Collected("q", answer, Len(answer), a)
  BY <1>1, AlternativesCollected
<1>4. /\ Len(e) = 1 + Len(a) /\ \A i \in 2 .. Len(e) : e[i] = a[i - 1]
  BY <1>1, <1>2, Expanded
<1>5. Key("q") = "q"
  BY DEF Key
<1>6. PICK offered : offered = {Key(line) : line \in ToSet(answer) \ {Blank}} \ {"q"}
  OBVIOUS
<1>7. offered = Offers("q", answer, Len(answer))
  <2>1. DOMAIN answer = 1 .. Len(answer)
    OBVIOUS
  <2> QED
    BY <1>5, <1>6, <2>1 DEF Offers, ToSet
<1>8. Len(a) = IF Cardinality(offered) < 2 THEN Cardinality(offered) ELSE 2
  BY <1>3, <1>7, OffersCounted
<1>9. ASSUME NEW i \in 2 .. Len(e)
      PROVE  \E n \in DOMAIN answer :
               /\ answer[n] = e[i]
               /\ \A m \in 1 .. n - 1 : answer[m] = Blank \/ Key(answer[m]) \in
                    {"q"} \union {Key(e[j]) : j \in 2 .. i - 1}
  <2>1. Len(a) \in Nat /\ i - 1 \in 1 .. Len(a) /\ DOMAIN answer = 1 .. Len(answer)
    BY <1>3, <1>4
  <2>2. PICK n \in 1 .. Len(answer) :
          /\ answer[n] = a[i - 1]
          /\ \A m \in 1 .. n - 1 : (answer[m] = Blank \/ Key(answer[m]) \in
               {"q"} \union {Key(a[j]) : j \in 1 .. i - 1 - 1})
    BY <1>3, <1>5, <2>1 DEF Collected
  <2>3. {Key(a[j]) : j \in 1 .. i - 1 - 1} \subseteq {Key(e[j]) : j \in 2 .. i - 1}
    <3>1. ASSUME NEW j \in 1 .. i - 1 - 1 PROVE Key(a[j]) \in {Key(e[k]) : k \in 2 .. i - 1}
      <4>1. j + 1 \in 2 .. i - 1 /\ j + 1 \in 2 .. Len(e) /\ j + 1 - 1 = j
        BY <1>4, <2>1
      <4>2. e[j + 1] = a[j]
        BY <1>4, <4>1
      <4> QED
        BY <4>1, <4>2
    <3> QED
      BY <3>1
  <2> QED
    BY <1>4, <2>1, <2>2, <2>3
<1> QED
  BY <1>2, <1>4, <1>6, <1>8, <1>9 DEF AlternativesUsed

\* Queries that retrieval can take, the resolved question q first of them unless
\* a rewrite took its place.
FitsQuestion(queries, q, rewritten) ==
  /\ Len(queries) \in 1 .. 3
  /\ \A i, j \in DOMAIN queries : Key(queries[i]) = Key(queries[j]) => i = j
  /\ ~rewritten => queries[1] = q

\* One query is enough.
LEMMA OneFits ==
  ASSUME NEW x, NEW q, NEW rewritten \in BOOLEAN, ~rewritten => x = q
  PROVE  FitsQuestion(<<x>>, q, rewritten)
<1>1. Len(<<x>>) = 1 /\ DOMAIN <<x>> = {1} /\ <<x>>[1] = x
  OBVIOUS
<1> QED
  BY <1>1 DEF FitsQuestion

\* The question and what it steps back to.
LEMMA StepBackFits ==
  ASSUME NEW q, NEW answer, NEW rewritten \in BOOLEAN
  PROVE  FitsQuestion(StepBack(q, answer), q, rewritten)
<1>1. CASE StepBack(q, answer) = <<q>>
  BY <1>1, OneFits, Zenon
<1>2. CASE StepBack(q, answer) # <<q>>
  <2>1. PICK x : x = answer[1]
    OBVIOUS
  <2>2. StepBack(q, answer) = <<q, x>> /\ Key(x) # Key(q)
    BY <1>2, <2>1 DEF StepBack
  <2>3. PICK s : s = <<q, x>>
    OBVIOUS
  <2>4. Len(s) = 2 /\ DOMAIN s = {1, 2} /\ s[1] = q /\ s[2] = x
    BY <2>3
  <2>5. FitsQuestion(s, q, rewritten)
    BY <2>2, <2>4 DEF FitsQuestion
  <2> QED
    BY <2>2, <2>3, <2>5
<1> QED
  BY <1>1, <1>2

\* The question and its alternatives.
LEMMA ExpandFits ==
  ASSUME NEW X, NEW q, NEW answer \in Seq(X), NEW rewritten \in BOOLEAN
  PROVE  FitsQuestion(Expand(q, answer), q, rewritten)
<1>1. PICK a : a = Alternatives(q, answer)
  OBVIOUS
<1>2. a \in Seq(X) /\ Collected(q, answer, Len(answer), a)
  BY <1>1, AlternativesCollected
<1>3. PICK e : e = Expand(q, answer)
  OBVIOUS
<1>4. /\ Len(e) = 1 + Len(a) /\ e[1] = q /\ DOMAIN e = 1 .. Len(e)
      /\ \A i \in 2 .. Len(e) : e[i] = a[i - 1]
  BY <1>1, <1>3, Expanded
<1>5. Len(a) \in 0 .. 2
  BY <1>2 DEF Collected
<1>6. ASSUME NEW i \in DOMAIN e, NEW j \in DOMAIN e, Key(e[i]) = Key(e[j]) PROVE i = j
  <2>1. /\ i = 1 \/ (i \in 2 .. Len(e) /\ i - 1 \in 1 .. Len(a))
        /\ j = 1 \/ (j \in 2 .. Len(e) /\ j - 1 \in 1 .. Len(a))
    BY <1>4, <1>5
  <2>2. \A k \in 1 .. Len(a) : Key(a[k]) # Key(q)
    BY <1>2 DEF Collected, Offers
  <2>3. CASE i = 1 /\ j # 1
    <3>1. e[i] = q /\ e[j] = a[j - 1] /\ j - 1 \in 1 .. Len(a)
      BY <1>4, <2>1, <2>3
    <3> QED
      BY <1>6, <2>2, <3>1
  <2>4. CASE i # 1 /\ j = 1
    <3>1. e[j] = q /\ e[i] = a[i - 1] /\ i - 1 \in 1 .. Len(a)
      BY <1>4, <2>1, <2>4
    <3> QED
      BY <1>6, <2>2, <3>1
  <2>5. CASE i # 1 /\ j # 1
    <3>1. Key(a[i - 1]) = Key(a[j - 1]) /\ i - 1 \in 1 .. Len(a) /\ j - 1 \in 1 .. Len(a)
      BY <1>4, <1>6, <2>1, <2>5
    <3>2. i - 1 = j - 1
      BY <1>2, <3>1 DEF Collected
    <3> QED
      BY <1>4, <1>5, <3>2
  <2> QED
    BY <2>3, <2>4, <2>5
<1>7. Len(e) \in 1 .. 3
  BY <1>4, <1>5
<1>8. FitsQuestion(e, q, rewritten)
  BY <1>4, <1>6, <1>7 DEF FitsQuestion
<1> QED
  BY <1>3, <1>8

\* One to three queries, distinct up to case, made from the resolved question.
LEMMA QueriesAreDistinct ==
  ASSUME NEW X, NEW asked, NEW resolution, NEW apply \in BOOLEAN, NEW answer \in Seq(X),
         NEW strategy \in {"none", "rewrite", "expand", "stepback"}
  PROVE  QueriesDistinct(asked, resolution, apply, strategy, answer)
<1>1. PICK q : q = IF asked THEN Standalone("q", resolution) ELSE "q"
  OBVIOUS
<1>2. PICK t : t = Transform("q", asked, resolution, apply, strategy, answer)
  OBVIOUS
<1>3. PICK rewritten \in BOOLEAN : rewritten <=> apply /\ strategy = "rewrite"
  OBVIOUS
<1>4. t.resolved = q
  BY <1>1, <1>2 DEF Transform
<1>5. FitsQuestion(t.queries, q, rewritten)
  <2>1. CASE ~apply \/ strategy = "none"
    <3>1. t.queries = <<q>>
      BY <1>1, <1>2, <2>1 DEF Transform
    <3> QED
      BY <3>1, OneFits
  <2>2. CASE apply /\ strategy = "rewrite"
    <3>1. t.queries = <<Rewrite(q, answer)>>
      BY <1>1, <1>2, <2>2 DEF Transform
    <3>2. rewritten
      BY <1>3, <2>2
    <3> QED
      BY <3>1, <3>2, OneFits
  <2>3. CASE apply /\ strategy = "expand"
    <3>1. t.queries = Expand(q, answer)
      BY <1>1, <1>2, <2>3 DEF Transform
    <3> QED
      BY <3>1, ExpandFits
  <2>4. CASE apply /\ strategy = "stepback"
    <3>1. t.queries = StepBack(q, answer)
      BY <1>1, <1>2, <2>4 DEF Transform
    <3> QED
      BY <3>1, StepBackFits
  <2> QED
    BY <2>1, <2>2, <2>3, <2>4
<1>6. QueriesDistinct(asked, resolution, apply, strategy, answer) <=>
        /\ Len(t.queries) \in 1 .. 3
        /\ \A i, j \in DOMAIN t.queries : Key(t.queries[i]) = Key(t.queries[j]) => i = j
        /\ strategy # "rewrite" \/ ~apply => t.queries[1] = t.resolved
  BY <1>2 DEF QueriesDistinct
<1> QED
  BY <1>3, <1>4, <1>5, <1>6 DEF FitsQuestion

\* The gate, for every question.
LEMMA GateAlwaysDecides ==
  ASSUME NEW shape, shape.refers \in BOOLEAN, shape.switches \in BOOLEAN, NEW history \in BOOLEAN
  PROVE  GateDecides(shape, history)
<1>1. ASSUME NEW enabled
      PROVE  Asked("gated", shape, history, enabled) <=> Needs(shape, history)
  BY DEF Asked
<1>2. ~history => \A policy \in {"none", "never", "gated", "always"} :
                    ~Asked(policy, shape, history, TRUE)
  BY DEF Asked, Needs
<1> QED
  BY <1>1, <1>2 DEF GateDecides, Needs

\* The trace, for every answer.
LEMMA TraceAlwaysConsistent ==
  ASSUME NEW policy \in {"never", "gated", "always"}, NEW shape, NEW history \in BOOLEAN, NEW resolution,
         shape.refers \in BOOLEAN, shape.switches \in BOOLEAN
  PROVE  TraceConsistent(policy, shape, history, resolution)
<1>1. PICK asked : asked = Asked(policy, shape, history, TRUE)
  OBVIOUS
<1>2. PICK reason : reason = Skipped(policy, shape, history, asked, resolution)
  OBVIOUS
<1>3. CASE policy = "never"
  <2>1. ~asked /\ reason = "disabled"
    BY <1>1, <1>2, <1>3 DEF Asked, Skipped
  <2> QED
    BY <1>1, <1>2, <2>1 DEF TraceConsistent, Applied, Transform
<1>4. CASE policy = "gated" /\ ~history
  <2>1. ~asked /\ reason = "empty_history"
    BY <1>1, <1>2, <1>4 DEF Asked, Skipped, Needs
  <2> QED
    BY <1>1, <1>2, <2>1 DEF TraceConsistent, Applied, Transform
<1>5. CASE policy = "always" /\ ~history
  <2>1. ~asked /\ reason = "empty_history"
    BY <1>1, <1>2, <1>5 DEF Asked, Skipped
  <2> QED
    BY <1>1, <1>2, <2>1 DEF TraceConsistent, Applied, Transform
<1>6. CASE policy # "never" /\ history /\ asked /\ resolution = Failed
  <2>1. reason = "llm_failure"
    BY <1>2, <1>6 DEF Skipped
  <2> QED
    BY <1>1, <1>2, <1>6, <2>1 DEF TraceConsistent, Applied, Transform, Standalone
<1>7. CASE policy # "never" /\ history /\ asked /\ resolution # Failed
  <2>1. reason = "none"
    BY <1>2, <1>7 DEF Skipped
  <2> QED
    BY <1>1, <1>2, <1>7, <2>1 DEF TraceConsistent, Applied
<1>8. CASE policy = "gated" /\ history /\ ~asked
  <2>1. reason \in {"topic_switch", "standalone_question"}
    BY <1>2, <1>8 DEF Skipped
  <2> QED
    BY <1>1, <1>2, <1>8, <2>1 DEF TraceConsistent, Applied, Transform
<1>9. CASE policy = "always" /\ history /\ ~asked
  BY <1>1, <1>9 DEF Asked
<1> QED
  BY <1>3, <1>4, <1>5, <1>6, <1>7, <1>8, <1>9

-----------------------------------------------------------------------------
(* Batches, vectors and pages.                                             *)

\* The list of all places.
Places(n) == [i \in 1 .. n |-> i]

\* Some of the places, as a list.
Listed(places, n, T) ==
  /\ places \in Seq(1 .. n) /\ Len(places) \in Nat
  /\ \A k \in 1 .. Len(places) : places[k] \in T
  /\ \A i \in T : \E k \in 1 .. Len(places) : places[k] = i

\* They are picked from the list of all.
LEMMA PlacesPicked ==
  ASSUME NEW n \in Nat, NEW T, T \subseteq 1 .. n
  PROVE  Listed(At(Places(n), T), n, T)
<1>1. PICK places : places = At(Places(n), T)
  OBVIOUS
<1>2. PICK s : s = Places(n) /\ s \in Seq(1 .. n) /\ DOMAIN s = 1 .. n /\ \A i \in 1 .. n : s[i] = i
  <2>1. PICK s : s = Places(n)
    OBVIOUS
  <2>2. s \in Seq(1 .. n) /\ DOMAIN s = 1 .. n /\ \A i \in 1 .. n : s[i] = i
    BY <2>1 DEF Places
  <2> QED
    BY <2>1, <2>2
<1>3. T \subseteq DOMAIN s /\ places = At(s, T)
  BY <1>1, <1>2
<1>4. /\ places \in Seq(1 .. n) /\ Len(places) \in Nat
      /\ \E f : Picks(places, s, T, f)
  <2>1. /\ At(s, T) \in Seq(1 .. n) /\ Len(At(s, T)) \in Nat
        /\ \E f : Picks(At(s, T), s, T, f)
    BY <1>2, <1>3, AtPicks
  <2> QED
    BY <1>3, <2>1
<1>5. PICK f : Picks(places, s, T, f)
  BY <1>4
<1>6. ASSUME NEW k \in 1 .. Len(places) PROVE f[k] \in T /\ places[k] = f[k]
  <2>1. f[k] \in T /\ places[k] = s[f[k]]
    BY <1>5 DEF Picks
  <2> QED
    BY <1>2, <2>1
<1>7. \A i \in T : \E k \in 1 .. Len(places) : places[k] = i
  BY <1>6, <1>5 DEF Picks
<1> QED
  BY <1>1, <1>4, <1>6, <1>7 DEF Listed

\* chat_service: every item of a batch gets its own answer or its own error.
LEMMA BatchAlwaysAligned ==
  ASSUME NEW X, NEW failed \in Seq(X)
  PROVE  BatchAligned(failed)
<1>1. PICK n, T, served : n = Len(failed) /\ T = {i \in DOMAIN failed : ~failed[i]} /\ served = Served(failed)
  OBVIOUS
<1>2. n \in Nat /\ DOMAIN failed = 1 .. n /\ T \subseteq 1 .. n
  BY <1>1
<1>3. served = At(Places(n), T)
  BY <1>1, <1>2 DEF Served, Places
<1>4. Listed(served, n, T)
  BY <1>2, <1>3, PlacesPicked
<1>5. DOMAIN served = 1 .. Len(served)
  BY <1>4 DEF Listed
<1>6. ASSUME NEW i \in DOMAIN failed PROVE Merged(failed, served)[i] = i
  <2>1. Merged(failed, served)[i]
          = IF failed[i] THEN i ELSE served[CHOOSE k \in DOMAIN served : served[k] = i]
    BY <1>1 DEF Merged
  <2>2. CASE failed[i]
    BY <2>1, <2>2
  <2>3. CASE ~failed[i]
    <3>1. \E k \in DOMAIN served : served[k] = i
      BY <1>1, <1>4, <1>5, <2>3 DEF Listed
    <3>2. served[CHOOSE k \in DOMAIN served : served[k] = i] = i
      BY <3>1, Zenon
    <3> QED
      BY <2>1, <2>3, <3>2
  <2> QED
    BY <2>2, <2>3
<1> QED
  BY <1>1, <1>6 DEF BatchAligned

\* embedding_service: the embeddings of a list are those of its texts, whatever is cached.
LEMMA EmbeddingsOfTexts ==
  ASSUME NEW X, NEW texts \in Seq(X), NEW cached
  PROVE  Embeddings(texts, cached) = texts
<1> DEFINE n == Len(texts)
           T == {i \in DOMAIN texts : texts[i] \notin cached}
           misses == At([i \in DOMAIN texts |-> i], T)
           vectors == [k \in DOMAIN misses |-> texts[misses[k]]]
           e == Embeddings(texts, cached)
<1>1. n \in Nat /\ DOMAIN texts = 1 .. n /\ T \subseteq 1 .. n /\ texts = [i \in DOMAIN texts |-> texts[i]]
  OBVIOUS
<1>2. e = [i \in DOMAIN texts |-> IF texts[i] \in cached THEN texts[i]
                                  ELSE vectors[CHOOSE k \in DOMAIN misses : misses[k] = i]]
  BY DEF Embeddings
<1>3. misses = At(Places(n), T)
  BY <1>1 DEF Places
<1> HIDE DEF n, T, misses, e
<1>4. Listed(misses, n, T)
  BY <1>1, <1>3, PlacesPicked
<1>5. DOMAIN misses = 1 .. Len(misses)
  BY <1>4 DEF Listed
<1>6. ASSUME NEW i \in DOMAIN texts, texts[i] \notin cached
      PROVE  vectors[CHOOSE k \in DOMAIN misses : misses[k] = i] = texts[i]
  <2> DEFINE c == CHOOSE k \in DOMAIN misses : misses[k] = i
  <2>1. \E k \in DOMAIN misses : misses[k] = i
    BY <1>4, <1>5, <1>6 DEF T, Listed
  <2>2. c \in DOMAIN misses /\ misses[c] = i
    BY <2>1, Zenon
  <2> HIDE DEF c
  <2>3. vectors[c] = texts[i]
    BY <2>2
  <2> QED
    BY <2>3 DEF c
<1> HIDE DEF vectors
<1>7. ASSUME NEW i \in DOMAIN texts PROVE e[i] = texts[i]
  <2>1. e[i] = IF texts[i] \in cached THEN texts[i] ELSE vectors[CHOOSE k \in DOMAIN misses : misses[k] = i]
    BY <1>2
  <2>2. CASE texts[i] \in cached
    BY <2>1, <2>2
  <2>3. CASE texts[i] \notin cached
    BY <1>6, <2>1, <2>3, Zenon
  <2> QED
    BY <2>2, <2>3
<1>8. e = [i \in DOMAIN texts |-> texts[i]]
  <2>1. e = [i \in DOMAIN texts |-> e[i]]
    BY <1>2
  <2> QED
    BY <1>7, <2>1
<1> QED
  BY <1>1, <1>8 DEF e

\* embedding_service: batch after batch, the embeddings are those of the texts.
LEMMA AllEmbedded ==
  ASSUME NEW X, NEW texts \in Seq(X), NEW cached
  PROVE  EmbedAll(texts, cached) = texts
<1> DEFINE n == Len(texts)
           P == ProgressBatch
           end(i) == IF i + P - 1 < n THEN i + P - 1 ELSE n
           known(i) == cached \union {texts[j] : j \in 1 .. i - 1}
           Solves(f) == f = [i \in 1 .. n + P |->
                               IF i > n THEN <<>>
                               ELSE Embeddings(SubSeq(texts, i, end(i)), known(i)) \o f[i + P]]
           h == [i \in 1 .. n + P |-> SubSeq(texts, i, n)]
           c == CHOOSE f : Solves(f)
<1>1. n \in Nat /\ P \in Nat /\ P > 0 /\ texts = SubSeq(texts, 1, n)
  BY BatchesAdvance
<1> HIDE DEF n, P
<1>2. ASSUME NEW i \in 1 .. n + P, NEW rest, rest = SubSeq(texts, i + P, n)
      PROVE  (IF i > n THEN <<>> ELSE Embeddings(SubSeq(texts, i, end(i)), known(i)) \o rest) = SubSeq(texts, i, n)
  <2>1. CASE i > n
    BY <1>1, <2>1
  <2>2. CASE ~(i > n)
    <3>1. i \in 1 .. n /\ end(i) \in i .. n
      BY <1>1, <2>2
    <3>2. SubSeq(texts, i, end(i)) \in Seq(X)
      BY <3>1 DEF n
    <3> HIDE DEF known
    <3>3. Embeddings(SubSeq(texts, i, end(i)), known(i)) = SubSeq(texts, i, end(i))
      BY <3>2, EmbeddingsOfTexts
    <3>4. rest = SubSeq(texts, end(i) + 1, n)
      <4>1. CASE i + P - 1 < n
        <5>1. end(i) + 1 = i + P
          BY <1>1, <3>1, <4>1
        <5> QED
          BY <1>2, <5>1
      <4>2. CASE ~(i + P - 1 < n)
        <5>1. end(i) = n /\ i + P > n /\ n + 1 > n /\ i + P \in Int /\ n + 1 \in Int
          BY <1>1, <3>1, <4>2
        <5>2. SubSeq(texts, i + P, n) = <<>> /\ SubSeq(texts, n + 1, n) = <<>>
          BY <1>1, <5>1
        <5> QED
          BY <1>2, <5>1, <5>2
      <4> QED
        BY <4>1, <4>2
    <3>5. SubSeq(texts, i, end(i)) \o SubSeq(texts, end(i) + 1, n) = SubSeq(texts, i, n)
      <4>1. 1 \in 1 .. Len(texts) + 1 /\ i \in 1 .. Len(texts) + 1 /\ end(i) \in i - 1 .. n /\ n \in i - 1 .. Len(texts)
        BY <1>1, <3>1 DEF n
      <4> QED
        BY <1>1, <4>1, ConcatAdjacentSubSeq
    <3> QED
      BY <2>2, <3>3, <3>4, <3>5
  <2> QED
    BY <2>1, <2>2
<1> HIDE DEF end, known
<1>3. Solves(h)
  <2>1. ASSUME NEW i \in 1 .. n + P
        PROVE  h[i] = IF i > n THEN <<>> ELSE Embeddings(SubSeq(texts, i, end(i)), known(i)) \o h[i + P]
    <3>1. CASE i > n
      BY <1>1, <1>2, <3>1
    <3>2. CASE ~(i > n)
      <4>1. i + P \in 1 .. n + P
        BY <1>1, <3>2
      <4>2. h[i + P] = SubSeq(texts, i + P, n) /\ h[i] = SubSeq(texts, i, n)
        BY <4>1
      <4> HIDE DEF h
      <4> QED
        BY <1>2, <4>2
    <3> QED
      BY <3>1, <3>2
  <2>2. h = [i \in 1 .. n + P |-> h[i]]
    OBVIOUS
  <2> HIDE DEF h
  <2> QED
    BY <2>1, <2>2
<1>4. Solves(c)
  BY <1>3, Zenon
<1>5. EmbedAll(texts, cached) = c[1]
  BY Zenon DEF EmbedAll, c, n, P, end, known
<1> HIDE DEF c, h
<1>6. \A i \in 1 .. n + P :
        c[i] = IF i > n THEN <<>> ELSE Embeddings(SubSeq(texts, i, end(i)), known(i)) \o c[i + P]
  BY <1>4
<1> HIDE DEF Solves
<1> DEFINE wrong == {k \in 0 .. n + P - 1 : c[n + P - k] # SubSeq(texts, n + P - k, n)}
<1>7. wrong = {}
  <2> SUFFICES ASSUME wrong # {} PROVE FALSE
    OBVIOUS
  <2>1. PICK k \in wrong : \A j \in wrong : k <= j
    <3>1. wrong \subseteq Nat
      BY <1>1
    <3> HIDE DEF wrong
    <3> QED
      BY <3>1, Least
  <2>2. PICK i : i = n + P - k
    OBVIOUS
  <2>3. i \in 1 .. n + P /\ c[i] # SubSeq(texts, i, n) /\ k \in 0 .. n + P - 1
    BY <1>1, <2>2
  <2>4. CASE i > n
    BY <1>2, <1>6, <2>3, <2>4
  <2>5. CASE ~(i > n)
    <3>1. k - P \in 0 .. n + P - 1 /\ n + P - (k - P) = i + P /\ ~(k <= k - P)
      BY <1>1, <2>2, <2>3, <2>5
    <3>2. k - P \notin wrong
      BY <2>1, <3>1
    <3>3. c[i + P] = SubSeq(texts, i + P, n)
      BY <3>1, <3>2
    <3> HIDE DEF wrong
    <3> QED
      BY <1>2, <1>6, <2>3, <3>3
  <2> QED
    BY <2>4, <2>5
<1>8. c[1] = SubSeq(texts, 1, n)
  <2>1. n + P - 1 \in 0 .. n + P - 1 /\ n + P - (n + P - 1) = 1
    BY <1>1
  <2> QED
    BY <1>7, <2>1
<1> QED
  BY <1>1, <1>5, <1>8

\* ingestion_pipeline: every record has the vector of its own text.
LEMMA VectorsAlwaysMatch ==
  ASSUME NEW X, NEW texts \in Seq(X), NEW cached
  PROVE  VectorsMatch(texts, cached)
BY AllEmbedded DEF VectorsMatch, Records

\* Sums of naturals grow.
LEMMA SumsGrow ==
  ASSUME NEW s \in Seq(Nat)
  PROVE  /\ \A i \in 0 .. Len(s) : Sums(s)[i] \in Nat
         /\ \A i, j \in 0 .. Len(s) : i <= j => Sums(s)[i] <= Sums(s)[j]
<1> DEFINE n == Len(s)
<1>1. n \in Nat /\ s \in Seq(Int) /\ \A i \in 1 .. n : s[i] \in Nat
  OBVIOUS
<1>2. /\ Sums(s)[0] = 0
      /\ \A i \in 1 .. n : Sums(s)[i] = Sums(s)[i - 1] + s[i]
      /\ \A i \in 0 .. n : Sums(s)[i] \in Int
  BY <1>1, SumsStep
<1>3. PICK sum : sum = Sums(s)
  OBVIOUS
<1> DEFINE T == {j \in 0 .. n : sum[j] \in Nat /\ \A i \in 0 .. j : sum[i] <= sum[j]}
<1> HIDE DEF n
<1>4. 0 \in T
  <2>1. 0 \in 0 .. n /\ sum[0] = 0 /\ 0 .. 0 = {0}
    BY <1>1, <1>2, <1>3
  <2> QED
    BY <2>1
<1>5. ASSUME NEW j \in 0 .. n - 1, j \in T PROVE j + 1 \in T
  <2>1. PICK k \in 1 .. n : k = j + 1 /\ k - 1 = j /\ k \in 0 .. n
    BY <1>1
  <2>2. sum[k] = sum[j] + s[k] /\ sum[j] \in Nat /\ s[k] \in Nat /\ \A i \in 0 .. j : sum[i] <= sum[j]
    BY <1>1, <1>2, <1>3, <1>5, <2>1
  <2>3. ASSUME NEW i \in 0 .. k PROVE sum[i] <= sum[k]
    <3>1. CASE i = k
      BY <2>2, <3>1
    <3>2. CASE i # k
      <4>1. i \in 0 .. j /\ i \in 0 .. n
        BY <1>1, <2>1, <3>2
      <4>2. sum[i] <= sum[j] /\ sum[i] \in Int
        BY <1>2, <1>3, <2>2, <4>1
      <4> QED
        BY <2>2, <4>2
    <3> QED
      BY <3>1, <3>2
  <2> QED
    BY <2>1, <2>2, <2>3
<1> HIDE DEF T
<1>6. \A j \in 0 .. n : j \in T
  BY <1>1, <1>4, <1>5, UpTo
<1>7. \A i, j \in 0 .. n : i <= j => sum[i] <= sum[j]
  <2> SUFFICES ASSUME NEW i \in 0 .. n, NEW j \in 0 .. n, i <= j PROVE sum[i] <= sum[j]
    OBVIOUS
  <2>1. j \in T /\ i \in 0 .. j
    BY <1>1, <1>6
  <2> QED
    BY <2>1 DEF T
<1>8. \A j \in 0 .. n : sum[j] \in Nat
  BY <1>6 DEF T
<1> QED
  BY <1>3, <1>7, <1>8 DEF n

\* The largest number of a set that has one.
LEMMA LargestIs ==
  ASSUME NEW S, S \subseteq Int, NEW x \in S, \A y \in S : y <= x
  PROVE  Largest(S) = x
<1> DEFINE c == CHOOSE z \in S : \A y \in S : y <= z
<1>1. c \in S /\ \A y \in S : y <= c
  BY Zenon
<1>2. Largest(S) = c
  BY DEF Largest
<1> HIDE DEF c
<1>3. c <= x /\ x <= c /\ c \in Int /\ x \in Int
  BY <1>1
<1> QED
  BY <1>2, <1>3

\* The place of a page in the text.
Boundary == [page : Nat, from : Nat, to : Nat]

\* What a page that is not blank adds.
NextBoundary(b, page, length) ==
  LET from == IF b = <<>> THEN 0 ELSE b[Len(b)].to + 1
  IN [page |-> page, from |-> from, to |-> from + length]

\* s with x at its end.
Longer(more, X, s, x) ==
  /\ more \in Seq(X) /\ Len(s) \in Nat /\ Len(more) = Len(s) + 1
  /\ \A k \in 1 .. Len(s) : more[k] = s[k]
  /\ more[Len(s) + 1] = x

\* A page more.
LEMMA PageAdded ==
  ASSUME NEW b \in Seq(Boundary), NEW page \in Nat, NEW length \in Nat
  PROVE  /\ AddPage(b, page, length) \in Seq(Boundary)
         /\ length = 0 => AddPage(b, page, length) = b
         /\ length # 0 => Longer(AddPage(b, page, length), Boundary, b, NextBoundary(b, page, length))
<1>1. PICK from : from = IF b = <<>> THEN 0 ELSE b[Len(b)].to + 1
  OBVIOUS
<1>2. from \in Nat /\ Len(b) \in Nat
  <2>1. CASE b = <<>>
    BY <1>1, <2>1
  <2>2. CASE b # <<>>
    <3>1. Len(b) \in 1 .. Len(b)
      BY <2>2
    <3>2. b[Len(b)] \in Boundary
      BY <3>1
    <3> QED
      BY <1>1, <2>2, <3>2 DEF Boundary
  <2> QED
    BY <2>1, <2>2
<1>3. CASE length = 0
  BY <1>2, <1>3 DEF AddPage
<1>4. CASE length # 0
  <2>1. PICK r : r = [page |-> page, from |-> from, to |-> from + length]
    OBVIOUS
  <2>2. r \in Boundary
    BY <1>2, <2>1 DEF Boundary
  <2>3. AddPage(b, page, length) = Append(b, r) /\ r = NextBoundary(b, page, length)
    BY <1>1, <1>4, <2>1 DEF AddPage, Last, NextBoundary
  <2>4. Longer(Append(b, r), Boundary, b, r)
    BY <1>2, <2>2, AppendProperties DEF Longer
  <2> QED
    BY <1>4, <2>3, <2>4 DEF Longer
<1> QED
  BY <1>3, <1>4

\* The boundaries after each page.
LEMMA PagesSteps ==
  ASSUME NEW pages \in Seq(Nat)
  PROVE  \E c : /\ Pages(pages) = c[Len(pages)] /\ Len(pages) \in Nat /\ c[0] = <<>>
                /\ \A i \in 0 .. Len(pages) : c[i] \in Seq(Boundary)
                /\ \A i \in 1 .. Len(pages) : c[i] = AddPage(c[i - 1], i, pages[i])
<1> DEFINE n == Len(pages)
<1>1. n \in Nat /\ <<>> \in Seq(Boundary) /\ \A i \in 1 .. n : i \in Nat /\ pages[i] \in Nat
  OBVIOUS
<1> HIDE DEF n
<1> DEFINE G == [p \in (1 .. n) \X (Seq(Boundary)) |-> AddPage(p[2], p[1], pages[p[1]])]
<1>2. \A i \in 1 .. n, x \in Seq(Boundary) : AddPage(x, i, pages[i]) \in Seq(Boundary)
  BY <1>1, PageAdded
<1>3. G \in [(1 .. n) \X (Seq(Boundary)) -> Seq(Boundary)]
  <2>1. \A p \in (1 .. n) \X (Seq(Boundary)) : p[1] \in 1 .. n /\ p[2] \in Seq(Boundary)
    OBVIOUS
  <2> QED
    BY <1>2, <2>1
<1>4. \A i \in 1 .. n, x \in Seq(Boundary) : G[<<i, x>>] = AddPage(x, i, pages[i])
  OBVIOUS
<1> HIDE DEF G
<1>5. PICK f : Solution(f, n, Seq(Boundary), <<>>, G)
  BY <1>1, <1>3, Solved, Zenon
<1> DEFINE Solves(g) == g = [i \in 0 .. n |-> IF i = 0 THEN <<>> ELSE AddPage(g[i - 1], i, pages[i])]
           c == CHOOSE g : Solves(g)
<1>6. Solves(f)
  <2>1. \A i \in 1 .. n : G[<<i, f[i - 1]>>] = AddPage(f[i - 1], i, pages[i])
    BY <1>4, <1>5 DEF Solution
  <2> QED
    BY <1>1, <1>5, <2>1, FromZero DEF Solution
<1>7. Solves(c)
  BY <1>6, Zenon
<1>8. Pages(pages) = c[n]
  BY Zenon DEF Pages, n
<1> HIDE DEF c
<1>9. \A i \in 0 .. n : c[i] = IF i = 0 THEN <<>> ELSE AddPage(c[i - 1], i, pages[i])
  BY <1>7
<1> HIDE DEF Solves
<1>10. c[0] = <<>> /\ \A i \in 1 .. n : c[i] = AddPage(c[i - 1], i, pages[i])
  BY <1>1, <1>9, FromZero, Zenon
<1>11. \A i \in 0 .. n : c[i] \in Seq(Boundary)
  <2>1. \A i \in 1 .. n : c[i - 1] \in Seq(Boundary) => c[i] \in Seq(Boundary)
    BY <1>1, <1>2, <1>10
  <2> QED
    BY <1>1, <1>10, <2>1, Stays
<1> QED
  BY <1>1, <1>8, <1>10, <1>11 DEF n

\* The boundaries b of the first i pages, of which before says where each begins.
Bounds(b, pages, before, i) ==
  /\ b \in Seq(Boundary)
  /\ \A k \in 1 .. Len(b) : /\ b[k].page \in 1 .. i /\ pages[b[k].page] > 0
                            /\ b[k].from = before[b[k].page - 1]
  /\ \A p \in 1 .. i : pages[p] > 0 => \E k \in 1 .. Len(b) : b[k].page = p
  /\ \A j, k \in 1 .. Len(b) : j < k => b[j].page < b[k].page
  /\ before[i] = IF b = <<>> THEN 0 ELSE b[Len(b)].to + 1

\* extraction_service: the boundaries of all pages are where the pages are.
LEMMA PagesBound ==
  ASSUME NEW pages \in Seq(Nat), NEW before, before[0] = 0,
         \A i \in 0 .. Len(pages) : before[i] \in Nat,
         \A i \in 1 .. Len(pages) :
           before[i] = before[i - 1] + IF pages[i] > 0 THEN pages[i] + 1 ELSE 0
  PROVE  Bounds(Pages(pages), pages, before, Len(pages))
<1>1. PICK c : /\ Pages(pages) = c[Len(pages)] /\ Len(pages) \in Nat /\ c[0] = <<>>
               /\ \A i \in 0 .. Len(pages) : c[i] \in Seq(Boundary)
               /\ \A i \in 1 .. Len(pages) : c[i] = AddPage(c[i - 1], i, pages[i])
  BY PagesSteps
<1> DEFINE n == Len(pages)
           T == {i \in 0 .. n : Bounds(c[i], pages, before, i)}
<1>2. n \in Nat /\ 0 \in 0 .. n /\ \A i \in 1 .. n : pages[i] \in Nat
  OBVIOUS
<1>3. 0 \in T
  <2>1. 0 \in 0 .. n /\ c[0] = <<>> /\ Len(<<>>) = 0 /\ 1 .. 0 = {}
    BY <1>1, <1>2
  <2>2. PICK b : b = <<>>
    OBVIOUS
  <2>3. b \in Seq(Boundary) /\ 1 .. Len(b) = {}
    BY <2>1, <2>2
  <2>4. Bounds(b, pages, before, 0)
    BY <2>1, <2>2, <2>3 DEF Bounds
  <2> QED
    BY <2>1, <2>2, <2>4
<1>4. ASSUME NEW i \in 0 .. n - 1, i \in T PROVE i + 1 \in T
  <2>1. PICK p \in 1 .. n : p = i + 1 /\ p - 1 = i /\ p \in 0 .. n /\ i \in 0 .. n
    BY <1>2
  <2>2. PICK b, more : b = c[i] /\ more = c[p]
    OBVIOUS
  <2>3. b \in Seq(Boundary) /\ more = AddPage(b, p, pages[p]) /\ Bounds(b, pages, before, i)
    BY <1>1, <1>4, <2>1, <2>2
  <2>4. pages[p] \in Nat /\ p \in Nat /\ before[i] \in Nat /\ Len(b) \in Nat
        /\ before[p] = before[i] + IF pages[p] > 0 THEN pages[p] + 1 ELSE 0
    BY <1>2, <2>1, <2>3
  <2>5. CASE pages[p] = 0
    <3>1. more = b /\ before[p] = before[i]
      BY <2>3, <2>4, <2>5 DEF AddPage
    <3>2. ASSUME NEW k \in 1 .. Len(b) PROVE b[k].page \in 1 .. p
      <4>1. b[k].page \in 1 .. i
        BY <2>3 DEF Bounds
      <4> QED
        BY <2>1, <4>1
    <3>3. \A q \in 1 .. p : pages[q] > 0 => \E k \in 1 .. Len(b) : b[k].page = q
      <4> SUFFICES ASSUME NEW q \in 1 .. p, pages[q] > 0 PROVE \E k \in 1 .. Len(b) : b[k].page = q
        OBVIOUS
      <4>1. q \in 1 .. i
        BY <2>1, <2>5
      <4> QED
        BY <2>3, <4>1 DEF Bounds
    <3>4. Bounds(b, pages, before, p)
      BY <2>3, <3>1, <3>2, <3>3 DEF Bounds
    <3> QED
      BY <2>1, <2>2, <3>1, <3>4
  <2>6. CASE pages[p] # 0
    <3>1. PICK from : from = IF b = <<>> THEN 0 ELSE b[Len(b)].to + 1
      OBVIOUS
    <3>2. from = before[i]
      BY <2>3, <3>1 DEF Bounds
    <3>3. PICK m : m = Len(b) + 1
      OBVIOUS
    <3>4. /\ more \in Seq(Boundary) /\ Len(more) = m /\ \A k \in 1 .. Len(b) : more[k] = b[k]
          /\ more[m] = [page |-> p, from |-> from, to |-> from + pages[p]]
      <4>1. Longer(more, Boundary, b, NextBoundary(b, p, pages[p]))
        BY <2>3, <2>4, <2>6, PageAdded
      <4> QED
        BY <3>1, <3>3, <4>1 DEF Longer, NextBoundary
    <3>5. more[m].page = p /\ more[m].from = before[p - 1] /\ more[m].to + 1 = before[p]
      <4>1. before[p] = before[i] + pages[p] + 1
        <5>1. pages[p] > 0
          BY <2>4, <2>6
        <5>2. before[p] = before[i] + (pages[p] + 1)
          BY <2>4, <5>1
        <5>3. PICK u \in Nat, v \in Nat : u = before[i] /\ v = pages[p]
          BY <2>4
        <5>4. u + (v + 1) = u + v + 1
          OBVIOUS
        <5> QED
          BY <5>2, <5>3, <5>4
      <4>2. more[m].page = p /\ more[m].from = from /\ more[m].to = from + pages[p]
        BY <3>4
      <4> QED
        BY <2>1, <2>4, <3>2, <4>1, <4>2
    <3>6. m \in Nat /\ m \in 1 .. m /\ \A k \in 1 .. m : k = m \/ k \in 1 .. Len(b)
      <4>1. PICK l \in Nat : l = Len(b)
        BY <2>4
      <4>2. m = l + 1
        BY <3>3, <4>1
      <4> QED
        BY <4>1, <4>2
    <3>7. ASSUME NEW k \in 1 .. m
          PROVE  more[k].page \in 1 .. p /\ pages[more[k].page] > 0 /\ more[k].from = before[more[k].page - 1]
      <4>1. CASE k = m
        <5>1. p \in 1 .. p /\ pages[p] > 0
          BY <2>4, <2>6
        <5> QED
          BY <3>5, <4>1, <5>1
      <4>2. CASE k \in 1 .. Len(b)
        <5>1. b[k].page \in 1 .. i /\ pages[b[k].page] > 0 /\ b[k].from = before[b[k].page - 1]
          BY <2>3, <4>2 DEF Bounds
        <5>2. b[k].page \in 1 .. p /\ more[k] = b[k]
          BY <2>1, <3>4, <4>2, <5>1
        <5> QED
          BY <5>1, <5>2
      <4> QED
        BY <3>6, <4>1, <4>2
    <3>8. ASSUME NEW q \in 1 .. p, pages[q] > 0 PROVE \E k \in 1 .. m : more[k].page = q
      <4>1. CASE q = p
        BY <3>5, <3>6, <4>1
      <4>2. CASE q # p
        <5>1. q \in 1 .. i
          BY <2>1, <4>2
        <5>2. PICK k \in 1 .. Len(b) : b[k].page = q
          BY <2>3, <3>8, <5>1 DEF Bounds
        <5>3. k \in 1 .. m /\ more[k] = b[k]
          BY <2>4, <3>3, <3>4
        <5> QED
          BY <5>2, <5>3
      <4> QED
        BY <4>1, <4>2
    <3>9. ASSUME NEW j \in 1 .. m, NEW k \in 1 .. m, j < k PROVE more[j].page < more[k].page
      <4>1. j \in 1 .. Len(b) /\ more[j].page = b[j].page /\ b[j].page \in 1 .. i
        <5>1. j \in 1 .. Len(b)
          BY <3>6, <3>9
        <5>2. b[j].page \in 1 .. i
          BY <2>3, <5>1 DEF Bounds
        <5> QED
          BY <3>4, <5>1, <5>2
      <4>2. CASE k = m
        BY <2>1, <3>5, <4>1, <4>2
      <4>3. CASE k \in 1 .. Len(b)
        <5>1. b[j].page < b[k].page /\ more[k] = b[k]
          BY <2>3, <3>4, <3>9, <4>1, <4>3 DEF Bounds
        <5> QED
          BY <4>1, <5>1
      <4> QED
        BY <3>6, <4>2, <4>3
    <3>10. more # <<>> /\ before[p] = more[Len(more)].to + 1
      BY <3>4, <3>5, <3>6
    <3>11. Bounds(more, pages, before, p)
      BY <3>4, <3>7, <3>8, <3>9, <3>10 DEF Bounds
    <3> QED
      BY <2>1, <2>2, <3>11
  <2> QED
    BY <2>4, <2>5, <2>6
<1> HIDE DEF T
<1>5. n \in T
  <2>1. \A i \in 0 .. n : i \in T
    BY <1>2, <1>3, <1>4, UpTo
  <2> QED
    BY <1>2, <2>1
<1> QED
  BY <1>1, <1>5 DEF T

\* extraction_service and ingestion_pipeline: every character of every page is found
\* on its page.
LEMMA PagesAlwaysLineUp ==
  ASSUME NEW pages \in Seq(Nat)
  PROVE  PagesLineUp(pages)
<1> DEFINE n == Len(pages)
           w == [i \in DOMAIN pages |-> IF pages[i] > 0 THEN pages[i] + 1 ELSE 0]
<1>1. PICK b, before : b = Pages(pages) /\ before = Sums(w)
  OBVIOUS
<1>2. n \in Nat /\ DOMAIN pages = 1 .. n /\ \A i \in 1 .. n : pages[i] \in Nat
  OBVIOUS
<1>3. w \in Seq(Nat) /\ Len(w) = n /\ \A i \in 1 .. n : w[i] = IF pages[i] > 0 THEN pages[i] + 1 ELSE 0
  BY <1>2
<1> HIDE DEF n, w
<1>4. /\ before[0] = 0
      /\ \A i \in 1 .. n : before[i] = before[i - 1] + w[i]
      /\ \A i \in 0 .. n : before[i] \in Nat
      /\ \A i, j \in 0 .. n : i <= j => before[i] <= before[j]
  <2>1. w \in Seq(Int)
    BY <1>3
  <2> QED
    BY <1>1, <1>3, <2>1, SumsStep, SumsGrow
<1>5. Bounds(b, pages, before, n)
  <2>1. \A i \in 1 .. n : before[i] = before[i - 1] + IF pages[i] > 0 THEN pages[i] + 1 ELSE 0
    BY <1>3, <1>4
  <2> QED
    BY <1>1, <1>4, <2>1, PagesBound DEF n
<1>6. ASSUME NEW p \in 1 .. n, NEW o \in 0 .. pages[p] - 1 PROVE PageAt(before[p - 1] + o, b) = p
  <2>1. pages[p] \in Nat /\ pages[p] > 0 /\ o \in Nat
    BY <1>2
  <2>2. PICK k \in 1 .. Len(b) : b[k].page = p
    BY <1>5, <2>1 DEF Bounds
  <2>3. /\ before[p - 1] \in Nat /\ before[p] = before[p - 1] + pages[p] + 1
        /\ p - 1 \in 0 .. n /\ p \in 0 .. n
    <3>1. p - 1 \in 0 .. n /\ p \in 0 .. n /\ w[p] = pages[p] + 1
      BY <1>2, <1>3, <2>1
    <3>2. before[p] = before[p - 1] + w[p] /\ before[p - 1] \in Nat
      BY <1>4, <3>1
    <3> QED
      BY <2>1, <3>1, <3>2
  <2> DEFINE near == {i \in DOMAIN b : b[i].from <= before[p - 1] + o}
  <2>4. b \in Seq(Boundary) /\ Len(b) \in Nat /\ DOMAIN b = 1 .. Len(b)
    BY <1>5 DEF Bounds
  <2>5. k \in near
    <3>1. b[k].from = before[p - 1]
      BY <1>5, <2>2 DEF Bounds
    <3> QED
      BY <2>1, <2>3, <2>4, <3>1
  <2>6. ASSUME NEW j \in near PROVE j <= k
    <3> SUFFICES ASSUME k < j PROVE FALSE
      BY <2>4
    <3>1. j \in 1 .. Len(b)
      BY <2>4
    <3>2. PICK q : q = b[j].page
      OBVIOUS
    <3>3. q \in 1 .. n /\ b[j].from = before[q - 1] /\ p < q
      BY <1>5, <2>2, <3>1, <3>2 DEF Bounds
    <3>4. q - 1 \in 0 .. n /\ p <= q - 1
      BY <1>2, <3>3
    <3>5. before[p] <= before[q - 1] /\ before[q - 1] \in Nat
      BY <1>4, <2>3, <3>4
    <3>6. before[q - 1] <= before[p - 1] + o
      BY <3>3
    <3>7. \A x, y, z : x = before[p] /\ y = before[p - 1] /\ z = before[q - 1] => FALSE
      <4> SUFFICES ASSUME NEW x, NEW y, NEW z, x = before[p], y = before[p - 1], z = before[q - 1]
                   PROVE  FALSE
        OBVIOUS
      <4>1. /\ x <= z /\ z <= y + o /\ x = y + pages[p] + 1
            /\ y \in Nat /\ z \in Nat /\ o < pages[p] /\ o \in Nat /\ pages[p] \in Nat
        BY <2>1, <2>3, <3>5, <3>6
      <4> QED
        BY ONLY <4>1, SMTT(30)
    <3> QED
      BY <3>7
  <2>7. near \subseteq Int
    BY <2>4
  <2>8. PageAt(before[p - 1] + o, b) = b[IF near = {} THEN 1 ELSE Largest(near)].page
    BY DEF PageAt
  <2> HIDE DEF near
  <2>9. Largest(near) = k /\ near # {}
    BY <2>5, <2>6, <2>7, LargestIs
  <2> QED
    BY <2>2, <2>8, <2>9
<1> QED
  BY <1>1, <1>2, <1>6 DEF PagesLineUp, w

-----------------------------------------------------------------------------
(* The chunks of a text.                                                   *)

\* A stretch of the text.
AnySpan == [from : Int, to : Int]

\* Every one starts after the one before it.
Rises(s) == \A i \in 2 .. Len(s) : s[i - 1].from < s[i].from

\* Pieces of at most `size` from the beginning of a span to its end, without a gap.
Tiles(r, span, size) ==
  /\ r \in Seq(AnySpan) /\ Len(r) \in Nat \ {0} /\ Rises(r)
  /\ r[1].from = span.from /\ r[Len(r)].to = span.to
  /\ \A i \in 1 .. Len(r) : /\ span.from <= r[i].from /\ r[i].to <= span.to
                            /\ r[i].to - r[i].from \in 1 .. size
  /\ \A i \in 2 .. Len(r) : r[i].from <= r[i - 1].to

\* The largest of some numbers.
LEMMA LargestOfSome ==
  ASSUME NEW a \in Int, NEW b \in Int, NEW S, S \subseteq a .. b, S # {}
  PROVE  Largest(S) \in S /\ \A y \in S : y <= Largest(S)
<1> DEFINE T == {k \in 0 .. b - a : b - k \in S}
<1>1. PICK x \in S : TRUE
  OBVIOUS
<1>2. T \subseteq Nat /\ T # {}
  <2>1. x \in a .. b
    BY <1>1
  <2>2. b - x \in 0 .. b - a /\ b - (b - x) = x
    BY <2>1
  <2>3. b - x \in T
    BY <2>2
  <2>4. T \subseteq Nat
    OBVIOUS
  <2> HIDE DEF T
  <2> QED
    BY <2>3, <2>4
<1>3. PICK k \in T : \A j \in T : k <= j
  <2> HIDE DEF T
  <2> QED
    BY <1>2, Least
<1>4. ASSUME NEW y \in S PROVE y <= b - k
  <2>1. y \in a .. b
    OBVIOUS
  <2>2. b - y \in 0 .. b - a /\ b - (b - y) = y
    BY <2>1
  <2>3. b - y \in T
    BY <2>2
  <2>4. k <= b - y /\ k \in Int
    <3>1. k \in T /\ k \in Int
      OBVIOUS
    <3> HIDE DEF T
    <3> QED
      BY <1>3, <2>3, <3>1
  <2> QED
    BY <2>1, <2>4
<1>5. PICK z : z = b - k
  OBVIOUS
<1>6. z \in S /\ S \subseteq Int /\ \A y \in S : y <= z
  BY <1>4, <1>5
<1>7. Largest(S) = z
  BY <1>6, LargestIs
<1> QED
  BY <1>6, <1>7

\* The windows are the places 0, step, 2 * step ... of a text.
LEMMA WindowsTile ==
  ASSUME NEW length \in Nat \ {0}, NEW size \in Nat \ {0}, NEW overlap \in Nat
  PROVE  Tiles(Windows(length, size, overlap), Span(0, length), size)
<1> DEFINE step == IF size > overlap THEN size - overlap ELSE 1
           wanted == {k \in 0 .. length : k = 0 \/ (k - 1) * step + size < length}
           start == [k \in 0 .. length + 1 |-> k * step]
           r == Windows(length, size, overlap)
<1>1. r = [i \in 1 .. Cardinality(wanted) |->
             Span((i - 1) * step, IF (i - 1) * step + size < length THEN (i - 1) * step + size ELSE length)]
  BY DEF Windows
<1>2. step \in 1 .. size /\ step \in Int
  OBVIOUS
<1> HIDE DEF step, r
<1>3. start[0] = 0 /\ \A k \in 0 .. length : start[k + 1] = start[k] + step
  <2>1. 0 \in 0 .. length + 1 /\ 0 * step = 0
    BY <1>2
  <2>2. ASSUME NEW k \in 0 .. length PROVE start[k + 1] = start[k] + step
    <3>1. k \in 0 .. length + 1 /\ k + 1 \in 0 .. length + 1
      OBVIOUS
    <3>2. (k + 1) * step = k * step + step
      BY <1>2
    <3> QED
      BY <3>1, <3>2
  <2> QED
    BY <2>1, <2>2
<1>4. \A k \in 0 .. length + 1 : start[k] \in Int /\ start[k] = k * step
  BY <1>2
<1> HIDE DEF start
<1>5. \A k \in 0 .. length + 1 : start[k] >= k /\ \A j \in 0 .. k : start[j] <= start[k]
  <2> DEFINE T == {k \in 0 .. length + 1 : start[k] >= k /\ \A j \in 0 .. k : start[j] <= start[k]}
  <2>1. 0 \in T
    <3>1. 0 .. 0 = {0} /\ 0 \in 0 .. length + 1
      OBVIOUS
    <3> QED
      BY <1>3, <3>1
  <2>2. ASSUME NEW i \in 0 .. length, i \in T PROVE i + 1 \in T
    <3>1. PICK k : k = i + 1
      OBVIOUS
    <3>2. k \in 0 .. length + 1 /\ start[k] = start[i] + step /\ start[i] >= i /\ start[i] \in Int
      BY <1>3, <1>4, <2>2, <3>1
    <3>3. ASSUME NEW j \in 0 .. k PROVE start[j] <= start[k]
      <4>1. CASE j = k
        BY <1>4, <3>2, <4>1
      <4>2. CASE j # k
        <5>1. j \in 0 .. i /\ j \in 0 .. length + 1
          BY <3>1, <4>2
        <5>2. start[j] <= start[i] /\ start[j] \in Int
          BY <1>4, <2>2, <5>1
        <5> QED
          BY <1>2, <3>2, <5>2
      <4> QED
        BY <4>1, <4>2
    <3>4. start[k] >= k
      BY <1>2, <3>1, <3>2
    <3> QED
      BY <3>1, <3>2, <3>3, <3>4
  <2> HIDE DEF T
  <2>3. length + 1 \in Nat /\ \A i \in 0 .. length + 1 - 1 : i \in 0 .. length
    OBVIOUS
  <2>4. \A k \in 0 .. length + 1 : k \in T
    BY <2>1, <2>2, <2>3, UpTo
  <2> QED
    BY <2>4 DEF T
<1>6. \A k \in 1 .. length : k \in wanted <=> start[k - 1] + size < length
  <2> SUFFICES ASSUME NEW k \in 1 .. length PROVE k \in wanted <=> start[k - 1] + size < length
    OBVIOUS
  <2>1. k - 1 \in 0 .. length + 1 /\ k \in 0 .. length /\ k # 0
    OBVIOUS
  <2>2. start[k - 1] = (k - 1) * step
    BY <1>4, <2>1
  <2> QED
    BY <2>1, <2>2
<1>7. 0 \in wanted /\ wanted \subseteq 0 .. length
  OBVIOUS
<1> HIDE DEF wanted
<1>8. PICK m \in wanted : \A k \in wanted : k <= m
  <2>1. Largest(wanted) \in wanted /\ \A k \in wanted : k <= Largest(wanted)
    <3>1. wanted \subseteq 0 .. length /\ wanted # {} /\ 0 \in Int /\ length \in Int
      BY <1>7
    <3> QED
      BY <3>1, LargestOfSome
  <2> QED
    BY <2>1
<1>9. m \in 0 .. length /\ wanted \subseteq 0 .. m
  BY <1>7, <1>8
<1>10. ASSUME NEW k \in 0 .. m PROVE k \in wanted
  <2>1. CASE k = 0
    BY <1>7, <2>1
  <2>2. CASE k # 0
    <3>1. k \in 1 .. length /\ m \in 1 .. length /\ k - 1 \in 0 .. m - 1
          /\ m - 1 \in 0 .. length + 1 /\ k - 1 \in 0 .. length + 1
      BY <1>9, <2>2
    <3>2. start[m - 1] + size < length
      BY <1>6, <1>8, <3>1
    <3>3. start[k - 1] <= start[m - 1] /\ start[k - 1] \in Int /\ start[m - 1] \in Int
      BY <1>4, <1>5, <3>1
    <3>4. start[k - 1] + size < length
      BY <3>2, <3>3
    <3> QED
      BY <1>6, <3>1, <3>4
  <2> QED
    BY <2>1, <2>2
<1>11. Cardinality(wanted) = m + 1
  <2>1. wanted = 0 .. m
    BY <1>9, <1>10
  <2>2. 0 \in Int /\ m \in Int
    BY <1>9
  <2>3. Cardinality(0 .. m) = IF 0 > m THEN 0 ELSE m - 0 + 1
    BY <2>2, FS_Interval
  <2> QED
    BY <1>9, <2>1, <2>3
<1>12. PICK l : l = m + 1
  OBVIOUS
<1>13. l \in Nat \ {0} /\ r = [i \in 1 .. l |-> Span(start[i - 1], IF start[i - 1] + size < length THEN start[i - 1] + size ELSE length)]
  <2>1. l \in Nat \ {0} /\ l <= length + 1
    BY <1>9, <1>12
  <2>2. \A i \in 1 .. l : start[i - 1] = (i - 1) * step
    <3> SUFFICES ASSUME NEW i \in 1 .. l PROVE start[i - 1] = (i - 1) * step
      OBVIOUS
    <3>1. i - 1 \in 0 .. length + 1
      BY <2>1
    <3> QED
      BY <1>4, <3>1
  <2> QED
    BY <1>1, <1>11, <1>12, <2>1, <2>2
<1>14. ASSUME NEW i \in 1 .. l
       PROVE  /\ start[i - 1] \in Int /\ start[i - 1] >= 0 /\ start[i - 1] < length
              /\ i > 1 => start[i - 2] \in Int /\ start[i - 1] = start[i - 2] + step /\ start[i - 2] + size < length
  <2>1. i \in Nat /\ i - 1 \in 0 .. m /\ i - 1 \in 0 .. length + 1
    BY <1>9, <1>12
  <2>2. start[i - 1] \in Int /\ start[i - 1] >= i - 1
    BY <1>4, <1>5, <2>1
  <2>3. CASE i = 1
    BY <1>3, <2>3
  <2>4. CASE i # 1
    <3>1. PICK k : k = i - 2
      OBVIOUS
    <3>2. k \in 0 .. length /\ k + 1 = i - 1 /\ i - 1 \in 1 .. length /\ k = i - 1 - 1 /\ k \in 0 .. length + 1
      BY <1>9, <2>1, <2>4, <3>1
    <3>3. start[k] + size < length
      BY <1>6, <1>10, <2>1, <3>2
    <3>4. start[i - 1] = start[k] + step /\ start[k] \in Int
      BY <1>3, <1>4, <3>2
    <3> QED
      BY <1>2, <2>1, <2>2, <3>1, <3>3, <3>4
  <2> QED
    BY <2>3, <2>4
<1>15. start[l - 1] + size >= length
  <2>1. l - 1 = m /\ m + 1 \notin wanted /\ start[m] >= m /\ start[m] \in Int
    <3>1. l - 1 = m /\ m \in 0 .. length + 1 /\ ~(m + 1 <= m)
      BY <1>9, <1>12
    <3> QED
      BY <1>4, <1>5, <1>8, <3>1
  <2>2. CASE m = length
    BY <2>1, <2>2
  <2>3. CASE m # length
    <3>1. PICK k : k = m + 1
      OBVIOUS
    <3>2. k \in 1 .. length /\ k - 1 = m /\ k \notin wanted
      BY <1>9, <2>1, <2>3, <3>1
    <3>3. ~(start[m] + size < length)
      BY <1>6, <3>2
    <3> QED
      BY <2>1, <3>3
  <2> QED
    BY <2>2, <2>3
<1>16. \A i \in 1 .. l : /\ r[i].from = start[i - 1]
                         /\ r[i].to = IF start[i - 1] + size < length THEN start[i - 1] + size ELSE length
                         /\ r[i] \in AnySpan
  BY <1>13, <1>14 DEF Span, AnySpan
<1>17. r \in Seq(AnySpan) /\ Len(r) = l
  <2>1. r = [i \in 1 .. l |-> r[i]]
    BY <1>13
  <2> QED
    BY <1>13, <1>16, <2>1
<1> HIDE DEF AnySpan
<1>18. ASSUME NEW i \in 1 .. l
       PROVE  0 <= r[i].from /\ r[i].to <= length /\ r[i].to - r[i].from \in 1 .. size
  BY <1>14, <1>16
<1>19. ASSUME NEW i \in 2 .. l PROVE r[i - 1].from < r[i].from /\ r[i].from <= r[i - 1].to
  <2>1. i \in 1 .. l /\ i - 1 \in 1 .. l /\ i > 1 /\ i - 1 - 1 = i - 2
    BY <1>13
  <2>2. r[i - 1].from = start[i - 2] /\ r[i - 1].to = start[i - 2] + size /\ r[i].from = start[i - 2] + step
        /\ start[i - 2] \in Int
    BY <1>14, <1>16, <2>1
  <2> QED
    BY <1>2, <2>2
<1>20. r[1].from = 0 /\ r[l].to = length
  <2>1. 1 \in 1 .. l /\ l \in 1 .. l /\ 1 - 1 = 0
    BY <1>13
  <2> QED
    BY <1>3, <1>14, <1>15, <1>16, <2>1
<1>21. Span(0, length).from = 0 /\ Span(0, length).to = length
  BY DEF Span
<1> QED
  BY <1>13, <1>17, <1>18, <1>19, <1>20, <1>21 DEF Tiles, Rises, r

\* The spans of a list.
LEMMA SpansTyped ==
  ASSUME NEW s \in Seq(AnySpan)
  PROVE  /\ Len(s) \in Nat /\ DOMAIN s = 1 .. Len(s)
         /\ \A i \in 1 .. Len(s) : s[i] \in AnySpan /\ s[i].from \in Int /\ s[i].to \in Int
<1>1. ASSUME NEW i \in 1 .. Len(s) PROVE s[i] \in AnySpan /\ s[i].from \in Int /\ s[i].to \in Int
  <2>1. s[i] \in AnySpan
    OBVIOUS
  <2> QED
    BY <2>1 DEF AnySpan
<1> QED
  BY <1>1

\* Tiles leave no character out.
LEMMA TilesCover ==
  ASSUME NEW r, NEW span, NEW size \in Nat, Tiles(r, span, size)
  PROVE  Covers(r, span)
<1> DEFINE n == Len(r)
<1>1. n \in Nat \ {0} /\ DOMAIN r = 1 .. n /\ \A i \in 1 .. n : r[i].from \in Int /\ r[i].to \in Int
  BY SpansTyped DEF Tiles
<1> HIDE DEF n
<1>2. /\ r[1].from = span.from /\ r[n].to = span.to
      /\ \A i \in 2 .. n : r[i].from <= r[i - 1].to
  BY DEF Tiles, n
<1>3. 1 \in 1 .. n /\ n \in 1 .. n /\ 1 \in Int /\ n \in Int
  BY <1>1
<1>4. ASSUME NEW p \in span.from .. span.to - 1
      PROVE  \E i \in DOMAIN r : p \in r[i].from .. r[i].to - 1
  <2>1. span.from \in Int /\ span.to \in Int
    BY <1>1, <1>2, <1>3
  <2>2. p \in Int /\ span.from <= p /\ p < span.to
    BY <2>1
  <2> DEFINE S == {i \in 1 .. n : r[i].from <= p}
  <2>3. 1 \in S /\ S \subseteq 1 .. n
    BY <1>2, <1>3, <2>2
  <2> HIDE DEF S
  <2>4. PICK i \in S : \A j \in S : j <= i
    <3>1. S # {}
      BY <2>3
    <3>2. Largest(S) \in S /\ \A y \in S : y <= Largest(S)
      BY <1>3, <2>3, <3>1, LargestOfSome
    <3> QED
      BY <3>2
  <2>5. i \in 1 .. n /\ r[i].from <= p
    BY DEF S
  <2>6. p < r[i].to
    <3>1. CASE i = n
      BY <1>2, <2>2, <3>1
    <3>2. CASE i # n
      <4>1. PICK j : j = i + 1
        OBVIOUS
      <4>2. j \in 2 .. n /\ j - 1 = i /\ j \in 1 .. n /\ ~(j <= i)
        BY <1>1, <2>5, <3>2, <4>1
      <4>3. ~(r[j].from <= p) /\ r[j].from <= r[i].to
        BY <1>2, <2>4, <4>2 DEF S
      <4> QED
        BY <1>1, <2>2, <2>5, <4>2, <4>3
    <3> QED
      BY <3>1, <3>2
  <2>7. p \in r[i].from .. r[i].to - 1
    BY <1>1, <2>2, <2>5, <2>6
  <2> QED
    BY <1>1, <2>5, <2>7
<1> QED
  BY <1>4 DEF Covers

\* The windows of a span of a text.
LEMMA RebasedTiles ==
  ASSUME NEW span, span.from \in Int, span.to \in Int, span.from < span.to,
         NEW size \in Nat \ {0}, NEW overlap \in Nat
  PROVE  Tiles(Rebased(span, size, overlap), span, size)
<1>1. PICK l : l = span.to - span.from
  OBVIOUS
<1>2. PICK w, r : w = Windows(l, size, overlap) /\ r = Rebased(span, size, overlap)
  OBVIOUS
<1>3. r = [i \in DOMAIN w |-> Span(span.from + w[i].from, span.from + w[i].to)]
  BY <1>1, <1>2 DEF Rebased, Moved, Length
<1>4. Tiles(w, Span(0, l), size)
  <2>1. l \in Nat \ {0}
    BY <1>1
  <2> QED
    BY <1>2, <2>1, WindowsTile
<1>5. Span(0, l).from = 0 /\ Span(0, l).to = l
  BY DEF Span
<1>6. PICK n : n = Len(w)
  OBVIOUS
<1>7. n \in Nat \ {0} /\ DOMAIN w = 1 .. n /\ \A i \in 1 .. n : w[i].from \in Int /\ w[i].to \in Int
  BY <1>4, <1>6, SpansTyped DEF Tiles
<1>8. /\ w[1].from = 0 /\ w[n].to = l
      /\ \A i \in 1 .. n : 0 <= w[i].from /\ w[i].to <= l /\ w[i].to - w[i].from \in 1 .. size
      /\ \A i \in 2 .. n : w[i - 1].from < w[i].from
      /\ \A i \in 2 .. n : w[i].from <= w[i - 1].to
  BY <1>4, <1>5, <1>6 DEF Tiles, Rises
<1>9. \A i \in 1 .. n : /\ r[i].from = span.from + w[i].from /\ r[i].to = span.from + w[i].to
                        /\ r[i] \in AnySpan
  BY <1>3, <1>7 DEF Span, AnySpan
<1>10. r \in Seq(AnySpan) /\ Len(r) = n
  <2>1. r = [i \in 1 .. n |-> r[i]]
    BY <1>3, <1>7
  <2> QED
    BY <1>7, <1>9, <2>1
<1>11. ASSUME NEW i \in 1 .. n
       PROVE  span.from <= r[i].from /\ r[i].to <= span.to /\ r[i].to - r[i].from \in 1 .. size
  <2>1. w[i].from \in Int /\ w[i].to \in Int /\ 0 <= w[i].from /\ w[i].to <= l /\ w[i].to - w[i].from \in 1 .. size
    BY <1>7, <1>8
  <2>2. r[i].from = span.from + w[i].from /\ r[i].to = span.from + w[i].to
    BY <1>9
  <2> QED
    BY <1>1, <2>1, <2>2
<1>12. ASSUME NEW i \in 2 .. n PROVE r[i - 1].from < r[i].from /\ r[i].from <= r[i - 1].to
  <2>1. PICK j \in 1 .. n : j = i - 1
    BY <1>7
  <2>2. i \in 1 .. n
    BY <1>7
  <2>3. w[j].from < w[i].from /\ w[i].from <= w[j].to /\ w[j].from \in Int /\ w[i].from \in Int /\ w[j].to \in Int
    BY <1>7, <1>8, <2>1, <2>2
  <2>4. r[i].from = span.from + w[i].from /\ r[j].from = span.from + w[j].from /\ r[j].to = span.from + w[j].to
    BY <1>9, <2>2
  <2> QED
    BY <2>1, <2>3, <2>4
<1>13. r[1].from = span.from /\ r[n].to = span.to
  <2>1. 1 \in 1 .. n /\ n \in 1 .. n
    BY <1>7
  <2> QED
    BY <1>1, <1>8, <1>9, <2>1
<1> QED
  BY <1>2, <1>7, <1>10, <1>11, <1>12, <1>13 DEF Tiles, Rises

\* A block that fits is one chunk, the others are windows.
LEMMA ParagraphTiles ==
  ASSUME NEW block, block.from \in Int, block.to \in Int, block.from < block.to,
         block = Span(block.from, block.to), NEW size \in Nat \ {0}, NEW overlap \in Nat
  PROVE  Tiles(Paragraph(block, size, overlap), block, size)
<1>1. CASE Length(block) <= size
  <2>1. Paragraph(block, size, overlap) = <<block>>
    BY <1>1 DEF Paragraph
  <2>2. PICK r : r = <<block>>
    OBVIOUS
  <2>3. block \in AnySpan /\ block.to - block.from \in 1 .. size
    BY <1>1 DEF AnySpan, Span, Length
  <2>4. r \in Seq(AnySpan) /\ Len(r) = 1 /\ r[1] = block
    BY <2>2, <2>3
  <2>5. 1 \in Nat \ {0} /\ 2 .. 1 = {} /\ 1 .. 1 = {1}
    OBVIOUS
  <2>6. block.from <= block.from /\ block.to <= block.to
    OBVIOUS
  <2>7. Tiles(r, block, size)
    BY <2>3, <2>4, <2>5, <2>6 DEF Tiles, Rises
  <2> QED
    BY <2>1, <2>2, <2>7
<1>2. CASE ~(Length(block) <= size)
  BY <1>2, RebasedTiles DEF Paragraph
<1> QED
  BY <1>1, <1>2

\* What has the chunks of another list covers what that covers.
LEMMA CoversMore ==
  ASSUME NEW s, NEW t, ToSet(s) \subseteq ToSet(t), NEW span, Covers(s, span)
  PROVE  Covers(t, span)
<1>1. ASSUME NEW p \in span.from .. span.to - 1
      PROVE  \E i \in DOMAIN t : p \in t[i].from .. t[i].to - 1
  <2>1. PICK i \in DOMAIN s : p \in s[i].from .. s[i].to - 1
    BY DEF Covers
  <2>2. s[i] \in ToSet(t)
    BY DEF ToSet
  <2>3. PICK j \in DOMAIN t : t[j] = s[i]
    BY <2>2 DEF ToSet
  <2> QED
    BY <2>1, <2>3
<1> QED
  BY <1>1 DEF Covers

\* Two lists that rise, the second from behind the last of the first.
LEMMA RisesJoined ==
  ASSUME NEW s \in Seq(AnySpan), NEW t \in Seq(AnySpan), Rises(s), Rises(t), t # <<>>,
         s = <<>> \/ s[Len(s)].from < t[1].from
  PROVE  Rises(s \o t)
<1>1. PICK m, n, u : m = Len(s) /\ n = Len(t) /\ u = s \o t
  OBVIOUS
<1>2. m \in Nat /\ n \in Nat \ {0}
  BY <1>1
<1>3. /\ u \in Seq(AnySpan) /\ Len(u) = m + n
      /\ \A i \in 1 .. m + n : u[i] = IF i <= m THEN s[i] ELSE t[i - m]
  BY <1>1, ConcatProperties
<1>4. ASSUME NEW i \in 2 .. m + n PROVE u[i - 1].from < u[i].from
  <2>1. i \in 1 .. m + n /\ i - 1 \in 1 .. m + n /\ i - 1 \in Int
    BY <1>2
  <2>2. CASE i <= m
    <3>1. i \in 2 .. m /\ i - 1 <= m
      BY <1>2, <2>2
    <3>2. u[i] = s[i] /\ u[i - 1] = s[i - 1]
      BY <1>3, <2>1, <2>2, <3>1
    <3> QED
      BY <1>1, <3>1, <3>2 DEF Rises
  <2>3. CASE i = m + 1
    <3>1. i - 1 = m /\ i - m = 1 /\ ~(i <= m) /\ m <= m /\ m # 0
      BY <1>2, <2>3
    <3>2. u[i] = t[1] /\ u[i - 1] = s[m]
      BY <1>3, <2>1, <3>1
    <3>3. s # <<>>
      BY <1>1, <3>1
    <3> QED
      BY <1>1, <3>2, <3>3
  <2>4. CASE i > m + 1
    <3>1. PICK j : j = i - m
      OBVIOUS
    <3>2. j \in 2 .. n /\ j - 1 = i - 1 - m /\ ~(i <= m) /\ ~(i - 1 <= m)
      BY <1>2, <2>4, <3>1
    <3>3. u[i] = t[j] /\ u[i - 1] = t[j - 1]
      BY <1>3, <2>1, <3>1, <3>2
    <3> QED
      BY <1>1, <3>2, <3>3 DEF Rises
  <2> QED
    BY <1>2, <2>2, <2>3, <2>4
<1> QED
  BY <1>1, <1>3, <1>4 DEF Rises

\* Sentences one behind the other.
Spaced(spans) ==
  /\ spans \in Seq(AnySpan) /\ Len(spans) \in Nat \ {0}
  /\ \A i \in 1 .. Len(spans) : spans[i].from < spans[i].to
  /\ \A i, j \in 1 .. Len(spans) : i < j => spans[i].to < spans[j].from

\* A chunk of at most `size` between the first sentence's beginning and the last one's end.
InText(c, spans, size) ==
  /\ spans[1].from <= c.from /\ c.to <= spans[Len(spans)].to
  /\ c.to - c.from \in 1 .. size

\* The chunks of the sentences from `first` to the one before `next`.
Piece(t, spans, first, next, size) ==
  /\ t \in Seq(AnySpan) /\ Len(t) \in Nat \ {0} /\ Rises(t)
  /\ next \in first + 1 .. Len(spans) + 1
  /\ t[1].from = spans[first].from
  /\ \A c \in ToSet(t) : InText(c, spans, size)
  /\ next <= Len(spans) => t[Len(t)].from < spans[next].from
  /\ \A i \in first .. next - 1 : Covers(t, spans[i])

\* _next_start_index moves forward, and not over a sentence.
LEMMA NextAdvances ==
  ASSUME NEW spans, NEW first \in Nat, NEW last \in Nat, first <= last, NEW overlap
  PROVE  NextStart(spans, first, last, overlap) \in first + 1 .. last + 1
<1>1. CASE overlap = 0
  BY <1>1 DEF NextStart
<1>2. CASE overlap # 0
  <2>1. PICK S : S = {k \in first .. last : k = first \/ spans[last].to - spans[k].from >= overlap}
    OBVIOUS
  <2>2. S \subseteq first .. last /\ first \in S /\ first \in Int /\ last \in Int
    BY <2>1
  <2>3. PICK back : back = Largest(S)
    OBVIOUS
  <2>4. back \in first .. last
    <3>1. S # {}
      BY <2>2
    <3>2. Largest(S) \in S
      BY <2>2, <3>1, LargestOfSome
    <3> QED
      BY <2>2, <2>3, <3>2
  <2>5. NextStart(spans, first, last, overlap) = IF back > first THEN back ELSE first + 1
    BY <1>2, <2>1, <2>3 DEF NextStart
  <2> QED
    BY <2>4, <2>5
<1> QED
  BY <1>1, <1>2

\* The order of the sentences.
LEMMA SpacedOrder ==
  ASSUME NEW spans, Spaced(spans), NEW i \in 1 .. Len(spans), NEW j \in 1 .. Len(spans), i <= j
  PROVE  /\ spans[i].from \in Int /\ spans[i].to \in Int /\ spans[i].from < spans[i].to
         /\ spans[j].from \in Int /\ spans[j].to \in Int
         /\ spans[i].from <= spans[j].from /\ spans[i].to <= spans[j].to
         /\ i < j => spans[i].to < spans[j].from
<1>1. /\ spans[i].from \in Int /\ spans[i].to \in Int
      /\ spans[j].from \in Int /\ spans[j].to \in Int
  BY SpansTyped DEF Spaced
<1>2. spans[i].from < spans[i].to /\ spans[j].from < spans[j].to
  BY DEF Spaced
<1>3. i < j => spans[i].to < spans[j].from
  BY DEF Spaced
<1>4. i = j \/ i < j
  BY DEF Spaced
<1> QED
  BY <1>1, <1>2, <1>3, <1>4

\* A sentence that is too large: the windows of it.
LEMMA LargePiece ==
  ASSUME NEW spans, Spaced(spans), NEW first \in 1 .. Len(spans),
         NEW size \in Nat \ {0}, NEW overlap \in Nat
  PROVE  Piece(Rebased(spans[first], size, overlap), spans, first, first + 1, size)
<1>1. PICK n, t : n = Len(spans) /\ t = Rebased(spans[first], size, overlap)
  OBVIOUS
<1>2. n \in Nat \ {0} /\ first \in Nat /\ 1 \in 1 .. n /\ n \in 1 .. n /\ 1 <= first /\ first <= n
  BY <1>1 DEF Spaced
<1>3. /\ spans[first].from \in Int /\ spans[first].to \in Int /\ spans[first].from < spans[first].to
      /\ spans[1].from \in Int /\ spans[n].to \in Int
      /\ spans[1].from <= spans[first].from /\ spans[first].to <= spans[n].to
  BY <1>1, <1>2, SpacedOrder
<1>4. Tiles(t, spans[first], size)
  BY <1>1, <1>3, RebasedTiles
<1>5. Covers(t, spans[first])
  BY <1>4, TilesCover
<1>6. t \in Seq(AnySpan) /\ Len(t) \in Nat \ {0} /\ Rises(t) /\ t[1].from = spans[first].from /\ t[Len(t)].to = spans[first].to
  BY <1>4 DEF Tiles
<1>7. DOMAIN t = 1 .. Len(t) /\ \A i \in 1 .. Len(t) : t[i].from \in Int /\ t[i].to \in Int
  BY <1>6, SpansTyped
<1>8. ASSUME NEW c \in ToSet(t) PROVE InText(c, spans, size) /\ c.from < spans[first].to
  <2>1. PICK i \in 1 .. Len(t) : c = t[i]
    BY <1>7 DEF ToSet
  <2>2. spans[first].from <= c.from /\ c.to <= spans[first].to /\ c.to - c.from \in 1 .. size
    BY <1>4, <2>1 DEF Tiles
  <2>3. c.from \in Int /\ c.to \in Int
    BY <1>7, <2>1
  <2>4. c.from < c.to
    <3>1. c.to - c.from > 0
      BY <2>2
    <3> QED
      BY <2>3, <3>1
  <2>5. spans[1].from <= c.from /\ c.to <= spans[n].to /\ c.from < spans[first].to
    BY SMTT(30), <1>3, <2>2, <2>3, <2>4
  <2> QED
    BY <1>1, <2>2, <2>5 DEF InText
<1>9. ASSUME first + 1 <= n PROVE t[Len(t)].from < spans[first + 1].from
  <2>1. PICK next : next = first + 1
    OBVIOUS
  <2>2. next \in 1 .. n /\ first < next /\ first <= next
    BY <1>2, <1>9, <2>1
  <2>3. spans[first].to < spans[next].from /\ spans[next].from \in Int
    BY <1>1, <2>2, SpacedOrder
  <2>4. Len(t) \in 1 .. Len(t)
    BY <1>6
  <2>5. t[Len(t)] \in ToSet(t) /\ t[Len(t)].from \in Int
    BY <1>7, <2>4 DEF ToSet
  <2>6. t[Len(t)].from < spans[first].to
    BY <1>8, <2>5
  <2> QED
    BY <1>3, <2>1, <2>3, <2>5, <2>6
<1>10. first + 1 \in first + 1 .. n + 1 /\ \A i \in first .. first + 1 - 1 : i = first
  BY <1>2
<1> QED
  BY <1>1, <1>5, <1>6, <1>8, <1>9, <1>10 DEF Piece

\* Sentences that fit: one chunk of them.
LEMMA FittingPiece ==
  ASSUME NEW spans, Spaced(spans), NEW first \in 1 .. Len(spans), NEW end \in first .. Len(spans),
         NEW size \in Nat \ {0}, spans[end].to - spans[first].from <= size,
         NEW next \in first + 1 .. end + 1
  PROVE  Piece(<<Span(spans[first].from, spans[end].to)>>, spans, first, next, size)
<1>1. PICK n, x, t : n = Len(spans) /\ x = Span(spans[first].from, spans[end].to) /\ t = <<x>>
  OBVIOUS
<1>2. n \in Nat \ {0} /\ first \in Nat /\ 1 \in 1 .. n /\ n \in 1 .. n /\ 1 <= first /\ first <= n
      /\ end \in 1 .. n /\ first <= end /\ end <= n
  BY <1>1 DEF Spaced
<1>3. /\ spans[first].from \in Int /\ spans[first].to \in Int /\ spans[first].from < spans[first].to
      /\ spans[first].to <= spans[end].to /\ spans[end].to \in Int
  BY <1>1, <1>2, SpacedOrder
<1>4. spans[1].from \in Int /\ spans[n].to \in Int /\ spans[1].from <= spans[first].from /\ spans[end].to <= spans[n].to
  BY <1>1, <1>2, SpacedOrder
<1>5. x.from = spans[first].from /\ x.to = spans[end].to /\ x \in AnySpan
  BY <1>1, <1>3 DEF Span, AnySpan
<1>6. t \in Seq(AnySpan) /\ Len(t) = 1 /\ t[1] = x /\ DOMAIN t = 1 .. 1 /\ 1 \in 1 .. 1
  BY <1>1, <1>5
<1>7. Rises(t)
  <2>1. 2 .. 1 = {}
    OBVIOUS
  <2> QED
    BY <1>6, <2>1 DEF Rises
<1>8. InText(x, spans, size)
  <2>1. spans[end].to - spans[first].from \in 1 .. size
    BY <1>3
  <2> QED
    BY <1>1, <1>4, <1>5, <2>1 DEF InText
<1>9. \A c \in ToSet(t) : c = x
  BY <1>6 DEF ToSet
<1>10. next \in first + 1 .. n + 1
  BY <1>2
<1>11. ASSUME next <= n PROVE x.from < spans[next].from
  <2>1. next \in 1 .. n /\ first < next /\ first <= next
    BY <1>2, <1>11
  <2>2. spans[first].to < spans[next].from /\ spans[next].from \in Int
    BY <1>1, <2>1, SpacedOrder
  <2> QED
    BY <1>3, <1>5, <2>2
<1>12. ASSUME NEW i \in first .. next - 1 PROVE Covers(t, spans[i])
  <2>1. i \in 1 .. n /\ first <= i /\ i <= end
    BY <1>2
  <2>2. spans[first].from <= spans[i].from /\ spans[i].to <= spans[end].to
        /\ spans[i].from \in Int /\ spans[i].to \in Int
    BY <1>1, <1>2, <2>1, SpacedOrder
  <2>3. ASSUME NEW p \in spans[i].from .. spans[i].to - 1
        PROVE  \E k \in DOMAIN t : p \in t[k].from .. t[k].to - 1
    <3>1. p \in x.from .. x.to - 1
      <4>1. p \in Int /\ spans[i].from <= p /\ p < spans[i].to
        BY <2>2
      <4>2. x.from <= p /\ p < x.to /\ x.from \in Int /\ x.to \in Int
        BY SMTT(30), <1>3, <1>5, <2>2, <4>1
      <4> QED
        BY <4>1, <4>2
    <3> QED
      BY <1>6, <3>1
  <2> QED
    BY <2>3 DEF Covers
<1>13. 1 \in Nat \ {0}
  OBVIOUS
<1> QED
  BY <1>1, <1>5, <1>6, <1>7, <1>8, <1>9, <1>10, <1>11, <1>12, <1>13 DEF Piece

\* The next sentence, and the chunks made of those before it.
LoopState(spans) == [next : 1 .. Len(spans) + 1, chunks : Seq(AnySpan)]

\* A turn of the loop that adds the piece t.
Adds(s, spans, size, overlap, t, next) ==
  /\ Piece(t, spans, s.next, next, size)
  /\ Chunked(s, spans, size, overlap) = [next |-> next, chunks |-> s.chunks \o t]

\* While there is a sentence, a turn adds a piece.
LEMMA TurnAdds ==
  ASSUME NEW spans, Spaced(spans), NEW s \in LoopState(spans), s.next <= Len(spans),
         NEW size \in Nat \ {0}, NEW overlap \in Nat
  PROVE  \E t, next : Adds(s, spans, size, overlap, t, next)
<1>1. PICK n, first : n = Len(spans) /\ first = s.next
  OBVIOUS
<1>2. n \in Nat \ {0} /\ first \in 1 .. n /\ s.chunks \in Seq(AnySpan)
  BY <1>1 DEF LoopState, Spaced
<1>3. spans[first].from \in Int /\ spans[first].to \in Int /\ spans[first].from < spans[first].to
  <2>1. first <= first
    BY <1>2
  <2> QED
    BY <1>1, <1>2, <2>1, SpacedOrder
<1>4. CASE Length(spans[first]) > size
  <2>1. PICK t, next : t = Rebased(spans[first], size, overlap) /\ next = first + 1
    OBVIOUS
  <2>2. Piece(t, spans, first, next, size)
    BY <1>1, <1>2, <2>1, LargePiece
  <2>3. Chunked(s, spans, size, overlap) = [next |-> next, chunks |-> s.chunks \o t]
    BY <1>1, <1>2, <1>4, <2>1 DEF Chunked
  <2> QED
    BY <1>1, <2>2, <2>3 DEF Adds
<1>5. CASE ~(Length(spans[first]) > size)
  <2>1. PICK S : S = {j \in first .. n : j = first \/ spans[j].to - spans[first].from <= size}
    OBVIOUS
  <2>2. S \subseteq first .. n /\ first \in S /\ first \in Int /\ n \in Int
    BY <1>2, <2>1
  <2>3. PICK end : end = Largest(S)
    OBVIOUS
  <2>4. end \in S /\ end \in first .. n
    <3>1. S # {}
      BY <2>2
    <3>2. Largest(S) \in S
      BY <2>2, <3>1, LargestOfSome
    <3> QED
      BY <2>2, <2>3, <3>2
  <2>5. spans[end].to - spans[first].from <= size
    <3>1. CASE end = first
      BY <1>3, <1>5, <3>1 DEF Length
    <3>2. CASE end # first
      BY <2>1, <2>4, <3>2
    <3> QED
      BY <3>1, <3>2
  <2>6. PICK next : next = IF end = n THEN n + 1 ELSE NextStart(spans, first, end, overlap)
    OBVIOUS
  <2>7. next \in first + 1 .. end + 1
    <3>1. first \in Nat /\ end \in Nat /\ first <= end
      BY <1>2, <2>4
    <3>2. CASE end = n
      BY <2>4, <2>6, <3>1, <3>2
    <3>3. CASE end # n
      BY <2>6, <3>1, <3>3, NextAdvances
    <3> QED
      BY <3>2, <3>3
  <2>8. PICK x, t : x = Span(spans[first].from, spans[end].to) /\ t = <<x>>
    OBVIOUS
  <2>9. Piece(t, spans, first, next, size)
    BY <1>1, <1>2, <2>4, <2>5, <2>7, <2>8, FittingPiece
  <2>10. x \in AnySpan
    <3>1. end \in 1 .. Len(spans) /\ spans \in Seq(AnySpan)
      BY <1>1, <1>2, <2>4 DEF Spaced
    <3>2. spans[end].to \in Int
      BY <3>1, SpansTyped
    <3> QED
      BY <1>3, <2>8, <3>2 DEF Span, AnySpan
  <2>11. Append(s.chunks, x) = s.chunks \o t
    BY SMTT(30), <1>2, <2>8, <2>10, AppendIsConcat
  <2>12. Chunked(s, spans, size, overlap) = [next |-> next, chunks |-> Append(s.chunks, x)]
    <3>1. ~(first > n)
      BY <1>2
    <3> QED
      BY Zenon, <1>1, <1>5, <2>1, <2>3, <2>6, <2>8, <3>1 DEF Chunked
  <2> QED
    BY <1>1, <2>9, <2>11, <2>12 DEF Adds
<1> QED
  BY <1>4, <1>5

\* The loop before a sentence: all before it is covered by chunks that rise.
Held(s, spans, size) ==
  /\ s \in LoopState(spans)
  /\ \A c \in ToSet(s.chunks) : InText(c, spans, size)
  /\ Rises(s.chunks)
  /\ s.next <= Len(spans) /\ s.chunks # <<>> => s.chunks[Len(s.chunks)].from < spans[s.next].from
  /\ \A i \in 1 .. s.next - 1 : Covers(s.chunks, spans[i])

\* A turn of the loop.
LEMMA TurnTyped ==
  ASSUME NEW spans, Spaced(spans), NEW s \in LoopState(spans), NEW size \in Nat \ {0}, NEW overlap \in Nat
  PROVE  Chunked(s, spans, size, overlap) \in LoopState(spans)
<1>1. CASE s.next <= Len(spans)
  <2>1. PICK t, next : Adds(s, spans, size, overlap, t, next)
    BY <1>1, TurnAdds
  <2>2. t \in Seq(AnySpan) /\ next \in s.next + 1 .. Len(spans) + 1
    BY <2>1 DEF Adds, Piece
  <2>3. s.chunks \in Seq(AnySpan) /\ s.next \in Nat /\ s.next >= 1 /\ Len(spans) \in Nat
    BY DEF LoopState, Spaced
  <2>4. s.chunks \o t \in Seq(AnySpan) /\ next \in 1 .. Len(spans) + 1
    BY <2>2, <2>3
  <2> QED
    BY <2>1, <2>4 DEF LoopState, Adds
<1>2. CASE ~(s.next <= Len(spans))
  <2>1. s.next > Len(spans)
    BY <1>2 DEF LoopState, Spaced
  <2> QED
    BY <2>1 DEF Chunked
<1> QED
  BY <1>1, <1>2

\* A turn of the loop keeps what holds of its state, and moves on while there is text.
LEMMA TurnHolds ==
  ASSUME NEW spans, Spaced(spans), NEW s, NEW size \in Nat \ {0}, NEW overlap \in Nat, Held(s, spans, size)
  PROVE  /\ Held(Chunked(s, spans, size, overlap), spans, size)
         /\ s.next <= Len(spans) => Chunked(s, spans, size, overlap).next > s.next
         /\ s.next > Len(spans) => Chunked(s, spans, size, overlap).next = s.next
<1>1. s \in LoopState(spans) /\ Len(spans) \in Nat /\ s.next \in 1 .. Len(spans) + 1 /\ s.chunks \in Seq(AnySpan)
  BY DEF Held, LoopState, Spaced
<1>2. CASE s.next > Len(spans)
  BY <1>1, <1>2 DEF Chunked
<1>3. CASE s.next <= Len(spans)
  <2>1. PICK t, next : Adds(s, spans, size, overlap, t, next)
    BY <1>1, <1>3, TurnAdds
  <2>2. PICK u, chunks : chunks = s.chunks \o t /\ u = [next |-> next, chunks |-> chunks]
    OBVIOUS
  <2>3. u = Chunked(s, spans, size, overlap) /\ u.next = next /\ u.chunks = chunks
    BY <2>1, <2>2 DEF Adds
  <2>4. u \in LoopState(spans)
    BY <1>1, <2>3, TurnTyped
  <2>5. /\ t \in Seq(AnySpan) /\ Len(t) \in Nat \ {0} /\ Rises(t)
        /\ next \in s.next + 1 .. Len(spans) + 1 /\ t[1].from = spans[s.next].from
        /\ \A c \in ToSet(t) : InText(c, spans, size)
        /\ next <= Len(spans) => t[Len(t)].from < spans[next].from
        /\ \A i \in s.next .. next - 1 : Covers(t, spans[i])
    BY <2>1 DEF Adds, Piece
  <2>6. ToSet(chunks) = ToSet(s.chunks) \union ToSet(t)
    BY <1>1, <2>2, <2>5, ToSetOfJoined
  <2>7. \A c \in ToSet(chunks) : InText(c, spans, size)
    BY <2>5, <2>6 DEF Held
  <2>8. Rises(chunks)
    <3>1. t # <<>>
      BY <2>5
    <3>2. s.chunks = <<>> \/ s.chunks[Len(s.chunks)].from < t[1].from
      BY <1>3, <2>5 DEF Held
    <3>3. Rises(s.chunks)
      BY DEF Held
    <3> QED
      BY <1>1, <2>2, <2>5, <3>1, <3>2, <3>3, RisesJoined
  <2>9. chunks[Len(chunks)] = t[Len(t)]
    <3>1. PICK m, k : m = Len(s.chunks) /\ k = Len(t)
      OBVIOUS
    <3>2. m \in Nat /\ k \in Nat \ {0} /\ m + k \in 1 .. m + k /\ ~(m + k <= m) /\ m + k - m = k
      BY SMTT(30), <1>1, <2>5, <3>1
    <3>3. Len(chunks) = m + k /\ chunks[m + k] = IF m + k <= m THEN s.chunks[m + k] ELSE t[m + k - m]
      BY <1>1, <2>2, <2>5, <3>1, <3>2, ConcatProperties
    <3> QED
      BY <3>1, <3>2, <3>3
  <2>10. ASSUME NEW i \in 1 .. next - 1 PROVE Covers(chunks, spans[i])
    <3>1. CASE i \in 1 .. s.next - 1
      <4>1. Covers(s.chunks, spans[i]) /\ ToSet(s.chunks) \subseteq ToSet(chunks)
        BY <2>6, <3>1 DEF Held
      <4> QED
        BY <4>1, CoversMore
    <3>2. CASE i \in s.next .. next - 1
      <4>1. Covers(t, spans[i]) /\ ToSet(t) \subseteq ToSet(chunks)
        BY <2>5, <2>6, <3>2
      <4> QED
        BY <4>1, CoversMore
    <3>3. i \in 1 .. s.next - 1 \/ i \in s.next .. next - 1
      BY <1>1, <2>5
    <3> QED
      BY <3>1, <3>2, <3>3
  <2>11. Held(u, spans, size)
    <3>1. u.next <= Len(spans) /\ u.chunks # <<>> => u.chunks[Len(u.chunks)].from < spans[u.next].from
      BY <2>3, <2>5, <2>9
    <3> QED
      BY <2>3, <2>4, <2>7, <2>8, <2>10, <3>1 DEF Held
  <2>12. next > s.next
    BY <1>1, <2>5
  <2> QED
    <3>1. ~(s.next > Len(spans))
      BY <1>1, <1>3
    <3> QED
      BY <2>3, <2>11, <2>12, <3>1
<1> QED
  BY <1>1, <1>2, <1>3

\* The states of the loop, turn by turn.
SemanticBy(c, spans, size, overlap) ==
  /\ Semantic(spans, size, overlap) = c[Len(spans)].chunks
  /\ c[0] = [next |-> 1, chunks |-> <<>>]
  /\ \A i \in 1 .. Len(spans) : c[i] = Chunked(c[i - 1], spans, size, overlap)

\* The chunks of the sentences are computed turn by turn.
LEMMA SemanticSteps ==
  ASSUME NEW spans, Spaced(spans), NEW size \in Nat \ {0}, NEW overlap \in Nat
  PROVE  \E c : SemanticBy(c, spans, size, overlap)
<1> DEFINE n == Len(spans)
<1>1. n \in Nat /\ [next |-> 1, chunks |-> <<>>] \in LoopState(spans)
  <2>1. n \in Nat /\ 1 \in 1 .. n + 1 /\ <<>> \in Seq(AnySpan)
    BY DEF Spaced
  <2> QED
    BY <2>1 DEF LoopState
<1> HIDE DEF n
<1> DEFINE G == [p \in (1 .. n) \X (LoopState(spans)) |-> Chunked(p[2], spans, size, overlap)]
<1>2. \A i \in 1 .. n, x \in LoopState(spans) : Chunked(x, spans, size, overlap) \in LoopState(spans)
  BY TurnTyped
<1>3. G \in [(1 .. n) \X (LoopState(spans)) -> LoopState(spans)]
  <2>1. \A p \in (1 .. n) \X (LoopState(spans)) : p[1] \in 1 .. n /\ p[2] \in LoopState(spans)
    OBVIOUS
  <2> QED
    BY <1>2, <2>1
<1>4. \A i \in 1 .. n, x \in LoopState(spans) : G[<<i, x>>] = Chunked(x, spans, size, overlap)
  OBVIOUS
<1> HIDE DEF G
<1>5. PICK f : Solution(f, n, LoopState(spans), [next |-> 1, chunks |-> <<>>], G)
  BY <1>1, <1>3, Solved, Zenon
<1> DEFINE Solves(g) == g = [i \in 0 .. n |-> IF i = 0 THEN [next |-> 1, chunks |-> <<>>] ELSE Chunked(g[i - 1], spans, size, overlap)]
           c == CHOOSE g : Solves(g)
<1>6. Solves(f)
  <2>1. \A i \in 1 .. n : G[<<i, f[i - 1]>>] = Chunked(f[i - 1], spans, size, overlap)
    BY <1>4, <1>5 DEF Solution
  <2> QED
    BY <1>1, <1>5, <2>1, FromZero DEF Solution
<1>7. Solves(c)
  BY <1>6, Zenon
<1>8. Semantic(spans, size, overlap) = c[n].chunks
  BY Zenon DEF Semantic, n
<1> HIDE DEF c
<1>9. \A i \in 0 .. n : c[i] = IF i = 0 THEN [next |-> 1, chunks |-> <<>>] ELSE Chunked(c[i - 1], spans, size, overlap)
  BY <1>7
<1> HIDE DEF Solves
<1>10. c[0] = [next |-> 1, chunks |-> <<>>] /\ \A i \in 1 .. n : c[i] = Chunked(c[i - 1], spans, size, overlap)
  BY <1>1, <1>9, FromZero, Zenon
<1>11. \A i \in 0 .. n : c[i] \in LoopState(spans)
  <2>1. \A i \in 1 .. n : c[i - 1] \in LoopState(spans) => c[i] \in LoopState(spans)
    BY <1>1, <1>2, <1>10
  <2> QED
    BY <1>1, <1>10, <2>1, Stays
<1> QED
  BY <1>8, <1>10 DEF n, SemanticBy

\* SemanticChunkingStrategy: when the loop is over, the chunks cover every sentence.
LEMMA SemanticHolds ==
  ASSUME NEW spans, Spaced(spans), NEW size \in Nat \ {0}, NEW overlap \in Nat
  PROVE  LET chunks == Semantic(spans, size, overlap)
         IN /\ chunks \in Seq(AnySpan) /\ Rises(chunks)
            /\ \A c \in ToSet(chunks) : InText(c, spans, size)
            /\ \A i \in 1 .. Len(spans) : Covers(chunks, spans[i])
<1>1. PICK c : SemanticBy(c, spans, size, overlap)
  BY SemanticSteps
<1>2. PICK n : n = Len(spans)
  OBVIOUS
<1>3. n \in Nat \ {0}
  BY <1>2 DEF Spaced
<1> DEFINE Done(i) == Held(c[i], spans, size) /\ (c[i].next > i \/ c[i].next > n)
           T == {i \in 0 .. n : Done(i)}
<1>4. 0 \in T
  <2>1. PICK s : s = [next |-> 1, chunks |-> <<>>]
    OBVIOUS
  <2>2. s = c[0] /\ s.next = 1 /\ s.chunks = <<>>
    BY <1>1, <2>1 DEF SemanticBy
  <2>3. s \in LoopState(spans)
    <3>1. 1 \in 1 .. Len(spans) + 1 /\ <<>> \in Seq(AnySpan)
      BY <1>2, <1>3
    <3> QED
      BY <2>1, <3>1 DEF LoopState
  <2>4. ToSet(s.chunks) = {} /\ Rises(s.chunks) /\ 1 .. s.next - 1 = {}
    <3>1. DOMAIN <<>> = {} /\ 2 .. Len(<<>>) = {}
      OBVIOUS
    <3> QED
      BY <2>2, <3>1 DEF ToSet, Rises
  <2>5. Held(s, spans, size)
    BY <2>2, <2>3, <2>4 DEF Held
  <2>6. s.next > 0 /\ 0 \in 0 .. n
    BY <1>3, <2>2
  <2> QED
    BY <2>2, <2>5, <2>6
<1>5. ASSUME NEW i \in 0 .. n - 1, i \in T PROVE i + 1 \in T
  <2>1. PICK j \in 1 .. n : j = i + 1 /\ j - 1 = i /\ j \in 0 .. n /\ j \in Int /\ i \in Int
    BY <1>3
  <2>2. PICK s, t : s = c[i] /\ t = c[j]
    OBVIOUS
  <2>3. t = Chunked(s, spans, size, overlap) /\ Held(s, spans, size) /\ (s.next > i \/ s.next > n)
    BY <1>1, <1>2, <1>5, <2>1, <2>2 DEF SemanticBy
  <2>4. /\ Held(t, spans, size)
        /\ s.next <= n => t.next > s.next
        /\ s.next > n => t.next = s.next
    BY <1>2, <2>3, TurnHolds
  <2>5. s.next \in Int /\ t.next \in Int
    BY <1>2, <1>3, <2>3, <2>4 DEF Held, LoopState
  <2>6. t.next > j \/ t.next > n
    <3>1. CASE s.next > n
      BY <2>4, <3>1
    <3>2. CASE ~(s.next > n)
      <4>1. s.next <= n /\ s.next > i
        BY <1>3, <2>3, <2>5, <3>2
      <4>2. t.next > s.next
        BY <2>4, <4>1
      <4> QED
        BY <2>1, <2>5, <4>1, <4>2
    <3> QED
      BY <3>1, <3>2
  <2> QED
    BY <2>1, <2>2, <2>4, <2>6
<1> HIDE DEF T
<1>6. n \in T
  <2>1. \A i \in 0 .. n : i \in T
    BY <1>3, <1>4, <1>5, UpTo
  <2> QED
    BY <1>3, <2>1
<1>7. PICK s : s = c[n]
  OBVIOUS
<1>8. Held(s, spans, size) /\ s.next > n
  BY <1>6, <1>7 DEF T
<1>9. s.next = n + 1 /\ s.chunks \in Seq(AnySpan)
  <2>1. s.next \in 1 .. n + 1 /\ s.chunks \in Seq(AnySpan)
    BY <1>2, <1>8 DEF Held, LoopState
  <2> QED
    BY <1>3, <1>8, <2>1
<1>10. Semantic(spans, size, overlap) = s.chunks
  BY <1>1, <1>2, <1>7 DEF SemanticBy
<1>11. s.next - 1 = n
  BY <1>3, <1>9
<1> QED
  BY <1>2, <1>8, <1>9, <1>10, <1>11 DEF Held

\* The sentences of a block are spaced by one character.
LEMMA SentencesSpaced ==
  ASSUME NEW lengths \in Seq(Nat \ {0}), lengths # <<>>, NEW base \in Nat
  PROVE  LET spans == Moved(Sentences(lengths), base)
         IN Spaced(spans) /\ DOMAIN spans = 1 .. Len(spans) /\ spans[1].from = base
<1>1. PICK n, sum, spans : n = Len(lengths) /\ sum = Sums(lengths) /\ spans = Moved(Sentences(lengths), base)
  OBVIOUS
<1>2. n \in Nat \ {0} /\ DOMAIN lengths = 1 .. n /\ \A i \in 1 .. n : lengths[i] \in Nat \ {0}
  BY <1>1
<1>3. /\ sum[0] = 0
      /\ \A i \in 1 .. n : sum[i] = sum[i - 1] + lengths[i]
      /\ \A i \in 0 .. n : sum[i] \in Nat
      /\ \A i, j \in 0 .. n : i <= j => sum[i] <= sum[j]
  <2>1. lengths \in Seq(Int) /\ lengths \in Seq(Nat)
    BY <1>1, <1>2
  <2> QED
    BY <1>1, <2>1, SumsStep, SumsGrow
<1>4. spans = [i \in 1 .. n |-> Span(base + (sum[i - 1] + i - 1), base + (sum[i] + i - 1))]
  <2>1. PICK s : s = Sentences(lengths)
    OBVIOUS
  <2>2. s = [i \in 1 .. n |-> Span(sum[i - 1] + i - 1, sum[i] + i - 1)]
    BY <1>1, <1>2, <2>1 DEF Sentences
  <2>3. \A i \in 1 .. n : s[i].from = sum[i - 1] + i - 1 /\ s[i].to = sum[i] + i - 1
    BY <2>2 DEF Span
  <2>4. spans = [i \in 1 .. n |-> Span(base + s[i].from, base + s[i].to)]
    BY <1>1, <2>1, <2>2 DEF Moved
  <2> QED
    BY <2>3, <2>4
<1>5. ASSUME NEW i \in 1 .. n
      PROVE  /\ sum[i - 1] \in Nat /\ sum[i] \in Nat /\ sum[i - 1] < sum[i]
             /\ spans[i].from = base + (sum[i - 1] + i - 1) /\ spans[i].to = base + (sum[i] + i - 1)
             /\ spans[i] \in AnySpan
  <2>1. i - 1 \in 0 .. n /\ i \in 0 .. n
    BY <1>2
  <2>2. sum[i - 1] \in Nat /\ sum[i] \in Nat /\ lengths[i] \in Nat \ {0} /\ sum[i] = sum[i - 1] + lengths[i]
    BY <1>2, <1>3, <2>1
  <2>3. spans[i] = Span(base + (sum[i - 1] + i - 1), base + (sum[i] + i - 1))
    BY <1>4
  <2>4. base + (sum[i - 1] + i - 1) \in Int /\ base + (sum[i] + i - 1) \in Int
    BY <2>2
  <2>5. spans[i].from = base + (sum[i - 1] + i - 1) /\ spans[i].to = base + (sum[i] + i - 1) /\ spans[i] \in AnySpan
    BY <2>3, <2>4 DEF Span, AnySpan
  <2> QED
    BY <2>2, <2>5
<1>6. spans \in Seq(AnySpan) /\ Len(spans) = n
  <2>1. spans = [i \in 1 .. n |-> spans[i]]
    BY <1>4
  <2> QED
    BY SMTT(30), <1>2, <1>5, <2>1
<1>7. ASSUME NEW i \in 1 .. n PROVE spans[i].from < spans[i].to
  <2>1. PICK x \in Nat, y \in Nat, k \in Int : x = sum[i - 1] /\ y = sum[i] /\ k = i /\ x < y
    BY <1>5
  <2>2. spans[i].from = base + (x + k - 1) /\ spans[i].to = base + (y + k - 1)
    BY <1>5, <2>1
  <2>3. base + (x + k - 1) < base + (y + k - 1)
    BY SMTT(30), <2>1
  <2> QED
    BY <2>2, <2>3
<1>8. ASSUME NEW i \in 1 .. n, NEW j \in 1 .. n, i < j PROVE spans[i].to < spans[j].from
  <2>1. i \in 0 .. n /\ j - 1 \in 0 .. n /\ i <= j - 1
    BY <1>2, <1>8
  <2>2. sum[i] <= sum[j - 1] /\ sum[i] \in Nat /\ sum[j - 1] \in Nat
    BY <1>3, <2>1
  <2> QED
    BY <1>5, <1>8, <2>2
<1>9. spans[1].from = base
  <2>1. PICK k : k = 1
    OBVIOUS
  <2>2. k \in 1 .. n /\ k - 1 = 0
    BY <1>2, <2>1
  <2>3. spans[k].from = base + (sum[k - 1] + k - 1) /\ sum[k - 1] = 0
    BY <1>3, <1>5, <2>2
  <2> QED
    BY <2>1, <2>2, <2>3
<1> QED
  BY <1>1, <1>2, <1>6, <1>7, <1>8, <1>9 DEF Spaced

\* Chunks within a block.
LEMMA AdvancesBy ==
  ASSUME NEW chunks \in Seq(AnySpan), Rises(chunks), NEW block, NEW size \in Nat,
         block.from \in Int, block.to \in Int,
         \A c \in ToSet(chunks) : block.from <= c.from /\ c.to <= block.to /\ c.to - c.from \in 1 .. size
  PROVE  Advances(chunks, block, size)
<1>1. ASSUME NEW i \in DOMAIN chunks
      PROVE  /\ chunks[i].from >= block.from /\ chunks[i].to <= block.to
             /\ Length(chunks[i]) \in 1 .. size
             /\ i > 1 => chunks[i - 1].from < chunks[i].from
  <2>1. i \in 1 .. Len(chunks) /\ Len(chunks) \in Nat /\ chunks[i].from \in Int /\ chunks[i] \in ToSet(chunks)
    <3>1. i \in 1 .. Len(chunks) /\ Len(chunks) \in Nat
      OBVIOUS
    <3>2. chunks[i].from \in Int
      BY <3>1, SpansTyped
    <3> QED
      BY <3>1, <3>2 DEF ToSet
  <2>2. i > 1 => i \in 2 .. Len(chunks)
    BY <2>1
  <2> QED
    BY <2>1, <2>2 DEF Rises, Length
<1> QED
  BY <1>1 DEF Advances

\* ingestion_pipeline: no character of a sentence or of a block is lost between two
\* chunks, whatever their lengths, the size and the overlap.
LEMMA TextAlwaysCovered ==
  ASSUME NEW lengths \in Seq(Nat \ {0}), lengths # <<>>, NEW base \in Nat,
         NEW size \in Nat \ {0}, NEW overlap \in Nat
  PROVE  TextCovered(lengths, base, size, overlap)
<1>1. PICK spans : spans = Moved(Sentences(lengths), base)
  OBVIOUS
<1>2. PICK block : block = Span(base, spans[Len(spans)].to)
  OBVIOUS
<1>3. PICK semantic, paragraph : semantic = Semantic(spans, size, overlap) /\ paragraph = Paragraph(block, size, overlap)
  OBVIOUS
<1>4. Spaced(spans) /\ DOMAIN spans = 1 .. Len(spans) /\ spans[1].from = base
  BY <1>1, SentencesSpaced
<1>5. block.from = base /\ block.to = spans[Len(spans)].to /\ block = Span(block.from, block.to)
  BY <1>2 DEF Span
<1>6. block.from \in Int /\ block.to \in Int /\ block.from < block.to
  <2>1. PICK n : n = Len(spans)
    OBVIOUS
  <2>2. 1 \in 1 .. n /\ n \in 1 .. n /\ 1 <= n /\ n <= n
    BY <1>4, <2>1 DEF Spaced
  <2>3. spans[1].from \in Int /\ spans[n].to \in Int /\ spans[1].from <= spans[n].from /\ spans[n].from \in Int
    BY <1>4, <2>1, <2>2, SpacedOrder
  <2>4. spans[n].from < spans[n].to
    BY <1>4, <2>1, <2>2, SpacedOrder
  <2> QED
    BY <1>4, <1>5, <2>1, <2>3, <2>4
<1>7. /\ semantic \in Seq(AnySpan) /\ Rises(semantic)
      /\ \A c \in ToSet(semantic) : InText(c, spans, size)
      /\ \A i \in 1 .. Len(spans) : Covers(semantic, spans[i])
  BY <1>3, <1>4, SemanticHolds
<1>8. Advances(semantic, block, size)
  <2>1. \A c \in ToSet(semantic) : block.from <= c.from /\ c.to <= block.to /\ c.to - c.from \in 1 .. size
    BY <1>4, <1>5, <1>7 DEF InText
  <2> QED
    BY <1>6, <1>7, <2>1, AdvancesBy
<1>9. Tiles(paragraph, block, size)
  BY <1>3, <1>5, <1>6, ParagraphTiles
<1>10. Covers(paragraph, block)
  BY <1>9, TilesCover
<1>11. Advances(paragraph, block, size)
  <2>1. paragraph \in Seq(AnySpan) /\ Rises(paragraph) /\ DOMAIN paragraph = 1 .. Len(paragraph)
    BY <1>9 DEF Tiles
  <2>2. ASSUME NEW c \in ToSet(paragraph)
        PROVE  block.from <= c.from /\ c.to <= block.to /\ c.to - c.from \in 1 .. size
    <3>1. PICK i \in 1 .. Len(paragraph) : c = paragraph[i]
      BY <2>1 DEF ToSet
    <3> QED
      BY <1>9, <3>1 DEF Tiles
  <2> QED
    BY <1>6, <2>1, <2>2, AdvancesBy
<1> QED
  BY <1>1, <1>2, <1>3, <1>4, <1>7, <1>8, <1>10, <1>11 DEF TextCovered

-----------------------------------------------------------------------------
(* Streams: a turn and a status.                                           *)

\* The parser's state after the lines is the last of states that follow each other.
LEMMA HeardIs ==
  ASSUME NEW of, NEW lines, Len(lines) \in Nat, NEW h, h[0] = Start,
         \A i \in 1 .. Len(lines) : h[i] = Line(of, h[i - 1], lines[i])
  PROVE  Heard(of, lines) = h[Len(lines)]
<1> DEFINE n == Len(lines)
           Solves(f) == f = [i \in 0 .. n |-> IF i = 0 THEN Start ELSE Line(of, f[i - 1], lines[i])]
           f == [i \in 0 .. n |-> h[i]]
           c == CHOOSE g : Solves(g)
<1>1. n \in Nat
  OBVIOUS
<1> HIDE DEF n
<1>2. Solves(f)
  <2>1. ASSUME NEW i \in 0 .. n PROVE f[i] = IF i = 0 THEN Start ELSE Line(of, f[i - 1], lines[i])
    <3>1. CASE i = 0
      BY <1>1, <3>1
    <3>2. CASE i # 0
      <4>1. i \in 1 .. n /\ i - 1 \in 0 .. n
        BY <1>1, <3>2
      <4>2. h[i] = Line(of, h[i - 1], lines[i]) /\ f[i] = h[i] /\ f[i - 1] = h[i - 1]
        BY <4>1 DEF n
      <4> HIDE DEF f
      <4> QED
        BY <3>2, <4>2
    <3> QED
      BY <3>1, <3>2
  <2>2. f = [i \in 0 .. n |-> f[i]]
    OBVIOUS
  <2> HIDE DEF f
  <2> QED
    BY <2>1, <2>2
<1>3. Solves(c)
  BY <1>2, Zenon
<1>4. Heard(of, lines) = c[n]
  BY Zenon DEF Heard, n
<1> HIDE DEF c
<1>5. \A i \in 0 .. n : c[i] = IF i = 0 THEN Start ELSE Line(of, c[i - 1], lines[i])
  BY <1>3
<1> DEFINE T == {i \in 0 .. n : c[i] = h[i]}
<1>6. 0 \in T
  <2>1. 0 \in 0 .. n
    BY <1>1
  <2> QED
    BY <1>5, <2>1
<1>7. ASSUME NEW i \in 0 .. n - 1, i \in T PROVE i + 1 \in T
  <2>1. PICK j : j = i + 1
    OBVIOUS
  <2>2. j \in 1 .. n /\ j - 1 = i /\ j \in 0 .. n /\ j # 0
    BY <1>1, <2>1
  <2>3. c[j] = Line(of, c[i], lines[j]) /\ h[j] = Line(of, h[i], lines[j]) /\ c[i] = h[i]
    BY <1>5, <1>7, <2>2 DEF n
  <2> QED
    BY <2>1, <2>2, <2>3
<1> HIDE DEF T
<1>8. n \in T
  <2>1. \A i \in 0 .. n : i \in T
    BY <1>1, <1>6, <1>7, UpTo
  <2> QED
    BY <1>1, <2>1
<1> QED
  BY <1>4, <1>8 DEF T, n

\* A state of the parser.
Parser(name, data, out, error) == [name |-> name, data |-> data, out |-> out, error |-> error]

\* What is made of an event that is complete.
LEMMA Flushed ==
  ASSUME NEW of, NEW name, NEW data, NEW out, NEW error
  PROVE  /\ name = None /\ data = <<>> => Flush(of, Parser(name, data, out, error)) = Parser(name, data, out, error)
         /\ ~(name = None /\ data = <<>>) =>
              Flush(of, Parser(name, data, out, error))
                = Parser(None, <<>>, out \o Dispatch(of, name, data).out, Dispatch(of, name, data).error)
<1>1. PICK s, d : s = Parser(name, data, out, error) /\ d = Dispatch(of, name, data)
  OBVIOUS
<1>2. s = [name |-> name, data |-> data, out |-> out, error |-> error]
  BY <1>1 DEF Parser
<1>3. s.name = name /\ s.data = data
  BY <1>2
<1>4. Flush(of, s) = IF name = None /\ data = <<>> THEN s
                     ELSE [Reset(s) EXCEPT !.out = @ \o d.out, !.error = d.error]
  BY <1>1, <1>3 DEF Flush
<1>5. Reset(s) = [name |-> None, data |-> <<>>, out |-> out, error |-> error]
  <2>1. Reset(s) = [[s EXCEPT !.name = None] EXCEPT !.data = <<>>]
    BY DEF Reset
  <2>2. [s EXCEPT !.name = None] = [name |-> None, data |-> data, out |-> out, error |-> error]
    BY <1>2
  <2> QED
    BY <2>1, <2>2
<1>6. [Reset(s) EXCEPT !.out = @ \o d.out, !.error = d.error]
        = [name |-> None, data |-> <<>>, out |-> out \o d.out, error |-> d.error]
  <2>1. PICK r, o, e : r = Reset(s) /\ o = out \o d.out /\ e = d.error
    OBVIOUS
  <2>2. r.out \o d.out = o
    BY <1>5, <2>1
  <2>3. [Reset(s) EXCEPT !.out = @ \o d.out, !.error = d.error] = [[r EXCEPT !.out = o] EXCEPT !.error = e]
    BY <2>1, <2>2, Zenon
  <2>4. PICK q : q = [r EXCEPT !.out = o]
    OBVIOUS
  <2>5. q = [name |-> None, data |-> <<>>, out |-> o, error |-> error]
    <3>1. r = [name |-> None, data |-> <<>>, out |-> out, error |-> error]
      BY <1>5, <2>1, Zenon
    <3> QED
      BY <2>4, <3>1
  <2>6. [q EXCEPT !.error = e] = [name |-> None, data |-> <<>>, out |-> o, error |-> e]
    BY <2>5
  <2> QED
    BY <2>1, <2>3, <2>4, <2>6, Zenon
<1> QED
  BY <1>1, <1>4, <1>6 DEF Parser

\* What a line does to a state without an error.
LEMMA EventLine ==
  ASSUME NEW of, NEW name, NEW data, NEW out, NEW value, NEW line, line = [field |-> "event", value |-> value]
  PROVE  Line(of, Parser(name, data, out, "none"), line) = Parser(value, data, out, "none")
<1>1. PICK s : s = Parser(name, data, out, "none")
  OBVIOUS
<1>2. s = [name |-> name, data |-> data, out |-> out, error |-> "none"] /\ s.error = "none"
  BY <1>1 DEF Parser
<1>3. Line(of, s, line) = [s EXCEPT !.name = value]
  BY <1>2 DEF Line
<1>4. [s EXCEPT !.name = value] = [name |-> value, data |-> data, out |-> out, error |-> "none"]
  BY <1>2
<1> QED
  BY <1>1, <1>3, <1>4 DEF Parser

\* A data line is kept.
LEMMA DataLine ==
  ASSUME NEW of, NEW name, NEW data, NEW out, NEW value, NEW line, line = [field |-> "data", value |-> value]
  PROVE  Line(of, Parser(name, data, out, "none"), line) = Parser(name, Append(data, value), out, "none")
<1>1. PICK s : s = Parser(name, data, out, "none")
  OBVIOUS
<1>2. s = [name |-> name, data |-> data, out |-> out, error |-> "none"] /\ s.error = "none"
  BY <1>1 DEF Parser
<1>3. Line(of, s, line) = [s EXCEPT !.data = Append(@, value)]
  BY <1>2 DEF Line
<1>4. [s EXCEPT !.data = Append(@, value)] = [name |-> name, data |-> Append(data, value), out |-> out, error |-> "none"]
  BY <1>2
<1> QED
  BY <1>1, <1>3, <1>4 DEF Parser

\* A blank line ends the event.
LEMMA BlankLine ==
  ASSUME NEW of, NEW name, NEW data, NEW out, NEW line, line = [field |-> "blank"]
  PROVE  Line(of, Parser(name, data, out, "none"), line) = Flush(of, Parser(name, data, out, "none"))
<1>1. PICK s : s = Parser(name, data, out, "none")
  OBVIOUS
<1>2. s.error = "none"
  BY <1>1 DEF Parser
<1> QED
  BY <1>1, <1>2 DEF Line

\* The lines of an event among those of all.
LEMMA WireOf ==
  ASSUME NEW events, Len(events) \in Nat
  PROVE  /\ Len(Wire(events)) = 3 * Len(events) /\ DOMAIN Wire(events) = 1 .. 3 * Len(events)
         /\ \A k \in 0 .. Len(events) - 1, r \in 1 .. 3 : Wire(events)[3 * k + r] = Lines(events[k + 1])[r]
<1>1. PICK m : m = Len(events)
  OBVIOUS
<1>2. Wire(events) = [n \in 1 .. 3 * m |-> Lines(events[(n + 2) \div 3])[((n - 1) % 3) + 1]]
  BY <1>1 DEF Wire
<1>3. ASSUME NEW k \in 0 .. m - 1, NEW r \in 1 .. 3 PROVE Wire(events)[3 * k + r] = Lines(events[k + 1])[r]
  <2>1. PICK n : n = 3 * k + r
    OBVIOUS
  <2>2. n \in 1 .. 3 * m /\ (n + 2) \div 3 = k + 1 /\ ((n - 1) % 3) + 1 = r
    BY <1>1, <2>1
  <2> QED
    BY <1>2, <2>1, <2>2
<1>4. Len(Wire(events)) = 3 * m /\ DOMAIN Wire(events) = 1 .. 3 * m
  <2>1. PICK n \in Nat : n = 3 * m
    BY <1>1
  <2>2. PICK w : w = Wire(events)
    OBVIOUS
  <2>3. w = [i \in 1 .. n |-> Lines(events[(i + 2) \div 3])[((i - 1) % 3) + 1]]
    BY <1>2, <2>1, <2>2, Zenon
  <2>4. DOMAIN w = 1 .. n /\ Len(w) = n
    BY <2>1, <2>3
  <2> QED
    BY <2>1, <2>2, <2>4, Zenon
<1> QED
  BY <1>1, <1>3, <1>4

\* Events of which the first g are yielded and one more may follow, that is not.
Shaped(of, events, g, X) ==
  /\ events \in Seq(X) /\ Len(events) \in Nat /\ g \in Nat /\ g <= Len(events) /\ Len(events) <= g + 1
  /\ \A k \in 1 .. Len(events) : events[k].name # None
  /\ \A k \in 1 .. g : Dispatch(of, events[k].name, <<events[k].payload>>) = Yields(events[k])
  /\ \A k \in 1 .. Len(events) :
       k > g => Dispatch(of, events[k].name, <<events[k].payload>>).out = <<>>

\* What k events yield, and the exception after them.
Given(events, g, k) == SubSeq(events, 1, IF k < g THEN k ELSE g)
Ended(of, events, g, k) ==
  IF k <= g THEN "none" ELSE Dispatch(of, events[k].name, <<events[k].payload>>).error

\* The parser after k events and r lines of the next.
After(of, events, g, k, r) ==
  IF r = 0 THEN Parser(None, <<>>, Given(events, g, k), Ended(of, events, g, k))
  ELSE Parser(events[k + 1].name, IF r = 1 THEN <<>> ELSE <<events[k + 1].payload>>,
              Given(events, g, k), "none")

\* One more event.
LEMMA GivenMore ==
  ASSUME NEW of, NEW X, NEW events, NEW g, Shaped(of, events, g, X), NEW k \in 0 .. Len(events) - 1
  PROVE  /\ Given(events, g, k) \o Dispatch(of, events[k + 1].name, <<events[k + 1].payload>>).out
              = Given(events, g, k + 1)
         /\ Dispatch(of, events[k + 1].name, <<events[k + 1].payload>>).error = Ended(of, events, g, k + 1)
         /\ Ended(of, events, g, k) = "none"
<1>1. /\ events \in Seq(X) /\ Len(events) \in Nat /\ g \in Nat /\ g <= Len(events) /\ Len(events) <= g + 1
      /\ k \in Nat /\ k <= g
  BY DEF Shaped
<1>2. PICK j, d : j = k + 1 /\ d = Dispatch(of, events[k + 1].name, <<events[k + 1].payload>>)
  OBVIOUS
<1>3. j \in 1 .. Len(events) /\ j - 1 = k /\ 1 \in 1 .. Len(events)
  BY <1>1, <1>2
<1>4. CASE j <= g
  <2>1. d = Yields(events[j]) /\ j \in 1 .. g
    BY <1>1, <1>2, <1>3, <1>4 DEF Shaped
  <2>2. d.out = <<events[j]>> /\ d.error = "none"
    BY <2>1 DEF Yields
  <2>3. Given(events, g, j) = SubSeq(events, 1, j)
    <3>1. (IF j < g THEN j ELSE g) = j
      BY <1>1, <1>3, <1>4
    <3> QED
      BY <3>1 DEF Given
  <2>4. Given(events, g, k) = SubSeq(events, 1, k)
    <3>1. (IF k < g THEN k ELSE g) = k
      BY <1>1, <1>3, <1>4
    <3> QED
      BY <3>1 DEF Given
  <2>5. SubSeq(events, 1, j) = SubSeq(events, 1, k) \o <<events[j]>>
    <3>1. SubSeq(events, 1, j) = SubSeq(events, 1, j - 1) \o <<events[j]>>
      BY <1>1, <1>3, SubSeqRecursiveSecond
    <3> QED
      BY <1>3, <3>1
  <2>6. Ended(of, events, g, j) = "none" /\ Ended(of, events, g, k) = "none"
    BY <1>1, <1>4 DEF Ended
  <2> QED
    BY <1>2, <2>2, <2>3, <2>4, <2>5, <2>6, Zenon
<1>5. CASE j > g
  <2>1. d.out = <<>>
    BY <1>2, <1>3, <1>5 DEF Shaped
  <2>2. Given(events, g, j) = SubSeq(events, 1, g) /\ Given(events, g, k) = SubSeq(events, 1, g)
    <3>1. (IF j < g THEN j ELSE g) = g /\ (IF k < g THEN k ELSE g) = g
      BY <1>1, <1>3, <1>5
    <3> QED
      BY <3>1 DEF Given
  <2>3. SubSeq(events, 1, g) \in Seq(X)
    <3>1. \A i \in 1 .. g : events[i] \in X
      BY <1>1
    <3> QED
      BY <1>1, <3>1, SubSeqProperties
  <2>4. SubSeq(events, 1, g) \o <<>> = SubSeq(events, 1, g)
    BY <2>3, ConcatEmptySeq
  <2>5. Ended(of, events, g, j) = d.error
    <3>1. ~(j <= g)
      BY <1>1, <1>3, <1>5
    <3> QED
      BY <1>2, <3>1 DEF Ended
  <2>6. Ended(of, events, g, k) = "none"
    BY <1>1 DEF Ended
  <2> QED
    BY <1>2, <2>1, <2>2, <2>4, <2>5, <2>6, Zenon
<1>6. j <= g \/ j > g
  BY <1>1, <1>3
<1> QED
  BY <1>4, <1>5, <1>6, Zenon

\* An event that is flushed, whole or not.
LEMMA FlushedAfter ==
  ASSUME NEW of, NEW X, NEW events, NEW g, Shaped(of, events, g, X), NEW k \in 0 .. Len(events) - 1
  PROVE  Flush(of, After(of, events, g, k, 2)) = After(of, events, g, k + 1, 0)
<1>1. PICK e, d, o : /\ e = events[k + 1] /\ d = Dispatch(of, e.name, <<e.payload>>)
                     /\ o = Given(events, g, k)
  OBVIOUS
<1>2. k + 1 \in 1 .. Len(events)
  BY DEF Shaped
<1>3. e.name # None
  BY <1>1, <1>2 DEF Shaped
<1>4. After(of, events, g, k, 2) = Parser(e.name, <<e.payload>>, o, "none")
  BY <1>1 DEF After
<1>5. Flush(of, Parser(e.name, <<e.payload>>, o, "none")) = Parser(None, <<>>, o \o d.out, d.error)
  BY <1>1, <1>3, Flushed
<1>6. /\ o \o d.out = Given(events, g, k + 1) /\ d.error = Ended(of, events, g, k + 1)
  <2>1. /\ Given(events, g, k) \o Dispatch(of, events[k + 1].name, <<events[k + 1].payload>>).out
             = Given(events, g, k + 1)
        /\ Dispatch(of, events[k + 1].name, <<events[k + 1].payload>>).error = Ended(of, events, g, k + 1)
    BY GivenMore
  <2> QED
    BY <1>1, <2>1
<1> QED
  BY <1>4, <1>5, <1>6 DEF After

\* One more line of an event.
LEMMA LineAfter ==
  ASSUME NEW of, NEW X, NEW events, NEW g, Shaped(of, events, g, X), NEW k \in 0 .. Len(events) - 1
  PROVE  /\ Line(of, After(of, events, g, k, 0), Wire(events)[3 * k + 1]) = After(of, events, g, k, 1)
         /\ Line(of, After(of, events, g, k, 1), Wire(events)[3 * k + 2]) = After(of, events, g, k, 2)
         /\ Line(of, After(of, events, g, k, 2), Wire(events)[3 * k + 3]) = After(of, events, g, k + 1, 0)
<1>1. PICK e, o : e = events[k + 1] /\ o = Given(events, g, k)
  OBVIOUS
<1>2. /\ Wire(events)[3 * k + 1] = Lines(e)[1] /\ Wire(events)[3 * k + 2] = Lines(e)[2]
      /\ Wire(events)[3 * k + 3] = Lines(e)[3]
  <2>1. Len(events) \in Nat /\ 1 \in 1 .. 3 /\ 2 \in 1 .. 3 /\ 3 \in 1 .. 3
    BY DEF Shaped
  <2> QED
    BY <1>1, <2>1, WireOf
<1>3. /\ Lines(e)[1] = [field |-> "event", value |-> e.name] /\ Lines(e)[2] = [field |-> "data", value |-> e.payload]
      /\ Lines(e)[3] = [field |-> "blank"]
  BY DEF Lines
<1>4. Ended(of, events, g, k) = "none"
  BY GivenMore
<1>5. /\ After(of, events, g, k, 0) = Parser(None, <<>>, o, "none")
      /\ After(of, events, g, k, 1) = Parser(e.name, <<>>, o, "none")
      /\ After(of, events, g, k, 2) = Parser(e.name, <<e.payload>>, o, "none")
  BY <1>1, <1>4 DEF After
<1>6. Append(<<>>, e.payload) = <<e.payload>>
  OBVIOUS
<1>7. Flush(of, After(of, events, g, k, 2)) = After(of, events, g, k + 1, 0)
  BY FlushedAfter
<1>8. PICK l1, l2, l3 : l1 = Lines(e)[1] /\ l2 = Lines(e)[2] /\ l3 = Lines(e)[3]
  OBVIOUS
<1>9. Line(of, Parser(None, <<>>, o, "none"), l1) = Parser(e.name, <<>>, o, "none")
  BY <1>3, <1>8, EventLine
<1>10. Line(of, Parser(e.name, <<>>, o, "none"), l2) = Parser(e.name, <<e.payload>>, o, "none")
  <2>1. PICK n, v, d : n = e.name /\ v = e.payload /\ d = <<>>
    OBVIOUS
  <2>2. l2 = [field |-> "data", value |-> v]
    BY <1>3, <1>8, <2>1
  <2>3. Line(of, Parser(n, d, o, "none"), l2) = Parser(n, Append(d, v), o, "none")
    BY <2>2, DataLine
  <2> QED
    BY <1>6, <2>1, <2>3
<1>11. Line(of, Parser(e.name, <<e.payload>>, o, "none"), l3)
         = Flush(of, Parser(e.name, <<e.payload>>, o, "none"))
  <2>1. l3 = [field |-> "blank"]
    BY <1>3, <1>8
  <2> QED
    BY <2>1, BlankLine
<1> QED
  BY <1>2, <1>5, <1>7, <1>8, <1>9, <1>10, <1>11, Zenon

\* The states of the parser, line after line.
States(of, events, g) == [n \in 0 .. 3 * Len(events) |-> After(of, events, g, n \div 3, n % 3)]

\* They follow each other.
LEMMA StatesFollow ==
  ASSUME NEW of, NEW X, NEW events, NEW g, Shaped(of, events, g, X)
  PROVE  /\ States(of, events, g)[0] = Start
         /\ \A i \in 1 .. 3 * Len(events) :
              States(of, events, g)[i] = Line(of, States(of, events, g)[i - 1], Wire(events)[i])
         /\ \A k \in 0 .. Len(events), r \in 0 .. 2 :
              3 * k + r <= 3 * Len(events) => States(of, events, g)[3 * k + r] = After(of, events, g, k, r)
<1>1. PICK h, m : h = States(of, events, g) /\ m = Len(events)
  OBVIOUS
<1>2. m \in Nat /\ g \in Nat
  BY <1>1 DEF Shaped
<1>3. ASSUME NEW k \in 0 .. m, NEW r \in 0 .. 2, 3 * k + r <= 3 * m PROVE h[3 * k + r] = After(of, events, g, k, r)
  <2>1. PICK n : n = 3 * k + r
    OBVIOUS
  <2>2. n \in 0 .. 3 * m /\ n \div 3 = k /\ n % 3 = r
    BY <1>2, <1>3, <2>1
  <2> QED
    BY <1>1, <2>1, <2>2 DEF States
<1>4. h[0] = Start
  <2>1. h[0] = After(of, events, g, 0, 0)
    <3>1. 0 \in 0 .. m /\ 0 \in 0 .. 2 /\ 3 * 0 + 0 = 0 /\ 0 <= 3 * m
      BY <1>2
    <3> QED
      BY <1>3, <3>1
  <2>2. Given(events, g, 0) = <<>>
    <3>1. (IF 0 < g THEN 0 ELSE g) = 0
      BY <1>2
    <3>2. SubSeq(events, 1, 0) = <<>>
      BY SubSeqEmpty
    <3> QED
      BY <3>1, <3>2 DEF Given
  <2>3. Ended(of, events, g, 0) = "none"
    BY <1>2 DEF Ended
  <2> QED
    BY <2>1, <2>2, <2>3 DEF After, Parser, Start
<1>5. ASSUME NEW i \in 1 .. 3 * m PROVE h[i] = Line(of, h[i - 1], Wire(events)[i])
  <2>1. PICK k, r : k = (i - 1) \div 3 /\ r = (i - 1) % 3
    OBVIOUS
  <2>2. k \in 0 .. m - 1 /\ r \in 0 .. 2 /\ i - 1 = 3 * k + r
    BY <1>2, <2>1
  <2>3. k \in 0 .. m /\ 3 * k + r <= 3 * m
    BY <1>2, <2>2
  <2>4. h[i - 1] = After(of, events, g, k, r)
    BY <1>3, <2>2, <2>3
  <2>5. CASE r = 0
    <3>1. i = 3 * k + 1 /\ 1 \in 0 .. 2 /\ 3 * k + 1 <= 3 * m
      BY <1>2, <2>2, <2>5
    <3>2. h[i] = After(of, events, g, k, 1)
      BY <1>3, <2>3, <3>1
    <3> QED
      BY <1>1, <2>2, <2>4, <2>5, <3>1, <3>2, LineAfter
  <2>6. CASE r = 1
    <3>1. i = 3 * k + 2 /\ 2 \in 0 .. 2 /\ 3 * k + 2 <= 3 * m
      BY <1>2, <2>2, <2>6
    <3>2. h[i] = After(of, events, g, k, 2)
      BY <1>3, <2>3, <3>1
    <3> QED
      BY <1>1, <2>2, <2>4, <2>6, <3>1, <3>2, LineAfter
  <2>7. CASE r = 2
    <3>1. PICK j : j = k + 1
      OBVIOUS
    <3>2. i = 3 * k + 3 /\ i = 3 * j + 0 /\ 0 \in 0 .. 2 /\ j \in 0 .. m /\ 3 * j + 0 <= 3 * m
      BY <1>2, <2>2, <2>7, <3>1
    <3>3. h[i] = After(of, events, g, j, 0)
      BY <1>3, <3>2
    <3> QED
      BY <1>1, <2>2, <2>4, <2>7, <3>1, <3>2, <3>3, LineAfter
  <2> QED
    BY <2>2, <2>5, <2>6, <2>7
<1> QED
  BY <1>1, <1>3, <1>4, <1>5

\* h has the parser's state after each of the lines.
Follows(of, lines, h) ==
  h[0] = Start /\ \A i \in 1 .. Len(lines) : h[i] = Line(of, h[i - 1], lines[i])

\* One more line.
LEMMA HeardMore ==
  ASSUME NEW of, NEW S, NEW lines \in Seq(S), NEW line \in S, NEW h, Follows(of, lines, h)
  PROVE  Heard(of, lines \o <<line>>) = Line(of, h[Len(lines)], line)
<1>1. h[0] = Start /\ \A i \in 1 .. Len(lines) : h[i] = Line(of, h[i - 1], lines[i])
  BY DEF Follows
<1>2. PICK n, more : n = Len(lines) /\ more = lines \o <<line>>
  OBVIOUS
<1>3. n \in Nat /\ <<line>> \in Seq(S) /\ Len(<<line>>) = 1 /\ <<line>>[1] = line
  BY <1>2
<1>4. Len(more) = n + 1 /\ \A i \in 1 .. n + 1 : more[i] = IF i <= n THEN lines[i] ELSE <<line>>[i - n]
  <2>1. /\ Len(lines \o <<line>>) = Len(lines) + Len(<<line>>)
        /\ \A i \in 1 .. Len(lines) + Len(<<line>>) :
             (lines \o <<line>>)[i] = IF i <= Len(lines) THEN lines[i] ELSE <<line>>[i - Len(lines)]
    BY <1>3, ConcatProperties
  <2> QED
    BY <1>2, <1>3, <2>1
<1>5. PICK j : j = n + 1
  OBVIOUS
<1>6. j \in Nat /\ j = Len(more) /\ ~(j <= n) /\ j - n = 1 /\ j - 1 = n /\ j \in 1 .. n + 1
  BY <1>3, <1>4, <1>5
<1>7. more[j] = line
  BY <1>3, <1>4, <1>6
<1>8. PICK f : f = [i \in 0 .. j |-> IF i = j THEN Line(of, h[n], line) ELSE h[i]]
  OBVIOUS
<1>9. f[0] = Start /\ f[j] = Line(of, h[n], line)
  <2>1. 0 \in 0 .. j /\ 0 # j /\ j \in 0 .. j
    BY <1>3, <1>5
  <2> QED
    BY <1>1, <1>8, <2>1
<1>10. ASSUME NEW i \in 1 .. j PROVE f[i] = Line(of, f[i - 1], more[i])
  <2>1. i \in 0 .. j /\ i - 1 \in 0 .. j /\ i - 1 # j
    BY <1>6
  <2>2. f[i - 1] = h[i - 1]
    BY <1>8, <2>1
  <2>3. CASE i = j
    BY <1>6, <1>7, <1>9, <2>2, <2>3
  <2>4. CASE i # j
    <3>1. i \in 1 .. n /\ i \in 1 .. n + 1 /\ i <= n
      BY <1>3, <1>5, <2>4
    <3>2. f[i] = h[i] /\ more[i] = lines[i] /\ h[i] = Line(of, h[i - 1], lines[i])
      BY <1>1, <1>2, <1>4, <1>8, <2>1, <2>4, <3>1
    <3> QED
      BY <2>2, <3>2
  <2> QED
    BY <2>3, <2>4
<1>11. Heard(of, more) = f[Len(more)]
  BY <1>6, <1>9, <1>10, HeardIs
<1> QED
  BY <1>2, <1>6, <1>9, <1>11

\* An event of which the payload is missing or half there yields nothing.
LEMMA BrokenDispatched ==
  ASSUME NEW of, NEW name, NEW data, Decoded(data) = Broken
  PROVE  /\ Dispatch(of, name, data).out = <<>>
         /\ Dispatch(of, name, data).error = "none" => name = "done"
<1>1. Broken.form = "broken" /\ Broken # Marker
  BY DEF Broken, Marker
<1>2. CASE of = "turn"
  <2>1. Dispatch(of, name, data) = DispatchTurn(name, data)
    BY <1>2 DEF Dispatch
  <2>2. DispatchTurn(name, data) = CASE name = "done" -> Skips
                                     [] name = "error" -> Throws("api")
                                     [] name = "token" -> Throws("ValueError")
                                     [] OTHER -> Throws("api")
    BY <1>1 DEF DispatchTurn
  <2> QED
    BY <2>1, <2>2 DEF Skips, Throws
<1>3. CASE of # "turn"
  <2>1. Dispatch(of, name, data) = DispatchStatus(name, data)
    BY <1>3 DEF Dispatch
  <2>2. DispatchStatus(name, data) = Throws("api")
    BY <1>1 DEF DispatchStatus
  <2> QED
    BY <2>1, <2>2 DEF Throws
<1> QED
  BY <1>2, <1>3

\* The parser after the lines that arrived of the events.
Hears(of, events, g, k, r, torn) ==
  CASE torn = "late" /\ k < Len(events) /\ r = 0 -> Parser("torn", <<>>, Given(events, g, k), "none")
    [] torn = "late" /\ k < Len(events) /\ r = 1 -> Parser(events[k + 1].name, <<Broken>>, Given(events, g, k), "none")
    [] OTHER -> After(of, events, g, k, r)

\* Events cut after k of them and r lines of the next.
CutAt(of, events, g, X, k, r, cut, torn) ==
  /\ Shaped(of, events, g, X) /\ k \in 0 .. Len(events) /\ r \in 0 .. 2
  /\ cut \in 0 .. 3 * Len(events) /\ cut = 3 * k + r /\ torn \in Tears

\* Wherever the connection ended.
LEMMA ArrivedHeard ==
  ASSUME NEW of, NEW X, NEW events, NEW g, NEW k, NEW r, NEW cut, NEW torn,
         CutAt(of, events, g, X, k, r, cut, torn)
  PROVE  Heard(of, Arrived(events, cut, torn)) = Hears(of, events, g, k, r, torn)
<1>1. /\ Shaped(of, events, g, X) /\ k \in 0 .. Len(events) /\ r \in 0 .. 2
      /\ cut \in 0 .. 3 * Len(events) /\ cut = 3 * k + r /\ torn \in Tears
  BY DEF CutAt
<1> USE <1>1
<1>2. PICK m, all, h : m = Len(events) /\ all = Wire(events) /\ h = States(of, events, g)
  OBVIOUS
<1>3. /\ m \in Nat /\ k \in 0 .. m /\ cut \in 0 .. 3 * m /\ Len(all) = 3 * m
      /\ (r # 0 => k < m) /\ (cut < 3 * m <=> k < m)
  <2>1. m \in Nat
    BY <1>2 DEF Shaped
  <2>2. Len(all) = 3 * m
    BY <1>2, <2>1, WireOf
  <2> QED
    BY <1>2, <2>1, <2>2
<1>4. /\ h[0] = Start /\ h[cut] = After(of, events, g, k, r)
      /\ \A i \in 1 .. 3 * m : h[i] = Line(of, h[i - 1], all[i])
  <2>1. /\ States(of, events, g)[0] = Start
        /\ \A i \in 1 .. 3 * Len(events) :
             States(of, events, g)[i] = Line(of, States(of, events, g)[i - 1], Wire(events)[i])
        /\ \A j \in 0 .. Len(events), q \in 0 .. 2 :
             3 * j + q <= 3 * Len(events) => States(of, events, g)[3 * j + q] = After(of, events, g, j, q)
    BY StatesFollow
  <2>2. h[3 * k + r] = After(of, events, g, k, r)
    <3>1. 3 * k + r <= 3 * Len(events)
      BY <1>2, <1>3
    <3> QED
      BY <1>2, <2>1, <3>1
  <2> QED
    BY <1>2, <2>1, <2>2
<1>5. PICK s, S : /\ s = SubSeq(all, 1, cut)
                  /\ S = {all[i] : i \in 1 .. cut} \union ToSet(Torn(all[cut + 1], torn))
  OBVIOUS
<1>6. s \in Seq(S) /\ Len(s) = cut /\ \A i \in 1 .. cut : s[i] = all[i]
  <2>1. \A i \in 1 .. cut : all[i] \in S
    BY <1>5
  <2>2. /\ SubSeq(all, 1, cut) \in Seq(S) /\ Len(SubSeq(all, 1, cut)) = IF 1 <= cut THEN cut - 1 + 1 ELSE 0
        /\ \A i \in 1 .. cut - 1 + 1 : SubSeq(all, 1, cut)[i] = all[1 + i - 1]
    BY <2>1, SubSeqProperties
  <2>3. cut \in Nat /\ cut - 1 + 1 = cut /\ (IF 1 <= cut THEN cut - 1 + 1 ELSE 0) = cut
        /\ \A i \in 1 .. cut : 1 + i - 1 = i
    BY <1>3
  <2> QED
    BY <1>5, <2>2, <2>3
<1>7. \A i \in 1 .. Len(s) : h[i] = Line(of, h[i - 1], s[i])
  <2>1. \A i \in 1 .. cut : i \in 1 .. 3 * m
    BY <1>3
  <2> QED
    BY <1>4, <1>6, <2>1
<1>8. Heard(of, s) = h[cut]
  <2>1. Len(s) \in Nat
    BY <1>6
  <2>2. Heard(of, s) = h[Len(s)]
    BY <1>4, <1>7, <2>1, HeardIs
  <2> QED
    BY <1>6, <2>2
<1>9. s \o <<>> = s
  BY <1>6, ConcatEmptySeq
<1>10. Arrived(events, cut, torn) = s \o IF cut < Len(all) THEN Torn(all[cut + 1], torn) ELSE <<>>
  BY <1>2, <1>5 DEF Arrived
<1>11. CASE ~(torn = "late" /\ k < m)
  <2>1. Arrived(events, cut, torn) = s
    <3>1. torn # "late" => Torn(all[cut + 1], torn) = <<>>
      BY DEF Torn
    <3> QED
      BY <1>3, <1>9, <1>10, <1>11, <3>1
  <2>2. Hears(of, events, g, k, r, torn) = After(of, events, g, k, r)
    BY <1>2, <1>11 DEF Hears
  <2> QED
    BY <1>4, <1>8, <2>1, <2>2
<1>12. CASE torn = "late" /\ k < m
  <2>1. Arrived(events, cut, torn) = s \o Torn(all[cut + 1], torn)
    BY <1>3, <1>10, <1>12
  <2>2. PICK e, o : e = events[k + 1] /\ o = Given(events, g, k)
    OBVIOUS
  <2>3. k \in 0 .. m - 1 /\ r + 1 \in 1 .. 3 /\ 3 * k + (r + 1) = cut + 1
    BY <1>3, <1>12
  <2>4. all[cut + 1] = Lines(e)[r + 1]
    <3>1. \A i \in 1 .. 3 : all[3 * k + i] = Lines(e)[i]
      BY <1>2, <1>3, <2>2, <2>3, WireOf
    <3> QED
      BY <2>3, <3>1
  <2>5. /\ Lines(e)[1] = [field |-> "event", value |-> e.name]
        /\ Lines(e)[2] = [field |-> "data", value |-> e.payload]
        /\ Lines(e)[3] = [field |-> "blank"]
    BY DEF Lines
  <2>6. Ended(of, events, g, k) = "none"
    <3>1. k <= g
      BY <1>2, <2>3 DEF Shaped
    <3> QED
      BY <3>1 DEF Ended
  <2>10. ASSUME NEW line, Torn(all[cut + 1], torn) = <<line>>
         PROVE  Heard(of, s \o <<line>>) = Line(of, h[cut], line)
    <3>3. line \in S
      <4>1. line \in ToSet(<<line>>)
        <5>1. DOMAIN <<line>> = {1} /\ <<line>>[1] = line
          OBVIOUS
        <5> QED
          BY <5>1 DEF ToSet
      <4> QED
        BY <1>5, <2>10, <4>1
    <3>4. Heard(of, s \o <<line>>) = Line(of, h[Len(s)], line)
      <4>1. Follows(of, s, h)
        BY <1>4, <1>7 DEF Follows
      <4> QED
        BY <1>6, <3>3, <4>1, HeardMore
    <3> QED
      BY <1>6, <3>4
  <2>7. CASE r = 0
    <3>1. PICK line : line = [field |-> "event", value |-> "torn"]
      OBVIOUS
    <3>2. Torn(all[cut + 1], torn) = <<line>>
      <4>1. r + 1 = 1
        BY <2>7
      <4>2. all[cut + 1] = [field |-> "event", value |-> e.name]
        BY <2>4, <2>5, <4>1
      <4>3. [[field |-> "event", value |-> e.name] EXCEPT !.value = "torn"] = line
        BY <3>1
      <4> QED
        BY <1>12, <4>2, <4>3 DEF Torn
    <3>4. Heard(of, s \o <<line>>) = Line(of, h[cut], line)
      BY <2>10, <3>2
    <3>5. h[cut] = Parser(None, <<>>, o, "none")
      BY <1>4, <2>2, <2>6, <2>7 DEF After
    <3>6. Line(of, Parser(None, <<>>, o, "none"), line) = Parser("torn", <<>>, o, "none")
      BY <3>1, EventLine
    <3>7. Hears(of, events, g, k, r, torn) = Parser("torn", <<>>, o, "none")
      BY <1>2, <1>12, <2>2, <2>7 DEF Hears
    <3> QED
      BY <2>1, <3>2, <3>4, <3>5, <3>6, <3>7, Zenon
  <2>8. CASE r = 1
    <3>1. PICK line, n : line = [field |-> "data", value |-> Broken] /\ n = e.name
      OBVIOUS
    <3>2. Torn(all[cut + 1], torn) = <<line>>
      <4>1. r + 1 = 2
        BY <2>8
      <4>2. all[cut + 1] = [field |-> "data", value |-> e.payload]
        BY <2>4, <2>5, <4>1
      <4>3. [[field |-> "data", value |-> e.payload] EXCEPT !.value = Broken] = line
        BY <3>1
      <4> QED
        BY <1>12, <4>2, <4>3 DEF Torn
    <3>4. Heard(of, s \o <<line>>) = Line(of, h[cut], line)
      BY <2>10, <3>2
    <3>5. h[cut] = Parser(n, <<>>, o, "none")
      BY <1>4, <2>2, <2>8, <3>1 DEF After
    <3>6. Line(of, Parser(n, <<>>, o, "none"), line) = Parser(n, <<Broken>>, o, "none")
      <4>1. PICK d, b : d = <<>> /\ b = Broken
        OBVIOUS
      <4>2. Line(of, Parser(n, d, o, "none"), line) = Parser(n, Append(d, b), o, "none")
        <5>1. line = [field |-> "data", value |-> b]
          BY <3>1, <4>1
        <5> QED
          BY <5>1, DataLine
      <4>3. Append(d, b) = <<b>>
        BY <4>1
      <4> QED
        BY <4>1, <4>2, <4>3
    <3>7. Hears(of, events, g, k, r, torn) = Parser(n, <<Broken>>, o, "none")
      BY <1>2, <1>12, <2>2, <2>8, <3>1 DEF Hears
    <3> QED
      BY <2>1, <3>2, <3>4, <3>5, <3>6, <3>7, Zenon
  <2>9. CASE r = 2
    <3>1. Torn(all[cut + 1], torn) = <<>>
      <4>1. r + 1 = 3
        BY <2>9
      <4>2. all[cut + 1] = [field |-> "blank"]
        BY <2>4, <2>5, <4>1
      <4> QED
        BY <4>2 DEF Torn
    <3>2. Hears(of, events, g, k, r, torn) = After(of, events, g, k, r)
      BY <2>9 DEF Hears
    <3> QED
      BY <1>4, <1>8, <1>9, <2>1, <3>1, <3>2
  <2> QED
    BY <2>7, <2>8, <2>9
<1> QED
  BY <1>11, <1>12

\* What k events yield is a beginning of the events.
LEMMA GivenIs ==
  ASSUME NEW of, NEW X, NEW events, NEW g, Shaped(of, events, g, X), NEW k \in 0 .. Len(events)
  PROVE  /\ Given(events, g, k) \in Seq(X) /\ Len(Given(events, g, k)) = IF k < g THEN k ELSE g
         /\ \A i \in 1 .. IF k < g THEN k ELSE g : Given(events, g, k)[i] = events[i]
         /\ Given(events, g, k) \o <<>> = Given(events, g, k)
<1>1. PICK n : n = IF k < g THEN k ELSE g
  OBVIOUS
<1>2. /\ events \in Seq(X) /\ Len(events) \in Nat /\ g \in Nat /\ n \in 0 .. Len(events)
      /\ 1 \in Int /\ n \in Int /\ \A i \in 1 .. n : events[i] \in X
  BY <1>1 DEF Shaped
<1>3. Given(events, g, k) = SubSeq(events, 1, n)
  BY <1>1 DEF Given
<1>4. /\ SubSeq(events, 1, n) \in Seq(X) /\ Len(SubSeq(events, 1, n)) = IF 1 <= n THEN n - 1 + 1 ELSE 0
      /\ \A i \in 1 .. n - 1 + 1 : SubSeq(events, 1, n)[i] = events[1 + i - 1]
  BY <1>2, SubSeqProperties
<1>5. (IF 1 <= n THEN n - 1 + 1 ELSE 0) = n /\ n - 1 + 1 = n /\ \A i \in 1 .. n : 1 + i - 1 = i
  BY <1>2
<1>6. SubSeq(events, 1, n) \o <<>> = SubSeq(events, 1, n)
  BY <1>4, ConcatEmptySeq
<1> QED
  BY <1>1, <1>3, <1>4, <1>5, <1>6

\* What the caller has of the events when the connection ended after k of them
\* and r lines of the next.
Tells(of, events, g, k, r, torn, lost, got) ==
  /\ \E j \in 0 .. Len(events) : j >= k /\ got.out = Given(events, g, j)
  /\ lost => got.error # "none"
  /\ k = Len(events) =>
       /\ got.out = Given(events, g, k)
       /\ got.error = IF lost /\ Ended(of, events, g, k) = "none" THEN "timeout" ELSE Ended(of, events, g, k)
  /\ got.error = "none" /\ k < Len(events) =>
       r = 2 \/ events[k + 1].name = "done" \/ (r = 0 /\ torn # "late")

\* A stream, wherever it is cut.
LEMMA StreamTold ==
  ASSUME NEW of, NEW X, NEW events, NEW g, Shaped(of, events, g, X), NEW k \in 0 .. Len(events),
         NEW r \in 0 .. 2, NEW cut \in 0 .. 3 * Len(events), cut = 3 * k + r,
         NEW torn \in Tears, NEW lost \in BOOLEAN
  PROVE  Tells(of, events, g, k, r, torn, lost, Receive(of, Arrived(events, cut, torn), lost))
<1>1. PICK m : m = Len(events)
  OBVIOUS
<1>2. PICK lines : lines = Arrived(events, cut, torn)
  OBVIOUS
<1>3. PICK got : got = Receive(of, lines, lost)
  OBVIOUS
<1>4. m \in Nat /\ k \in 0 .. m /\ r \in 0 .. 2 /\ (r # 0 => k < m) /\ (k = m => r = 0 /\ ~(k < m))
  <2>1. m \in Nat
    BY <1>1 DEF Shaped
  <2> QED
    BY <1>1, <2>1
<1>5. PICK s, o, e : s = Heard(of, lines) /\ o = Given(events, g, k) /\ e = events[k + 1]
  OBVIOUS
<1>6. s = Hears(of, events, g, k, r, torn)
  <2>1. CutAt(of, events, g, X, k, r, cut, torn)
    BY DEF CutAt
  <2>2. Heard(of, Arrived(events, cut, torn)) = Hears(of, events, g, k, r, torn)
    BY <2>1, ArrivedHeard
  <2> QED
    BY <1>2, <1>5, <2>2, Zenon
<1>7. o \o <<>> = o
  BY <1>5, GivenIs
<1>8. r # 0 => e.name # None
  <2>1. k < m => k + 1 \in 1 .. m
    BY <1>4
  <2> QED
    BY <1>1, <1>4, <1>5, <2>1 DEF Shaped
<1>9. Decoded(<<>>) = Broken /\ Decoded(<<Broken>>) = Broken
  <2>1. Len(<<>>) # 1 /\ Len(<<Broken>>) = 1 /\ <<Broken>>[1] = Broken
    OBVIOUS
  <2> QED
    BY <2>1 DEF Decoded
<1>10. s.out = o /\ (s.error # "none" => r = 0 /\ s.error = Ended(of, events, g, k) /\ ~(torn = "late" /\ k < m))
  <2>1. CASE torn = "late" /\ k < m /\ r = 0
    BY <1>1, <1>5, <1>6, <2>1 DEF Hears, Parser
  <2>2. CASE torn = "late" /\ k < m /\ r = 1
    BY <1>1, <1>5, <1>6, <2>2 DEF Hears, Parser
  <2>3. CASE ~(torn = "late" /\ k < m /\ r \in {0, 1})
    <3>1. s = After(of, events, g, k, r)
      BY <1>1, <1>6, <2>3 DEF Hears
    <3>2. CASE r = 0
      BY <1>5, <2>3, <3>1, <3>2 DEF After, Parser
    <3>3. CASE r # 0
      BY <1>5, <3>1, <3>3 DEF After, Parser
    <3> QED
      BY <3>2, <3>3
  <2> QED
    BY <2>1, <2>2, <2>3
<1>11. ASSUME lost PROVE Tells(of, events, g, k, r, torn, lost, got)
  <2>1. got.out = o /\ got.error = IF s.error = "none" THEN "timeout" ELSE s.error
    BY <1>5, <1>10, <1>11, <1>3 DEF Receive
  <2>2. got.error # "none"
    BY <2>1
  <2>3. k = m => s.error = Ended(of, events, g, k)
    <3>1. ASSUME k = m PROVE s = After(of, events, g, k, 0)
      BY <1>1, <1>4, <1>6, <3>1 DEF Hears
    <3> QED
      BY <3>1 DEF After, Parser
  <2> QED
    BY <1>1, <1>4, <1>5, <1>11, <2>1, <2>2, <2>3 DEF Tells
<1>12. ASSUME ~lost PROVE Tells(of, events, g, k, r, torn, lost, got)
  <2>1. PICK f : f = Flush(of, s)
    OBVIOUS
  <2>2. got.out = f.out /\ got.error = f.error
    BY <1>5, <1>12, <1>3, <2>1 DEF Receive, Parse
  <2>3. CASE torn = "late" /\ k < m /\ r = 0
    <3>1. s = Parser("torn", <<>>, o, "none")
      BY <1>1, <1>5, <1>6, <2>3 DEF Hears
    <3>2. PICK d : d = Dispatch(of, "torn", <<>>)
      OBVIOUS
    <3>3. d.out = <<>> /\ d.error # "none"
      BY <1>9, <3>2, BrokenDispatched
    <3>4. f = Parser(None, <<>>, o \o d.out, d.error)
      <4>1. "torn" # None
        BY DEF None
      <4> QED
        BY <2>1, <3>1, <3>2, <4>1, Flushed
    <3>5. f.out = o /\ f.error # "none"
      BY <1>7, <3>3, <3>4 DEF Parser
    <3> QED
      BY <1>1, <1>4, <1>5, <1>12, <2>2, <2>3, <3>5 DEF Tells
  <2>4. CASE r = 1
    <3>1. PICK data : data \in {<<>>, <<Broken>>} /\ s = Parser(e.name, data, o, "none")
      BY <1>1, <1>5, <1>6, <2>4 DEF Hears, After
    <3>2. PICK d : d = Dispatch(of, e.name, data)
      OBVIOUS
    <3>3. d.out = <<>> /\ (d.error = "none" => e.name = "done")
      BY <1>9, <3>1, <3>2, BrokenDispatched
    <3>4. f = Parser(None, <<>>, o \o d.out, d.error)
      BY <1>8, <2>1, <2>4, <3>1, <3>2, Flushed
    <3>5. got.out = Given(events, g, k) /\ (got.error = "none" => events[k + 1].name = "done")
      BY <1>5, <1>7, <2>2, <3>3, <3>4 DEF Parser
    <3>6. \E j \in 0 .. Len(events) : j >= k /\ got.out = Given(events, g, j)
      BY <1>1, <1>4, <3>5
    <3> QED
      BY <1>1, <1>4, <1>12, <2>4, <3>5, <3>6 DEF Tells
  <2>5. CASE r = 0 /\ ~(torn = "late" /\ k < m)
    <3>1. s = Parser(None, <<>>, o, Ended(of, events, g, k))
      BY <1>1, <1>5, <1>6, <2>5 DEF Hears, After
    <3>2. f = s
      BY <2>1, <3>1, Flushed
    <3>3. f.out = o /\ f.error = Ended(of, events, g, k)
      BY <3>1, <3>2 DEF Parser
    <3> QED
      BY <1>1, <1>4, <1>5, <1>12, <2>2, <2>5, <3>3 DEF Tells
  <2>7. CASE r = 2
    <3>1. s = After(of, events, g, k, 2)
      BY <1>6, <2>7 DEF Hears
    <3>2. PICK j : j = k + 1
      OBVIOUS
    <3>3. k \in 0 .. Len(events) - 1 /\ j \in 0 .. m /\ j >= k
      BY <1>1, <1>4, <2>7, <3>2
    <3>4. f = After(of, events, g, j, 0)
      BY <2>1, <3>1, <3>2, <3>3, FlushedAfter
    <3>5. f.out = Given(events, g, j)
      BY <3>4 DEF After, Parser
    <3>6. \E i \in 0 .. Len(events) : i >= k /\ got.out = Given(events, g, i)
      BY <1>1, <2>2, <3>3, <3>5
    <3> QED
      BY <1>1, <1>4, <1>12, <2>7, <3>6 DEF Tells
  <2> QED
    BY <1>4, <2>3, <2>4, <2>5, <2>7
<1> QED
  BY <1>2, <1>11, <1>12, <1>3, Zenon

\* A list that has another's elements, as far as it goes.
LEMMA PrefixByPlaces ==
  ASSUME NEW X, NEW s \in Seq(X), NEW t \in Seq(X), Len(s) <= Len(t), \A i \in 1 .. Len(s) : s[i] = t[i]
  PROVE  IsPrefix(s, t)
<1>1. PICK n : n = Len(s)
  OBVIOUS
<1>2. n \in Nat /\ Len(t) \in Nat /\ n \in Int /\ 1 \in Int /\ \A i \in 1 .. n : s[i] \in X /\ t[i] \in X /\ 1 + i - 1 = i
  BY <1>1
<1>3. /\ SubSeq(s, 1, n) \in Seq(X) /\ Len(SubSeq(s, 1, n)) = IF 1 <= n THEN n - 1 + 1 ELSE 0
      /\ \A i \in 1 .. n - 1 + 1 : SubSeq(s, 1, n)[i] = s[1 + i - 1]
  BY <1>2, SubSeqProperties
<1>4. /\ SubSeq(t, 1, n) \in Seq(X) /\ Len(SubSeq(t, 1, n)) = IF 1 <= n THEN n - 1 + 1 ELSE 0
      /\ \A i \in 1 .. n - 1 + 1 : SubSeq(t, 1, n)[i] = t[1 + i - 1]
  BY <1>2, SubSeqProperties
<1>5. (IF 1 <= n THEN n - 1 + 1 ELSE 0) = n /\ n - 1 + 1 = n
  BY <1>2
<1>6. \A i \in 1 .. n : SubSeq(s, 1, n)[i] = SubSeq(t, 1, n)[i]
  BY <1>1, <1>2, <1>3, <1>4, <1>5
<1>7. SubSeq(s, 1, n) = SubSeq(t, 1, n)
  BY <1>3, <1>4, <1>5, <1>6, SeqEqual
<1> QED
  BY <1>1, <1>7 DEF IsPrefix

\* The events of a turn with tokens of X.
TurnKinds(X) == {Event("token", Text(t)) : t \in X}
                  \union {Event("complete", Object("turn")), Event("done", Marker)}
                  \union {Event("error", Object(code)) : code \in Codes}

\* How many of them are given.
TurnGives(tokens, code) == IF code = "none" THEN Len(tokens) + 1 ELSE Len(tokens)

\* An event of a turn.
LEMMA TurnEventIs ==
  ASSUME NEW X, NEW tokens \in Seq(X), NEW code \in Codes
  PROVE  /\ TurnEvents(tokens, code) \in Seq(TurnKinds(X))
         /\ Len(TurnEvents(tokens, code)) = IF code = "none" THEN Len(tokens) + 2 ELSE Len(tokens) + 1
         /\ \A i \in 1 .. Len(tokens) : TurnEvents(tokens, code)[i] = Event("token", Text(tokens[i]))
         /\ code = "none" => /\ TurnEvents(tokens, code)[Len(tokens) + 1] = Event("complete", Object("turn"))
                             /\ TurnEvents(tokens, code)[Len(tokens) + 2] = Event("done", Marker)
         /\ code # "none" => TurnEvents(tokens, code)[Len(tokens) + 1] = Event("error", Object(code))
<1>1. PICK n, s, t : /\ n = Len(tokens) /\ s = [i \in DOMAIN tokens |-> Event("token", Text(tokens[i]))]
                     /\ t = IF code = "none" THEN <<Event("complete", Object("turn")), Event("done", Marker)>>
                            ELSE <<Event("error", Object(code))>>
  OBVIOUS
<1>2. TurnEvents(tokens, code) = s \o t
  BY <1>1 DEF TurnEvents
<1>3. PICK S : S = TurnKinds(X)
  OBVIOUS
<1>4. /\ \A x \in X : Event("token", Text(x)) \in S
      /\ Event("complete", Object("turn")) \in S /\ Event("done", Marker) \in S /\ Event("error", Object(code)) \in S
  BY <1>3 DEF TurnKinds
<1>5. n \in Nat /\ DOMAIN tokens = 1 .. n /\ \A i \in 1 .. n : tokens[i] \in X
  BY <1>1
<1>6. s \in Seq(S) /\ Len(s) = n /\ \A i \in 1 .. n : s[i] = Event("token", Text(tokens[i]))
  <2>1. \A i \in 1 .. n : Event("token", Text(tokens[i])) \in S
    BY <1>4, <1>5
  <2>2. s = [i \in 1 .. n |-> Event("token", Text(tokens[i]))]
    BY <1>1, <1>5
  <2> QED
    BY <1>5, <2>1, <2>2
<1>7. PICK c, d, e : c = Event("complete", Object("turn")) /\ d = Event("done", Marker) /\ e = Event("error", Object(code))
  OBVIOUS
<1>8. CASE code = "none"
  <2>1. t = <<c, d>> /\ c \in S /\ d \in S
    BY <1>1, <1>4, <1>7, <1>8
  <2>2. t \in Seq(S) /\ Len(t) = 2 /\ t[1] = c /\ t[2] = d
    BY <2>1
  <2>3. /\ s \o t \in Seq(S) /\ Len(s \o t) = Len(s) + Len(t)
        /\ \A i \in 1 .. Len(s) + Len(t) : (s \o t)[i] = IF i <= Len(s) THEN s[i] ELSE t[i - Len(s)]
    BY <1>6, <2>2, ConcatProperties
  <2>4. PICK w : w = s \o t
    OBVIOUS
  <2>5. /\ w \in Seq(S) /\ Len(w) = n + 2
        /\ \A i \in 1 .. n + 2 : w[i] = IF i <= n THEN s[i] ELSE t[i - n]
    BY <1>6, <2>2, <2>3, <2>4
  <2>6. /\ \A i \in 1 .. n : i \in 1 .. n + 2 /\ i <= n
        /\ n + 1 \in 1 .. n + 2 /\ ~(n + 1 <= n) /\ n + 1 - n = 1
        /\ n + 2 \in 1 .. n + 2 /\ ~(n + 2 <= n) /\ n + 2 - n = 2
    BY <1>5
  <2>7. w[n + 1] = c /\ w[n + 2] = d /\ \A i \in 1 .. n : w[i] = Event("token", Text(tokens[i]))
    <3>1. PICK j, k : j = n + 1 /\ k = n + 2
      OBVIOUS
    <3>2. w[j] = t[j - n] /\ w[k] = t[k - n] /\ j - n = 1 /\ k - n = 2
      <4>1. j \in 1 .. n + 2 /\ ~(j <= n) /\ j - n = 1 /\ k \in 1 .. n + 2 /\ ~(k <= n) /\ k - n = 2
        BY <1>5, <3>1
      <4> QED
        BY <2>5, <4>1
    <3>3. \A i \in 1 .. n : w[i] = s[i]
      BY <2>5, <2>6
    <3> QED
      BY <1>6, <2>2, <3>1, <3>2, <3>3
  <2> QED
    BY <1>1, <1>2, <1>3, <1>7, <1>8, <2>4, <2>5, <2>7
<1>9. CASE code # "none"
  <2>1. t = <<e>> /\ e \in S
    BY <1>1, <1>4, <1>7, <1>9
  <2>2. t \in Seq(S) /\ Len(t) = 1 /\ t[1] = e
    BY <2>1
  <2>3. /\ s \o t \in Seq(S) /\ Len(s \o t) = Len(s) + Len(t)
        /\ \A i \in 1 .. Len(s) + Len(t) : (s \o t)[i] = IF i <= Len(s) THEN s[i] ELSE t[i - Len(s)]
    BY <1>6, <2>2, ConcatProperties
  <2>4. PICK w : w = s \o t
    OBVIOUS
  <2>5. /\ w \in Seq(S) /\ Len(w) = n + 1
        /\ \A i \in 1 .. n + 1 : w[i] = IF i <= n THEN s[i] ELSE t[i - n]
    BY <1>6, <2>2, <2>3, <2>4
  <2>6. /\ \A i \in 1 .. n : i \in 1 .. n + 1 /\ i <= n
        /\ n + 1 \in 1 .. n + 1 /\ ~(n + 1 <= n) /\ n + 1 - n = 1
    BY <1>5
  <2>7. w[n + 1] = e /\ \A i \in 1 .. n : w[i] = Event("token", Text(tokens[i]))
    <3>1. PICK j : j = n + 1
      OBVIOUS
    <3>2. w[j] = t[j - n] /\ j - n = 1
      <4>1. j \in 1 .. n + 1 /\ ~(j <= n) /\ j - n = 1
        BY <1>5, <3>1
      <4> QED
        BY <2>5, <4>1
    <3>3. \A i \in 1 .. n : w[i] = s[i]
      BY <2>5, <2>6
    <3> QED
      BY <1>6, <2>2, <3>1, <3>2, <3>3
  <2> QED
    BY <1>1, <1>2, <1>3, <1>7, <1>9, <2>4, <2>5, <2>7
<1> QED
  BY <1>8, <1>9

\* What the SDK makes of the events of a turn.
LEMMA TurnDispatched ==
  /\ \A t : DispatchTurn("token", <<Text(t)>>) = Yields(Event("token", Text(t)))
  /\ DispatchTurn("complete", <<Object("turn")>>) = Yields(Event("complete", Object("turn")))
  /\ DispatchTurn("done", <<Marker>>) = Skips
  /\ \A code : DispatchTurn("error", <<Object(code)>>) = Throws(TurnClass(code))
<1>1. \A p : Decoded(<<p>>) = p
  BY DEF Decoded
<1>2. ASSUME NEW t PROVE DispatchTurn("token", <<Text(t)>>) = Yields(Event("token", Text(t)))
  <2>1. PICK p : p = Text(t)
    OBVIOUS
  <2>2. Decoded(<<p>>) = p /\ p.form = "text" /\ p # Marker
    BY <1>1, <2>1 DEF Text, Marker
  <2>3. DispatchTurn("token", <<p>>) = Yields(Event("token", p))
    BY <2>2 DEF DispatchTurn
  <2> QED
    BY <2>1, <2>3
<1>3. DispatchTurn("complete", <<Object("turn")>>) = Yields(Event("complete", Object("turn")))
  <2>1. PICK p : p = Object("turn")
    OBVIOUS
  <2>2. Decoded(<<p>>) = p /\ p.form = "object" /\ p # Marker
    BY <1>1, <2>1 DEF Object, Marker
  <2>3. DispatchTurn("complete", <<p>>) = Yields(Event("complete", p))
    BY <2>2 DEF DispatchTurn
  <2> QED
    BY <2>1, <2>3
<1>4. DispatchTurn("done", <<Marker>>) = Skips
  BY DEF DispatchTurn
<1>5. ASSUME NEW code PROVE DispatchTurn("error", <<Object(code)>>) = Throws(TurnClass(code))
  <2>1. PICK p : p = Object(code)
    OBVIOUS
  <2>2. Decoded(<<p>>) = p /\ p.form = "object" /\ p # Marker /\ p.of = code
    BY <1>1, <2>1 DEF Object, Marker
  <2>3. DispatchTurn("error", <<p>>) = Throws(TurnClass(code))
    BY <2>2 DEF DispatchTurn
  <2> QED
    BY <2>1, <2>3
<1> QED
  BY <1>2, <1>3, <1>4, <1>5

\* The class of an error is no empty one.
LEMMA ClassesOf == \A code : TurnClass(code) # "none"
BY DEF TurnClass

\* A turn gives its tokens and the complete event, then at most one more event.
LEMMA TurnShaped ==
  ASSUME NEW X, NEW tokens \in Seq(X), NEW code \in Codes
  PROVE  /\ Shaped("turn", TurnEvents(tokens, code), TurnGives(tokens, code), TurnKinds(X))
         /\ Len(TurnEvents(tokens, code)) = TurnGives(tokens, code) + 1 /\ TurnGives(tokens, code) \in Nat
         /\ {i \in DOMAIN TurnEvents(tokens, code) : TurnEvents(tokens, code)[i].name \in {"token", "complete"}}
              = 1 .. TurnGives(tokens, code)
         /\ Ended("turn", TurnEvents(tokens, code), TurnGives(tokens, code), Len(TurnEvents(tokens, code)))
              = IF code = "none" THEN "none" ELSE TurnClass(code)
<1>1. PICK n, w, g, m : n = Len(tokens) /\ w = TurnEvents(tokens, code) /\ g = TurnGives(tokens, code) /\ m = Len(w)
  OBVIOUS
<1>2. n \in Nat /\ g \in Nat /\ w \in Seq(TurnKinds(X)) /\ m = g + 1 /\ DOMAIN w = 1 .. m
      /\ g = IF code = "none" THEN n + 1 ELSE n
  BY <1>1, TurnEventIs DEF TurnGives
<1>3. /\ \A i \in 1 .. n : w[i] = Event("token", Text(tokens[i]))
      /\ code = "none" => w[n + 1] = Event("complete", Object("turn")) /\ w[n + 2] = Event("done", Marker)
      /\ code # "none" => w[n + 1] = Event("error", Object(code))
  BY <1>1, TurnEventIs
<1>4. \A name, payload : Event(name, payload).name = name /\ Event(name, payload).payload = payload
  BY DEF Event
<1>5. ASSUME NEW k \in 1 .. g
      PROVE  /\ Dispatch("turn", w[k].name, <<w[k].payload>>) = Yields(w[k])
             /\ w[k].name \in {"token", "complete"}
  <2>1. CASE k <= n
    <3>1. PICK p : p = Text(tokens[k])
      OBVIOUS
    <3>2. w[k] = Event("token", p) /\ w[k].name = "token" /\ w[k].payload = p
      BY <1>2, <1>3, <1>4, <2>1, <3>1
    <3>3. DispatchTurn("token", <<p>>) = Yields(Event("token", p))
      BY <3>1, TurnDispatched
    <3> QED
      BY <3>2, <3>3 DEF Dispatch
  <2>2. CASE ~(k <= n)
    <3>1. k = n + 1 /\ code = "none"
      BY <1>2, <2>2
    <3>2. PICK p : p = Object("turn")
      OBVIOUS
    <3>3. w[k] = Event("complete", p) /\ w[k].name = "complete" /\ w[k].payload = p
      BY <1>3, <1>4, <3>1, <3>2
    <3>4. DispatchTurn("complete", <<p>>) = Yields(Event("complete", p))
      BY <3>2, TurnDispatched
    <3> QED
      BY <3>3, <3>4 DEF Dispatch
  <2> QED
    BY <2>1, <2>2
<1>6. /\ Dispatch("turn", w[m].name, <<w[m].payload>>).out = <<>>
      /\ Dispatch("turn", w[m].name, <<w[m].payload>>).error = IF code = "none" THEN "none" ELSE TurnClass(code)
      /\ w[m].name \in {"done", "error"}
  <2>1. CASE code = "none"
    <3>1. m = n + 2
      BY <1>2, <2>1
    <3>2. w[m].name = "done" /\ w[m].payload = Marker
      BY <1>3, <1>4, <2>1, <3>1
    <3>3. Dispatch("turn", w[m].name, <<w[m].payload>>) = Skips
      BY <3>2, TurnDispatched DEF Dispatch
    <3> QED
      BY <2>1, <3>2, <3>3 DEF Skips
  <2>2. CASE code # "none"
    <3>1. m = n + 1
      BY <1>2, <2>2
    <3>2. w[m].name = "error" /\ w[m].payload = Object(code)
      BY <1>3, <1>4, <2>2, <3>1
    <3>3. Dispatch("turn", w[m].name, <<w[m].payload>>) = Throws(TurnClass(code))
      BY <3>2, TurnDispatched DEF Dispatch
    <3> QED
      BY <2>2, <3>2, <3>3 DEF Throws
  <2> QED
    BY <2>1, <2>2
<1>7. \A k \in 1 .. m : k \in 1 .. g \/ k = m
  BY <1>2
<1>8. Shaped("turn", w, g, TurnKinds(X))
  <2>1. Len(w) = m /\ m \in Nat /\ g <= m /\ m <= g + 1
    BY <1>1, <1>2
  <2>2. \A k \in 1 .. m : w[k].name # None
    BY <1>5, <1>6, <1>7 DEF None
  <2>3. \A k \in 1 .. m : k > g => Dispatch("turn", w[k].name, <<w[k].payload>>).out = <<>>
    <3>1. \A k \in 1 .. m : k > g => k = m
      BY <1>2
    <3> QED
      BY <1>6, <3>1
  <2> QED
    BY <1>2, <1>5, <2>1, <2>2, <2>3 DEF Shaped
<1>9. {i \in DOMAIN w : w[i].name \in {"token", "complete"}} = 1 .. g
  <2>1. \A k \in 1 .. g : k \in 1 .. m
    BY <1>2
  <2>2. w[m].name \notin {"token", "complete"}
    BY <1>6
  <2> QED
    BY <1>2, <1>5, <1>7, <2>1, <2>2
<1>10. Ended("turn", w, g, m) = IF code = "none" THEN "none" ELSE TurnClass(code)
  <2>1. ~(m <= g)
    BY <1>2
  <2> QED
    BY <1>6, <2>1 DEF Ended
<1> QED
  BY <1>1, <1>2, <1>8, <1>9, <1>10

\* chat_service to _sse: the caller of a turn's stream sees the tokens and the
\* complete event as they were sent, and all whose lines arrived.
LEMMA TurnAlwaysFaithful ==
  ASSUME NEW X, NEW tokens \in Seq(X), NEW code \in Codes, NEW cut \in 0 .. 3 * Len(TurnEvents(tokens, code)),
         NEW torn \in Tears, NEW lost \in BOOLEAN
  PROVE  Faithful(tokens, code, cut, torn, lost) /\ FailureRaised(tokens, code, cut, torn, lost)
<1>1. PICK w, g, m, S, k, r : /\ w = TurnEvents(tokens, code) /\ g = TurnGives(tokens, code) /\ m = Len(w)
                              /\ S = TurnKinds(X) /\ k = cut \div 3 /\ r = cut % 3
  OBVIOUS
<1>2. PICK lines : lines = Arrived(w, cut, torn)
  OBVIOUS
<1>3. PICK got : got = Receive("turn", lines, lost)
  OBVIOUS
<1>4. /\ Shaped("turn", w, g, S) /\ m = g + 1 /\ g \in Nat /\ m \in Nat /\ w \in Seq(S)
      /\ {i \in DOMAIN w : w[i].name \in {"token", "complete"}} = 1 .. g
      /\ Ended("turn", w, g, m) = IF code = "none" THEN "none" ELSE TurnClass(code)
  <2>1. /\ Shaped("turn", TurnEvents(tokens, code), TurnGives(tokens, code), TurnKinds(X))
        /\ Len(TurnEvents(tokens, code)) = TurnGives(tokens, code) + 1 /\ TurnGives(tokens, code) \in Nat
        /\ {i \in DOMAIN TurnEvents(tokens, code) : TurnEvents(tokens, code)[i].name \in {"token", "complete"}}
             = 1 .. TurnGives(tokens, code)
        /\ Ended("turn", TurnEvents(tokens, code), TurnGives(tokens, code), Len(TurnEvents(tokens, code)))
             = IF code = "none" THEN "none" ELSE TurnClass(code)
    BY TurnShaped, Zenon
  <2>2. Shaped("turn", w, g, S) /\ m = g + 1 /\ g \in Nat
    BY <1>1, <2>1
  <2>3. m \in Nat /\ w \in Seq(S)
    BY <1>1, <2>2 DEF Shaped
  <2>4. {i \in DOMAIN w : w[i].name \in {"token", "complete"}} = 1 .. g
    BY <1>1, <2>1
  <2>5. Ended("turn", w, g, m) = IF code = "none" THEN "none" ELSE TurnClass(code)
    BY <1>1, <2>1
  <2> QED
    BY <2>2, <2>3, <2>4, <2>5
<1>5. /\ cut \in 0 .. 3 * m /\ k \in 0 .. m /\ r \in 0 .. 2 /\ cut = 3 * k + r /\ (cut < 3 * m <=> k < m)
      /\ (cut = 3 * m <=> k = m)
  <2>1. m \in Nat /\ cut \in 0 .. 3 * m /\ k = cut \div 3 /\ r = cut % 3
    BY <1>1, <1>4
  <2> QED
    BY ONLY <2>1
<1>6. Tells("turn", w, g, k, r, torn, lost, got)
  <2>1. k \in 0 .. Len(w) /\ cut \in 0 .. 3 * Len(w)
    BY <1>1, <1>5
  <2>2. Tells("turn", w, g, k, r, torn, lost, Receive("turn", Arrived(w, cut, torn), lost))
    BY <1>4, <1>5, <2>1, StreamTold
  <2> QED
    BY <1>2, <1>3, <2>2
<1>7. PICK j \in 0 .. m : j >= k /\ got.out = Given(w, g, j)
  BY <1>1, <1>6 DEF Tells
<1>8. Faithful(tokens, code, cut, torn, lost)
  <2>1. PICK sent, out : sent = At(w, 1 .. g) /\ out = got.out
    OBVIOUS
  <2>2. sent \in Seq(S) /\ Len(sent) = g /\ \A i \in 1 .. g : sent[i] = w[i]
    <3>1. g \in 0 .. Len(w)
      BY <1>1, <1>4
    <3> QED
      BY <1>4, <2>1, <3>1, AtFirst
  <2>3. PICK l : l = IF j < g THEN j ELSE g
    OBVIOUS
  <2>4. out \in Seq(S) /\ Len(out) = l /\ \A i \in 1 .. l : out[i] = w[i]
    <3>1. j \in 0 .. Len(w)
      BY <1>1
    <3>2. /\ Given(w, g, j) \in Seq(S) /\ Len(Given(w, g, j)) = IF j < g THEN j ELSE g
          /\ \A i \in 1 .. IF j < g THEN j ELSE g : Given(w, g, j)[i] = w[i]
      BY <1>4, <3>1, GivenIs
    <3> QED
      BY <1>7, <2>1, <2>3, <3>2
  <2>5. l \in Nat /\ l <= g /\ l >= IF k < g THEN k ELSE g
    BY <1>4, <1>5, <1>7, <2>3
  <2>6. IsPrefix(out, sent)
    <3>1. \A i \in 1 .. Len(out) : out[i] = sent[i]
      BY <1>4, <2>2, <2>4, <2>5
    <3>2. Len(out) <= Len(sent)
      BY <2>2, <2>4, <2>5
    <3> QED
      BY <2>2, <2>4, <3>1, <3>2, PrefixByPlaces
  <2>7. Len(out) >= IF k < Len(sent) THEN k ELSE Len(sent)
    BY <2>2, <2>4, <2>5
  <2>8. Faithful(tokens, code, cut, torn, lost)
          <=> IsPrefix(got.out, sent) /\ Len(got.out) >= IF cut \div 3 < Len(sent) THEN cut \div 3 ELSE Len(sent)
    <3>1. At(w, {i \in DOMAIN w : w[i].name \in {"token", "complete"}}) = sent
      BY <1>4, <2>1
    <3>2. ReceiveTurn(Arrived(w, cut, torn), lost) = got
      BY <1>2, <1>3 DEF ReceiveTurn
    <3> QED
      BY <1>1, <3>1, <3>2, Zenon DEF Faithful
  <2> QED
    BY <1>1, <2>1, <2>6, <2>7, <2>8
<1>9. FailureRaised(tokens, code, cut, torn, lost)
  <2>1. code # "none" /\ cut = 3 * m => got.error = TurnClass(code)
    BY <1>1, <1>4, <1>5, <1>6, ClassesOf DEF Tells
  <2>2. lost => got.error # "none"
    BY <1>6 DEF Tells
  <2>3. code = "none" /\ cut = 3 * m /\ ~lost => got.error = "none"
    BY <1>1, <1>4, <1>5, <1>6 DEF Tells
  <2>4. got.error = "none" /\ cut < 3 * m => r = 2 \/ w[k + 1].name = "done" \/ (r = 0 /\ torn # "late")
    BY <1>1, <1>5, <1>6 DEF Tells
  <2>5. ReceiveTurn(Arrived(w, cut, torn), lost) = got
    BY <1>2, <1>3 DEF ReceiveTurn
  <2> QED
    BY <1>1, <2>1, <2>2, <2>3, <2>4, <2>5, Zenon DEF FailureRaised
<1> QED
  BY <1>8, <1>9, Zenon

\* The events of a status stream.
StatusKinds == {Event("status", Object(row)) : row \in Rows}
                 \union {Event("error", Object("not found")), Event("error", Object("timed out"))}

\* A status stream shows the rows up to the g-th, and how it ends.
Shows(rows, w, g) ==
  /\ Shaped("status", w, g, StatusKinds) /\ g \in 0 .. Len(rows)
  /\ \A i \in 1 .. g : w[i] = Event("status", Object(rows[i])) /\ (i < g => ~Settled(rows[i]))
  /\ Ended("status", w, g, Len(w)) = "none" => g # 0 /\ Settled(rows[g])
  /\ Ended("status", w, g, Len(w)) = "timeout" => g = Len(rows)

\* What the SDK makes of the events of a status stream.
LEMMA StatusDispatched ==
  /\ \A x : Dispatch("status", "status", <<Object(x)>>) = Yields(Event("status", Object(x)))
  /\ \A x : Dispatch("status", "error", <<Object(x)>>) = Throws(StatusClass(x))
<1>1. \A p : Decoded(<<p>>) = p
  BY DEF Decoded
<1>2. ASSUME NEW x PROVE /\ Dispatch("status", "status", <<Object(x)>>) = Yields(Event("status", Object(x)))
                         /\ Dispatch("status", "error", <<Object(x)>>) = Throws(StatusClass(x))
  <2>1. PICK p : p = Object(x)
    OBVIOUS
  <2>2. Decoded(<<p>>) = p /\ p.form = "object" /\ p.of = x
    BY <1>1, <2>1 DEF Object
  <2>3. /\ DispatchStatus("status", <<p>>) = Yields(Event("status", p))
        /\ DispatchStatus("error", <<p>>) = Throws(StatusClass(x))
    BY <2>2 DEF DispatchStatus
  <2> QED
    BY <2>1, <2>3 DEF Dispatch
<1> QED
  BY <1>2

\* Snapshots, and an error that may follow them.
LEMMA StatusShaped ==
  ASSUME NEW w \in Seq(StatusKinds), NEW m \in Nat, Len(w) = m, NEW g \in Nat, g <= m, m <= g + 1, NEW rows,
         \A i \in 1 .. g : w[i] = Event("status", Object(rows[i])),
         NEW x, m = g + 1 => w[m] = Event("error", Object(x))
  PROVE  /\ Shaped("status", w, g, StatusKinds)
         /\ Ended("status", w, g, m) = IF m = g THEN "none" ELSE StatusClass(x)
<1>1. \A name, payload : Event(name, payload).name = name /\ Event(name, payload).payload = payload
  BY DEF Event
<1>2. ASSUME NEW k \in 1 .. g
      PROVE  Dispatch("status", w[k].name, <<w[k].payload>>) = Yields(w[k]) /\ w[k].name = "status"
  <2>1. PICK y : y = rows[k]
    OBVIOUS
  <2>2. w[k] = Event("status", Object(y)) /\ w[k].name = "status" /\ w[k].payload = Object(y)
    BY <1>1, <2>1
  <2>3. Dispatch("status", "status", <<Object(y)>>) = Yields(Event("status", Object(y)))
    BY StatusDispatched
  <2> QED
    BY <2>2, <2>3
<1>3. ASSUME m = g + 1
      PROVE  /\ w[m].name = "error" /\ Dispatch("status", w[m].name, <<w[m].payload>>).out = <<>>
             /\ Dispatch("status", w[m].name, <<w[m].payload>>).error = StatusClass(x)
  <2>1. w[m].name = "error" /\ w[m].payload = Object(x)
    BY <1>1, <1>3
  <2>2. Dispatch("status", "error", <<Object(x)>>) = Throws(StatusClass(x))
    BY StatusDispatched
  <2>3. Dispatch("status", w[m].name, <<w[m].payload>>) = Throws(StatusClass(x))
    BY <2>1, <2>2
  <2> QED
    BY <2>1, <2>3 DEF Throws
<1>4. \A k \in 1 .. m : k \in 1 .. g \/ (k = m /\ m = g + 1 /\ k > g)
  OBVIOUS
<1>5. Shaped("status", w, g, StatusKinds)
  <2>1. \A k \in 1 .. m : w[k].name # None
    BY <1>2, <1>3, <1>4 DEF None
  <2>2. \A k \in 1 .. m : k > g => Dispatch("status", w[k].name, <<w[k].payload>>).out = <<>>
    <3>1. \A k \in 1 .. m : k > g => k = m /\ m = g + 1
      OBVIOUS
    <3> QED
      BY <1>3, <3>1
  <2> QED
    BY <1>2, <2>1, <2>2 DEF Shaped
<1>6. Ended("status", w, g, m) = IF m = g THEN "none" ELSE StatusClass(x)
  <2>1. CASE m = g
    BY <2>1 DEF Ended
  <2>2. CASE m # g
    <3>1. m = g + 1 /\ ~(m <= g)
      BY <2>2
    <3> QED
      BY <1>3, <2>2, <3>1 DEF Ended
  <2> QED
    BY <2>1, <2>2
<1> QED
  BY <1>5, <1>6

\* A status stream shows the rows up to the first that is settled, or an error follows.
LEMMA StatusShows ==
  ASSUME NEW rows \in Seq(Rows)
  PROVE  \E g : Shows(rows, StatusEvents(rows), g)
<1>1. PICK n, ends, w : /\ n = Len(rows) /\ ends = {i \in DOMAIN rows : rows[i] = "missing" \/ Settled(rows[i])}
                        /\ w = StatusEvents(rows)
  OBVIOUS
<1>2. PICK last : last = IF ends = {} THEN Len(rows) ELSE CHOOSE i \in ends : \A j \in ends : i <= j
  OBVIOUS
<1>3. n \in Nat
  BY <1>1
<1>4. DOMAIN rows = 1 .. n /\ ends \subseteq 1 .. n /\ \A i \in 1 .. n : rows[i] \in Rows
  BY <1>1
<1>5. PICK gone, late : gone = "not found" /\ late = "timed out"
  BY Zenon
<1>6. PICK a, timed : /\ a = [i \in 1 .. last |-> IF rows[i] = "missing" THEN Event("error", Object(gone))
                                                   ELSE Event("status", Object(rows[i]))]
                      /\ timed = <<Event("error", Object(late))>>
  OBVIOUS
<1>7. w = a \o IF ends = {} THEN timed ELSE <<>>
  BY <1>2, <1>1, <1>6, <1>5, Zenon DEF StatusEvents
<1>8. PICK S : S = StatusKinds
  OBVIOUS
<1>9. /\ \A row \in Rows : Event("status", Object(row)) \in S
      /\ Event("error", Object(gone)) \in S /\ Event("error", Object(late)) \in S
  BY <1>8, <1>5, Zenon DEF StatusKinds
<1>10. /\ last \in 0 .. n /\ (ends # {} => last \in ends) /\ \A i \in 1 .. last : i # last => i \notin ends
      /\ (ends = {} => last = n)
  <2>1. CASE ends = {}
    BY <1>2, <1>1, <1>3, <2>1
  <2>2. CASE ends # {}
    <3>1. ends \subseteq Nat
      BY <1>4, <1>3
    <3>2. \E i \in ends : \A j \in ends : i <= j
      BY <2>2, <3>1, Least
    <3>3. last = CHOOSE i \in ends : \A j \in ends : i <= j
      BY <1>2, <2>2
    <3>4. last \in ends /\ \A j \in ends : last <= j
      BY <3>2, <3>3, Zenon
    <3>5. \A i \in 1 .. last : i # last => ~(last <= i)
      BY <1>3, <1>4, <3>4
    <3> QED
      BY <1>3, <1>4, <2>2, <3>4, <3>5
  <2> QED
    BY <2>1, <2>2
<1>11. a \in Seq(S) /\ Len(a) = last /\ \A i \in 1 .. last :
        a[i] = IF rows[i] = "missing" THEN Event("error", Object(gone)) ELSE Event("status", Object(rows[i]))
  <2>1. \A i \in 1 .. last : (IF rows[i] = "missing" THEN Event("error", Object(gone))
                              ELSE Event("status", Object(rows[i]))) \in S
    BY <1>3, <1>4, <1>9, <1>10
  <2> QED
    BY <1>6, <1>10, <2>1
<1>12. \A i \in 1 .. n : i \in ends <=> rows[i] = "missing" \/ Settled(rows[i])
  BY <1>1, <1>4
<1>13. ~Settled("missing")
  BY DEF Settled
<1>14. CASE ends = {}
  <2>1. PICK m, t : m = n + 1 /\ t = Event("error", Object(late))
    OBVIOUS
  <2>2. timed \in Seq(S) /\ Len(timed) = 1 /\ timed[1] = t
    BY <1>6, <1>9, <2>1
  <2>3. /\ w \in Seq(S) /\ Len(w) = Len(a) + Len(timed)
        /\ \A i \in 1 .. Len(a) + Len(timed) : w[i] = IF i <= Len(a) THEN a[i] ELSE timed[i - Len(a)]
    <3>1. w = a \o timed
      BY <1>7, <1>14
    <3> QED
      BY <1>11, <2>2, <3>1, ConcatProperties
  <2>4. last = n /\ Len(w) = m /\ m \in Nat
    BY <1>3, <1>4, <1>10, <1>11, <1>14, <2>1, <2>2, <2>3
  <2>5. \A i \in 1 .. m : w[i] = IF i <= n THEN a[i] ELSE timed[i - n]
    BY <1>11, <2>1, <2>2, <2>3, <2>4
  <2>6. \A i \in 1 .. n : w[i] = Event("status", Object(rows[i])) /\ ~Settled(rows[i])
    <3>1. \A i \in 1 .. n : i \in 1 .. m /\ i <= n
      BY <1>3, <2>1
    <3>2. \A i \in 1 .. n : rows[i] # "missing" /\ ~Settled(rows[i])
      BY <1>12, <1>14
    <3> QED
      BY <1>11, <2>4, <2>5, <3>1, <3>2
  <2>7. w[m] = t
    <3>1. m \in 1 .. m /\ ~(m <= n) /\ m - n = 1
      BY <1>3, <2>1
    <3> QED
      BY <2>2, <2>5, <3>1
  <2>8. n <= m /\ m <= n + 1 /\ m # n
    BY <1>3, <2>1
  <2>9. /\ Shaped("status", w, n, StatusKinds)
        /\ Ended("status", w, n, m) = IF m = n THEN "none" ELSE StatusClass(late)
    <3>1. w \in Seq(StatusKinds)
      BY <1>8, <2>3
    <3>2. \A i \in 1 .. n : w[i] = Event("status", Object(rows[i]))
      BY <2>6
    <3> QED
      BY <1>3, <1>4, <2>1, <2>4, <2>7, <2>8, <3>1, <3>2, StatusShaped
  <2>10. StatusClass(late) = "timeout"
    BY <1>5, Zenon DEF StatusClass
  <2>11. Shows(rows, w, n)
    BY <1>1, <1>4, <2>4, <2>6, <2>8, <2>9, <2>10 DEF Shows
  <2> QED
    BY <1>1, <2>11
<1>15. CASE ends # {}
  <2>1. w = a
    BY <1>7, <1>11, <1>15, ConcatEmptySeq
  <2>2. last \in 1 .. n /\ last \in Nat /\ last \in 1 .. last /\ (rows[last] = "missing" \/ Settled(rows[last]))
    BY <1>3, <1>4, <1>10, <1>12, <1>15
  <2>3. \A i \in 1 .. last : i # last => rows[i] # "missing" /\ ~Settled(rows[i])
    <3>1. \A i \in 1 .. last : i \in 1 .. n
      BY <1>3, <2>2
    <3> QED
      BY <1>10, <1>12, <3>1
  <2>4. CASE rows[last] = "missing"
    <3>1. PICK g : g = last - 1
      OBVIOUS
    <3>2. /\ g \in Nat /\ g \in 0 .. n /\ g <= last /\ last <= g + 1 /\ last # g /\ last = g + 1 /\ g # n
          /\ \A i \in 1 .. g : i \in 1 .. last /\ i # last
      BY <1>3, <1>4, <2>2, <3>1
    <3>3. \A i \in 1 .. g : w[i] = Event("status", Object(rows[i]))
      BY <1>11, <2>1, <2>3, <3>2
    <3>4. w[last] = Event("error", Object(gone))
      BY <1>11, <2>1, <2>2, <2>4
    <3>5. /\ Shaped("status", w, g, StatusKinds)
          /\ Ended("status", w, g, last) = IF last = g THEN "none" ELSE StatusClass(gone)
      <4>1. w \in Seq(StatusKinds) /\ Len(w) = last
        BY <1>8, <1>11, <2>1
      <4> QED
        BY <2>2, <3>2, <3>3, <3>4, <4>1, StatusShaped
    <3>6. StatusClass(gone) = "api"
      BY <1>5, Zenon DEF StatusClass
    <3>7. Len(w) = last
      BY <1>11, <2>1
    <3>8. Shows(rows, w, g)
      BY <1>1, <2>3, <3>2, <3>3, <3>5, <3>6, <3>7 DEF Shows
    <3> QED
      BY <1>1, <3>8
  <2>5. CASE rows[last] # "missing"
    <3>1. \A i \in 1 .. last : w[i] = Event("status", Object(rows[i]))
      BY <1>11, <2>1, <2>3, <2>5
    <3>2. w \in Seq(StatusKinds) /\ Len(w) = last
      BY <1>8, <1>11, <2>1
    <3>3. /\ Shaped("status", w, last, StatusKinds)
          /\ Ended("status", w, last, last) = IF last = last THEN "none" ELSE StatusClass("")
      <4>1. last <= last /\ last <= last + 1 /\ last # last + 1
        BY <2>2
      <4> QED
        BY <2>2, <3>1, <3>2, <4>1, StatusShaped
    <3>4. last \in 0 .. n /\ last # 0
      BY <2>2
    <3>5. \A i \in 1 .. last : i < last => ~Settled(rows[i])
      BY <2>2, <2>3
    <3>6. Settled(rows[last])
      BY <2>2, <2>5
    <3>7. Shows(rows, w, last)
      BY <1>1, <3>1, <3>2, <3>3, <3>4, <3>5, <3>6 DEF Shows
    <3> QED
      BY <1>1, <3>7
  <2> QED
    BY <2>4, <2>5
<1> QED
  BY <1>14, <1>15

\* routes/documents to _sse: a status stream read to its end tells how the document
\* ended, or raises.
LEMMA StatusAlwaysConcludes ==
  ASSUME NEW rows \in [1 .. MaxPolls -> Rows]
  PROVE  Concludes(rows)
<1>1. rows \in Seq(Rows) /\ Len(rows) = MaxPolls /\ MaxPolls \in Nat /\ \A i \in 1 .. MaxPolls : rows[i] \in Rows
  <2>1. MaxPolls \in Nat
    BY DEF MaxPolls
  <2> QED
    BY <2>1
<1>2. PICK w, m : w = StatusEvents(rows) /\ m = Len(w)
  OBVIOUS
<1>3. PICK g : Shows(rows, w, g)
  BY <1>1, <1>2, StatusShows
<1>4. /\ Shaped("status", w, g, StatusKinds) /\ g \in 0 .. MaxPolls /\ m \in Nat /\ w \in Seq(StatusKinds) /\ g <= m
  BY <1>1, <1>2, <1>3 DEF Shows, Shaped
<1>5. PICK cut : cut = 3 * m
  OBVIOUS
<1>6. /\ cut \in 0 .. 3 * Len(w) /\ m \in 0 .. Len(w) /\ 0 \in 0 .. 2 /\ cut = 3 * m + 0
  BY <1>2, <1>4, <1>5
<1>7. PICK got : got = Receive("status", Arrived(w, cut, "none"), FALSE)
  OBVIOUS
<1>8. Tells("status", w, g, m, 0, "none", FALSE, got)
  <2>1. FALSE \in BOOLEAN /\ "none" \in Tears
    BY DEF Tears
  <2> QED
    BY <1>4, <1>6, <1>7, <2>1, StreamTold
<1>9. got.out = Given(w, g, m) /\ got.error = Ended("status", w, g, m)
  BY <1>2, <1>8 DEF Tells
<1>10. ReceiveStatus(Wire(w), FALSE) = got
  <2>1. PICK all : all = Wire(w)
    OBVIOUS
  <2>2. DOMAIN all = 1 .. cut /\ Len(all) = cut /\ cut \in Nat
    BY <1>2, <1>4, <1>5, <2>1, WireOf
  <2>3. \E S : all \in Seq(S)
    <3>1. PICK S : S = {all[i] : i \in 1 .. cut}
      OBVIOUS
    <3>2. all = [i \in 1 .. cut |-> all[i]]
      <4>1. all = [i \in 1 .. 3 * Len(w) |-> Lines(w[(i + 2) \div 3])[((i - 1) % 3) + 1]]
        BY <2>1, Zenon DEF Wire
      <4>2. 3 * Len(w) = cut
        BY <1>2, <1>5
      <4> QED
        BY <4>1, <4>2
    <3>3. \A i \in 1 .. cut : all[i] \in S
      BY <3>1
    <3>4. all \in [1 .. cut -> S]
      BY <3>2, <3>3
    <3>5. all \in Seq(S)
      BY <2>2, <3>4
    <3> QED
      BY <3>5
  <2>4. PICK S : all \in Seq(S)
    BY <2>3
  <2>5. SubSeq(all, 1, cut) = all
    BY <2>2, <2>4, SubSeqFull
  <2>6. all \o <<>> = all
    BY <2>4, ConcatEmptySeq
  <2>7. Arrived(w, cut, "none") = SubSeq(all, 1, cut) \o <<>>
    <3>1. ~(cut < Len(Wire(w)))
      BY <2>1, <2>2
    <3> QED
      BY <2>1, <3>1, Zenon DEF Arrived
  <2> QED
    BY <1>7, <2>1, <2>5, <2>6, <2>7 DEF ReceiveStatus
<1>11. PICK out, shown : out = got.out /\ shown = [i \in DOMAIN out |-> out[i].payload.of]
  OBVIOUS
<1>12. out \in Seq(StatusKinds) /\ Len(out) = g /\ \A i \in 1 .. g : out[i] = w[i]
  <2>1. (IF m < g THEN m ELSE g) = g
    BY <1>4
  <2>2. /\ Given(w, g, m) \in Seq(StatusKinds) /\ Len(Given(w, g, m)) = IF m < g THEN m ELSE g
        /\ \A i \in 1 .. IF m < g THEN m ELSE g : Given(w, g, m)[i] = w[i]
    BY <1>4, <1>6, GivenIs
  <2> QED
    BY <1>9, <1>11, <2>1, <2>2
<1>13. \A i \in 1 .. g : out[i].payload.of = rows[i]
  <2>1. \A x : Event("status", Object(x)).payload.of = x
    BY DEF Event, Object
  <2>2. \A i \in 1 .. g : w[i] = Event("status", Object(rows[i]))
    BY <1>3 DEF Shows
  <2> QED
    BY <1>12, <2>1, <2>2
<1>14. shown \in Seq(Rows) /\ Len(shown) = g /\ \A i \in 1 .. g : shown[i] = rows[i]
  <2>1. DOMAIN out = 1 .. g /\ g \in Nat /\ \A i \in 1 .. g : i \in 1 .. MaxPolls
    BY <1>1, <1>4, <1>12
  <2>2. \A i \in 1 .. g : out[i].payload.of \in Rows
    BY <1>1, <1>13, <2>1
  <2>3. shown = [i \in 1 .. g |-> out[i].payload.of]
    BY <1>11, <2>1
  <2> QED
    BY <1>13, <2>1, <2>2, <2>3
<1>15. IsPrefix(shown, rows)
  BY <1>1, <1>4, <1>14, PrefixByPlaces
<1>16. got.error = "none" => shown # <<>> /\ Last(shown) \in {"completed", "failed"}
  <2>1. ASSUME got.error = "none" PROVE g # 0 /\ Settled(rows[g])
    BY <1>2, <1>3, <1>9, <2>1 DEF Shows
  <2>2. ASSUME g # 0 PROVE shown # <<>> /\ Last(shown) = rows[g]
    <3>1. g \in 1 .. g /\ Len(shown) # 0
      BY <1>4, <1>14, <2>2
    <3>2. Last(shown) = shown[g]
      BY <1>14 DEF Last
    <3> QED
      BY <1>14, <3>1, <3>2
  <2> QED
    BY <2>1, <2>2 DEF Settled
<1>17. \A i \in DOMAIN shown : i < Len(shown) => shown[i] \notin {"completed", "failed"}
  <2>1. DOMAIN shown = 1 .. g
    BY <1>14
  <2>2. \A i \in 1 .. g : i < g => ~Settled(rows[i])
    BY <1>3 DEF Shows
  <2> QED
    BY <1>14, <2>1, <2>2 DEF Settled
<1>18. got.error = "timeout" => Len(shown) = MaxPolls
  BY <1>1, <1>2, <1>3, <1>9, <1>14 DEF Shows
<1> QED
  BY <1>2, <1>10, <1>11, <1>15, <1>16, <1>17, <1>18, Zenon DEF Concludes

-----------------------------------------------------------------------------
(* The best chunks of a document, and fused rankings.                      *)

\* The keys of some documents' chunks.
Keyed(K) == IsFiniteSet(K) /\ K \subseteq Docs \X Nat

\* The keys of a document, and the order in which they are read.
KeysOf(K, doc) == {k \in K : k[1] = doc}

\* No two chunks of a document are at the same place.
LEMMA KeysOrdered ==
  ASSUME NEW K, Keyed(K), NEW scores \in [K -> Int], NEW doc
  PROVE  /\ IsFiniteSet(KeysOf(K, doc)) /\ Cardinality(KeysOf(K, doc)) \in Nat
         /\ StrictOrder(KeysOf(K, doc), ByScore(KeysOf(K, doc), scores))
<1>1. PICK T : T = KeysOf(K, doc)
  OBVIOUS
<1>2. /\ T \subseteq K /\ IsFiniteSet(K)
      /\ \A k \in T : k[1] = doc /\ k[2] \in Nat /\ scores[k] \in Int /\ k = <<k[1], k[2]>>
  BY <1>1 DEF KeysOf, Keyed
<1>3. IsFiniteSet(T) /\ Cardinality(T) \in Nat
  BY <1>2, FS_Subset, FS_CardinalityType
<1>4. PICK R : R = ByScore(T, scores)
  OBVIOUS
<1>5. \A k, l \in T : <<k, l>> \in R <=> scores[k] > scores[l] \/ (scores[k] = scores[l] /\ k[2] < l[2])
  BY <1>4 DEF ByScore
<1>6. \A k, l \in T : k # l => k[2] # l[2]
  BY <1>2
<1>7. StrictOrder(T, R)
  <2>1. \A k \in T : <<k, k>> \notin R
    BY <1>2, <1>5
  <2>2. \A k, l \in T : k # l => <<k, l>> \in R \/ <<l, k>> \in R
    <3> SUFFICES ASSUME NEW k \in T, NEW l \in T, k # l PROVE <<k, l>> \in R \/ <<l, k>> \in R
      OBVIOUS
    <3>1. /\ scores[k] \in Int /\ scores[l] \in Int /\ k[2] \in Nat /\ l[2] \in Nat /\ k[2] # l[2]
      BY <1>2, <1>6
    <3>2. scores[k] > scores[l] \/ scores[l] > scores[k] \/ (scores[k] = scores[l] /\ (k[2] < l[2] \/ l[2] < k[2]))
      BY <3>1
    <3> QED
      BY <1>5, <3>2
  <2>3. \A k, l, m \in T : <<k, l>> \in R /\ <<l, m>> \in R => <<k, m>> \in R
    <3> SUFFICES ASSUME NEW k \in T, NEW l \in T, NEW m \in T, <<k, l>> \in R, <<l, m>> \in R PROVE <<k, m>> \in R
      OBVIOUS
    <3>1. /\ scores[k] \in Int /\ scores[l] \in Int /\ scores[m] \in Int
          /\ k[2] \in Nat /\ l[2] \in Nat /\ m[2] \in Nat
      BY <1>2
    <3>2. /\ scores[k] > scores[l] \/ (scores[k] = scores[l] /\ k[2] < l[2])
          /\ scores[l] > scores[m] \/ (scores[l] = scores[m] /\ l[2] < m[2])
      BY <1>5
    <3>3. scores[k] > scores[m] \/ (scores[k] = scores[m] /\ k[2] < m[2])
      BY <3>1, <3>2
    <3> QED
      BY <1>5, <3>3
  <2> QED
    BY <2>1, <2>2, <2>3 DEF StrictOrder
<1> QED
  BY <1>1, <1>3, <1>4, <1>7

\* The best chunks of a document that can be seen: none twice, the better scores
\* first, and none left out with a better one.
Bests(list, T, scores, limit) ==
  /\ list \in Seq(T) /\ Len(list) = Least2(limit, Cardinality(T)) /\ Len(list) \in Nat
  /\ \A i, j \in 1 .. Len(list) : list[i] = list[j] => i = j
  /\ \A i, j \in 1 .. Len(list) : i < j => scores[list[i]] >= scores[list[j]]
  /\ \A k \in T \ ToSet(list) : Len(list) = limit /\ \A i \in 1 .. Len(list) : scores[list[i]] >= scores[k]

\* ... and of one that cannot be seen, nothing.
LEMMA BestIs ==
  ASSUME NEW K, Keyed(K), NEW scores \in [K -> Int], NEW doc, NEW limit \in Nat
  PROVE  /\ Visible(doc) => Bests(Best(doc, scores, limit), KeysOf(K, doc), scores, limit)
         /\ ~Visible(doc) => Best(doc, scores, limit) = <<>>
<1>1. PICK T : T = KeysOf(K, doc)
  OBVIOUS
<1>2. {k \in DOMAIN scores : k[1] = doc} = T
  BY <1>1 DEF KeysOf
<1>3. Best(doc, scores, limit) = IF Visible(doc) THEN Take(InOrder(T, ByScore(T, scores)), limit) ELSE <<>>
  BY <1>2, Zenon DEF Best
<1>4. PICK c, R, f : c = Cardinality(T) /\ R = ByScore(T, scores) /\ f = InOrder(T, R)
  OBVIOUS
<1>5. c \in Nat /\ Enumerates(f, T, R)
  BY <1>1, <1>4, KeysOrdered, InOrderLists
<1>6. f \in [1 .. c -> T] /\ f \in Seq(T) /\ Len(f) = c
  BY <1>4, <1>5 DEF Enumerates
<1>7. PICK list : list = Take(f, limit)
  OBVIOUS
<1>8. PICK l : l = Least2(limit, c)
  OBVIOUS
<1>9. /\ list \in Seq(T) /\ Len(list) = l /\ l \in 0 .. c /\ l <= limit /\ (l # c => l = limit)
      /\ \A i \in 1 .. l : i \in 1 .. c /\ list[i] = f[i]
  <2>1. l \in 0 .. c /\ l <= limit /\ (l # c => l = limit)
    BY <1>5, <1>8 DEF Least2
  <2> QED
    BY <1>6, <1>7, <1>8, <2>1, TakeIsPrefix
<1>10. \A k \in T : scores[k] \in Int
  BY <1>1 DEF KeysOf
<1>11. \A i, j \in 1 .. c : i < j => scores[f[i]] >= scores[f[j]]
  <2> SUFFICES ASSUME NEW i \in 1 .. c, NEW j \in 1 .. c, i < j PROVE scores[f[i]] >= scores[f[j]]
    OBVIOUS
  <2>1. f[i] \in T /\ f[j] \in T /\ <<f[i], f[j]>> \in R
    BY SMTT(30), <1>4, <1>5, <1>6 DEF Enumerates
  <2>2. scores[f[i]] > scores[f[j]] \/ scores[f[i]] = scores[f[j]]
    BY Zenon, <1>4, <2>1 DEF ByScore
  <2> QED
    BY <1>10, <2>1, <2>2
<1>12. \A i, j \in 1 .. l : list[i] = list[j] => i = j
  <2>1. \A i, j \in 1 .. c : f[i] = f[j] => i = j
    BY <1>4, <1>5 DEF Enumerates
  <2> QED
    BY <1>9, <2>1
<1>13. \A i, j \in 1 .. l : i < j => scores[list[i]] >= scores[list[j]]
  BY <1>9, <1>11
<1>14. ASSUME NEW k \in T \ ToSet(list) PROVE l = limit /\ \A i \in 1 .. l : scores[list[i]] >= scores[k]
  <2>1. PICK n \in 1 .. c : f[n] = k
    BY <1>4, <1>5 DEF Enumerates
  <2>2. ~(n \in 1 .. l)
    <3>1. \A i \in 1 .. l : list[i] \in ToSet(list)
      BY <1>9 DEF ToSet
    <3> QED
      BY <1>9, <1>14, <2>1, <3>1
  <2>3. l # c /\ \A i \in 1 .. l : i < n
    BY <1>5, <1>9, <2>2
  <2> QED
    BY <1>9, <1>11, <2>1, <2>3
<1>15. Bests(list, T, scores, limit)
  BY <1>4, <1>8, <1>9, <1>12, <1>13, <1>14 DEF Bests
<1> QED
  BY <1>1, <1>3, <1>4, <1>7, <1>15

\* The rank of a key in a list.
LEMMA RankIs ==
  ASSUME NEW X, NEW list \in Seq(X), NEW k
  PROVE  /\ RankOf(k, list) \in 0 .. Len(list) /\ Len(list) \in Nat
         /\ k \in ToSet(list) <=> RankOf(k, list) # 0
         /\ RankOf(k, list) # 0 => RankOf(k, list) \in 1 .. Len(list) /\ list[RankOf(k, list)] = k
<1>1. PICK n : n = Len(list)
  OBVIOUS
<1>2. n \in Nat /\ DOMAIN list = 1 .. n
  BY <1>1
<1>3. k \in ToSet(list) <=> \E i \in 1 .. n : list[i] = k
  BY <1>2 DEF ToSet
<1>4. CASE k \in ToSet(list)
  <2>1. \E i \in 1 .. n : list[i] = k
    BY <1>3, <1>4
  <2>2. RankOf(k, list) = CHOOSE i \in 1 .. n : list[i] = k
    BY <1>2, <1>4 DEF RankOf
  <2>3. RankOf(k, list) \in 1 .. n /\ list[RankOf(k, list)] = k
    BY <2>1, <2>2, Zenon
  <2> QED
    BY <1>1, <1>2, <1>4, <2>3
<1>5. CASE k \notin ToSet(list)
  <2>1. RankOf(k, list) = 0
    BY <1>5 DEF RankOf
  <2> QED
    BY <1>1, <1>2, <1>5, <2>1
<1> QED
  BY <1>4, <1>5

\* What a list adds to a score is a natural number.
LEMMA ShareIs ==
  ASSUME NEW X, NEW list \in Seq(X), NEW k
  PROVE  Share(k, list) \in Nat
<1>1. RankOf(k, list) \in Nat
  BY RankIs
<1>2. PICK d \in Nat : d = 60 + RankOf(k, list) /\ d > 0
  BY <1>1
<1>3. Common \in Nat
  BY DEF Common
<1>4. Common \div d \in Nat
  BY <1>2, <1>3
<1>5. Share(k, list) = IF RankOf(k, list) = 0 THEN 0 ELSE Common \div d
  BY <1>2 DEF Share
<1> QED
  BY <1>4, <1>5

\* The score that two lists give.
LEMMA FusedIs ==
  ASSUME NEW X, NEW a \in Seq(X), NEW b \in Seq(X), NEW k
  PROVE  Fused(k, <<a, b>>) = Share(k, a) + Share(k, b) /\ Fused(k, <<a, b>>) \in Nat
<1>1. PICK x, y : x = Share(k, a) /\ y = Share(k, b)
  OBVIOUS
<1>2. x \in Nat /\ y \in Nat
  BY <1>1, ShareIs
<1>3. PICK s : s = [n \in DOMAIN <<a, b>> |-> Share(k, <<a, b>>[n])]
  OBVIOUS
<1>4. s \in Seq(Int) /\ Len(s) = 2 /\ s[1] = x /\ s[2] = y
  <2>1. DOMAIN <<a, b>> = 1 .. 2 /\ <<a, b>>[1] = a /\ <<a, b>>[2] = b
    OBVIOUS
  <2>2. s = [n \in 1 .. 2 |-> Share(k, <<a, b>>[n])]
    BY <1>3, <2>1
  <2>3. DOMAIN s = 1 .. 2 /\ s[1] = x /\ s[2] = y
    BY <1>1, <2>1, <2>2
  <2>4. \A n \in 1 .. 2 : s[n] \in Int
    BY <1>2, <2>3
  <2> QED
    BY <2>2, <2>3, <2>4
<1>5. PICK f : f = Sums(s)
  OBVIOUS
<1>6. f[0] = 0 /\ \A i \in 1 .. 2 : f[i] = f[i - 1] + s[i]
  BY <1>4, <1>5, SumsStep
<1>7. f[1] = 0 + s[1]
  <2>1. 1 \in 1 .. 2 /\ 1 - 1 = 0
    OBVIOUS
  <2>2. f[1] = f[1 - 1] + s[1]
    BY <1>6, <2>1
  <2> QED
    BY <1>6, <2>2
<1>8. f[2] = f[1] + s[2]
  <2>1. 2 \in 1 .. 2 /\ 2 - 1 = 1
    OBVIOUS
  <2>2. f[2] = f[2 - 1] + s[2]
    BY <1>6, <2>1
  <2> QED
    BY <2>2
<1>9. Fused(k, <<a, b>>) = f[2]
  BY <1>3, <1>4, <1>5 DEF Fused, Sum
<1> QED
  BY <1>1, <1>2, <1>4, <1>7, <1>8, <1>9

\* A larger value first orders what may be equal.
LEMMA ByValue ==
  ASSUME NEW T, NEW R, NEW value, \A x \in T : value[x] \in Int,
         \A x, y \in T : <<x, y>> \in R <=> value[x] > value[y]
  PROVE  WeakOrder(T, R)
<1>1. \A x \in T : <<x, x>> \notin R
  OBVIOUS
<1>2. ASSUME NEW x \in T, NEW y \in T, NEW z \in T
      PROVE  /\ <<x, y>> \in R /\ <<y, z>> \in R => <<x, z>> \in R
             /\ <<x, z>> \in R => <<x, y>> \in R \/ <<y, z>> \in R
  <2>1. value[x] \in Int /\ value[y] \in Int /\ value[z] \in Int
    OBVIOUS
  <2>2. /\ value[x] > value[y] /\ value[y] > value[z] => value[x] > value[z]
        /\ value[x] > value[z] => value[x] > value[y] \/ value[y] > value[z]
    BY <2>1
  <2> QED
    BY <2>2
<1> QED
  BY <1>1, <1>2 DEF WeakOrder

\* The keys of two lists, in the order of what the lists give them together.
FusedOrder(keys, lists) == {p \in Pairs(keys) : Fused(keys[p[1]], lists) > Fused(keys[p[2]], lists)}

\* It orders the keys, those of equal value together.
LEMMA FusedOrdered ==
  ASSUME NEW X, NEW a \in Seq(X), NEW b \in Seq(X), NEW keys \in Seq(X)
  PROVE  /\ WeakOrder(DOMAIN keys, FusedOrder(keys, <<a, b>>))
         /\ \A i, j \in DOMAIN keys : <<i, j>> \in FusedOrder(keys, <<a, b>>)
                                        <=> Fused(keys[i], <<a, b>>) > Fused(keys[j], <<a, b>>)
<1>1. PICK T, R, value : /\ T = DOMAIN keys /\ R = FusedOrder(keys, <<a, b>>)
                         /\ value = [i \in T |-> Fused(keys[i], <<a, b>>)]
  OBVIOUS
<1>2. \A i \in T : value[i] = Fused(keys[i], <<a, b>>) /\ value[i] \in Int
  <2> SUFFICES ASSUME NEW i \in T
               PROVE  value[i] = Fused(keys[i], <<a, b>>) /\ value[i] \in Int
    OBVIOUS
  <2>1. PICK k : k = keys[i]
    OBVIOUS
  <2>2. Fused(k, <<a, b>>) \in Nat
    BY FusedIs
  <2>3. value[i] = Fused(keys[i], <<a, b>>)
    BY <1>1
  <2> QED
    BY <2>1, <2>2, <2>3
<1>3. \A i, j \in T : <<i, j>> \in R <=> Fused(keys[i], <<a, b>>) > Fused(keys[j], <<a, b>>)
  BY <1>1 DEF FusedOrder, Pairs
<1>4. WeakOrder(T, R)
  <2>1. \A i, j \in T : <<i, j>> \in R <=> value[i] > value[j]
    BY <1>2, <1>3
  <2> QED
    BY <1>2, <2>1, ByValue
<1> QED
  BY <1>1, <1>3, <1>4

\* The lists that are fused.
Fuses(keys, all, met, a, b, limit) ==
  /\ met = Joined(<<a, b>>) /\ keys = FirstOf(met, met)
  /\ all = Ordered(keys, FusedOrder(keys, <<a, b>>)) /\ Fuse(<<a, b>>, limit) = Take(all, limit)

\* Fusing makes no key.
LEMMA FuseTyped ==
  ASSUME NEW X, NEW a \in Seq(X), NEW b \in Seq(X), NEW limit \in Nat
  PROVE  /\ Fuse(<<a, b>>, limit) \in Seq(X)
         /\ \E keys, all, met : /\ Fuses(keys, all, met, a, b, limit)
                                /\ met \in Seq(X) /\ keys \in Seq(X) /\ all \in Seq(X)
                                /\ \A x : x \in ToSet(met) <=> x \in ToSet(a) \/ x \in ToSet(b)
<1>1. PICK lists : lists = <<a, b>>
  OBVIOUS
<1>2. lists \in Seq(Seq(X)) /\ Len(lists) = 2 /\ lists[1] = a /\ lists[2] = b
  BY <1>1
<1>3. PICK met : met = Joined(lists)
  OBVIOUS
<1>4. met \in Seq(X) /\ \A x : x \in ToSet(met) <=> \E i \in 1 .. 2 : x \in ToSet(lists[i])
  BY <1>2, <1>3, JoinedHasAll
<1>5. PICK keys : keys = FirstOf(met, met)
  OBVIOUS
<1>6. keys \in Seq(X)
  BY <1>4, <1>5, FirstOfPicks
<1>7. PICK all : all = Ordered(keys, FusedOrder(keys, lists))
  OBVIOUS
<1>8. all \in Seq(X)
  <2>1. WeakOrder(DOMAIN keys, FusedOrder(keys, lists))
    BY <1>1, <1>6, FusedOrdered
  <2> QED
    BY <1>6, <1>7, <2>1, OrderedSorts
<1>9. Fuse(lists, limit) = Take(all, limit)
  BY <1>3, <1>5, <1>7, Zenon DEF Fuse, FusedOrder
<1>10. Take(all, limit) \in Seq(X)
  BY <1>8, TakeIsPrefix
<1>11. \A x : x \in ToSet(met) <=> x \in ToSet(a) \/ x \in ToSet(b)
  <2>1. \A i \in 1 .. 2 : i = 1 \/ i = 2
    OBVIOUS
  <2>2. 1 \in 1 .. 2 /\ 2 \in 1 .. 2
    OBVIOUS
  <2> QED
    BY <1>2, <1>4, <2>1, <2>2
<1>12. Fuses(keys, all, met, a, b, limit)
  BY <1>1, <1>3, <1>5, <1>7, <1>9 DEF Fuses
<1> QED
  BY <1>1, <1>4, <1>6, <1>8, <1>9, <1>10, <1>11, <1>12

-----------------------------------------------------------------------------
(* The chunks of a retrieval.                                              *)

\* The hits of a search.
HitKinds == [doc : Docs, index : Nat, score : Int]

\* A search returns what may be seen of the document.
LEMMA HitsAre ==
  ASSUME NEW V, Keyed(V), NEW W, Keyed(W), NEW vector \in [V -> Int], NEW keyword \in [W -> Int],
         NEW doc \in Docs, NEW hybrid \in BOOLEAN, NEW count \in Nat
  PROVE  /\ Hits(doc, vector, keyword, hybrid, count) \in Seq(HitKinds)
         /\ \A c \in ToSet(Hits(doc, vector, keyword, hybrid, count)) : c.doc = doc /\ Visible(doc)
<1>1. PICK a, b, x, T : /\ a = Best(doc, vector, 2 * count) /\ b = Best(doc, keyword, 2 * count)
                        /\ x = Best(doc, vector, count)
                        /\ T = IF Visible(doc) THEN KeysOf(V, doc) \union KeysOf(W, doc) ELSE {}
  OBVIOUS
<1>2. \A k \in T : k[1] = doc /\ k[2] \in Nat /\ Visible(doc)
  BY <1>1 DEF KeysOf, Keyed
<1>3. a \in Seq(T) /\ b \in Seq(T) /\ x \in Seq(T)
  <2>1. 2 * count \in Nat
    OBVIOUS
  <2>2. CASE Visible(doc)
    <3>1. a \in Seq(KeysOf(V, doc)) /\ b \in Seq(KeysOf(W, doc)) /\ x \in Seq(KeysOf(V, doc))
      BY <1>1, <2>1, <2>2, BestIs DEF Bests
    <3>2. KeysOf(V, doc) \subseteq T /\ KeysOf(W, doc) \subseteq T
      BY <1>1, <2>2
    <3> QED
      BY <3>1, <3>2
  <2>3. CASE ~Visible(doc)
    <3>1. a = <<>> /\ b = <<>> /\ x = <<>>
      BY <1>1, <2>1, <2>3, BestIs
    <3> QED
      BY <3>1
  <2> QED
    BY <2>2, <2>3
<1>4. PICK lists : lists = <<a, b>>
  OBVIOUS
<1>5. PICK y : y = Fuse(lists, count)
  OBVIOUS
<1>6. y \in Seq(T)
  BY <1>3, <1>4, <1>5, FuseTyped
<1>7. \A k : Fused(k, lists) \in Int
  <2> SUFFICES ASSUME NEW k PROVE Fused(k, lists) \in Int
    OBVIOUS
  <2>1. Fused(k, <<a, b>>) \in Nat
    BY <1>3, FusedIs
  <2> QED
    BY <1>4, <2>1
<1>8. \A k \in T : vector[k] \in Int \/ k \notin V
  OBVIOUS
<1>9. \A i \in 1 .. Len(x) : x[i] \in V
  <2>1. CASE Visible(doc)
    <3>1. x \in Seq(KeysOf(V, doc))
      BY <1>1, <2>1, BestIs DEF Bests
    <3> QED
      BY <3>1 DEF KeysOf
  <2>2. CASE ~Visible(doc)
    <3>1. x = <<>>
      BY <1>1, <2>2, BestIs
    <3> QED
      BY <3>1
  <2> QED
    BY <2>1, <2>2
<1>10. PICK p, q, r : /\ p = [i \in DOMAIN y |-> [doc |-> doc, index |-> y[i][2], score |-> Fused(y[i], lists)]]
                      /\ q = [i \in DOMAIN x |-> [doc |-> doc, index |-> x[i][2], score |-> vector[x[i]]]]
                      /\ r = Hits(doc, vector, keyword, hybrid, count)
  OBVIOUS
<1>11. r = IF hybrid THEN p ELSE q
  BY <1>1, <1>4, <1>5, <1>10, Zenon DEF Hits
<1>12. p \in Seq(HitKinds) /\ \A c \in ToSet(p) : c.doc = doc /\ Visible(doc)
  <2>1. PICK n \in Nat : n = Len(y) /\ DOMAIN y = 1 .. n
    BY <1>6
  <2>2. p = [i \in 1 .. n |-> [doc |-> doc, index |-> y[i][2], score |-> Fused(y[i], lists)]]
    BY <1>10, <2>1
  <2>3. ASSUME NEW i \in 1 .. n
        PROVE  p[i] \in HitKinds /\ p[i].doc = doc /\ Visible(doc)
    <3>1. p[i] = [doc |-> doc, index |-> y[i][2], score |-> Fused(y[i], lists)]
      BY <2>2
    <3>2. y[i] \in T
      BY <1>6, <2>1
    <3>3. y[i][2] \in Nat /\ Visible(doc) /\ Fused(y[i], lists) \in Int
      BY <1>2, <1>7, <3>2
    <3> QED
      BY <3>1, <3>3 DEF HitKinds
  <2>4. DOMAIN p = 1 .. n
    BY <2>2
  <2>5. p \in Seq(HitKinds)
    <3>1. \A i \in 1 .. n : p[i] \in HitKinds
      BY <2>3
    <3> HIDE DEF HitKinds
    <3>2. p \in [1 .. n -> HitKinds]
      BY <2>2, <3>1
    <3> QED
      BY <2>1, <3>2
  <2> QED
    BY <2>3, <2>4, <2>5 DEF ToSet
<1>13. q \in Seq(HitKinds) /\ \A c \in ToSet(q) : c.doc = doc /\ Visible(doc)
  <2>1. PICK n \in Nat : n = Len(x) /\ DOMAIN x = 1 .. n
    BY <1>3
  <2>2. q = [i \in 1 .. n |-> [doc |-> doc, index |-> x[i][2], score |-> vector[x[i]]]]
    BY <1>10, <2>1
  <2>3. ASSUME NEW i \in 1 .. n
        PROVE  q[i] \in HitKinds /\ q[i].doc = doc /\ Visible(doc)
    <3>1. q[i] = [doc |-> doc, index |-> x[i][2], score |-> vector[x[i]]]
      BY <2>2
    <3>2. x[i] \in T /\ x[i] \in V
      BY <1>3, <1>9, <2>1
    <3>3. x[i][2] \in Nat /\ Visible(doc) /\ vector[x[i]] \in Int
      BY <1>2, <3>2
    <3> QED
      BY <3>1, <3>3 DEF HitKinds
  <2>4. DOMAIN q = 1 .. n
    BY <2>2
  <2>5. q \in Seq(HitKinds)
    <3>1. \A i \in 1 .. n : q[i] \in HitKinds
      BY <2>3
    <3> HIDE DEF HitKinds
    <3>2. q \in [1 .. n -> HitKinds]
      BY <2>2, <3>1
    <3> QED
      BY <2>1, <3>2
  <2> QED
    BY <2>3, <2>4, <2>5 DEF ToSet
<1> QED
  BY <1>10, <1>11, <1>12, <1>13

\* The order in which the hits are given.
MergeOrder(chunks) == {p \in Pairs(chunks) : Before(chunks[p[1]], chunks[p[2]])}

\* Better scores are before worse ones, whatever decides between equal ones.
LEMMA MergeOrdered ==
  ASSUME NEW chunks \in Seq(HitKinds)
  PROVE  /\ WeakOrder(DOMAIN chunks, MergeOrder(chunks))
         /\ \A i, j \in DOMAIN chunks :
              chunks[i].score > chunks[j].score => <<i, j>> \in MergeOrder(chunks)
<1>1. PICK T, R : T = DOMAIN chunks /\ R = MergeOrder(chunks)
  OBVIOUS
<1>2. \A i, j \in T : <<i, j>> \in R <=> Before(chunks[i], chunks[j])
  BY <1>1 DEF MergeOrder, Pairs
<1>3. \A i \in T : chunks[i] \in HitKinds
  BY <1>1
<1>4. \A c \in HitKinds : /\ c.score \in Int /\ c.index \in Nat /\ c.doc \in Docs /\ DocOrder[c.doc] \in Nat
  BY DocsAreOrdered DEF HitKinds
<1>5. \A c, d \in HitKinds : DocOrder[c.doc] = DocOrder[d.doc] <=> c.doc = d.doc
  BY <1>4, DocsAreOrdered
<1>6. \A c \in HitKinds : ~Before(c, c)
  <2> SUFFICES ASSUME NEW c \in HitKinds PROVE ~Before(c, c)
    OBVIOUS
  <2>1. PICK s, o, i : s = c.score /\ o = DocOrder[c.doc] /\ i = c.index
    OBVIOUS
  <2>2. s \in Int /\ o \in Nat /\ i \in Nat
    BY <1>4, <2>1
  <2>3. ~(s > s) /\ ~(o < o) /\ ~(i < i)
    BY <2>2
  <2> QED
    BY <2>1, <2>3 DEF Before
<1>7. ASSUME NEW c \in HitKinds, NEW d \in HitKinds, NEW e \in HitKinds
      PROVE  /\ Before(c, d) /\ Before(d, e) => Before(c, e)
             /\ Before(c, e) => Before(c, d) \/ Before(d, e)
  <2>1. PICK s1, s2, s3, o1, o2, o3, i1, i2, i3 :
          /\ s1 = c.score /\ s2 = d.score /\ s3 = e.score
          /\ o1 = DocOrder[c.doc] /\ o2 = DocOrder[d.doc] /\ o3 = DocOrder[e.doc]
          /\ i1 = c.index /\ i2 = d.index /\ i3 = e.index
    OBVIOUS
  <2>2. /\ s1 \in Int /\ s2 \in Int /\ s3 \in Int /\ o1 \in Nat /\ o2 \in Nat /\ o3 \in Nat
        /\ i1 \in Nat /\ i2 \in Nat /\ i3 \in Nat
    BY <1>4, <2>1
  <2>3. /\ Before(c, d) <=> s1 > s2 \/ (s1 = s2 /\ o1 < o2) \/ (s1 = s2 /\ o1 = o2 /\ i1 < i2)
        /\ Before(d, e) <=> s2 > s3 \/ (s2 = s3 /\ o2 < o3) \/ (s2 = s3 /\ o2 = o3 /\ i2 < i3)
        /\ Before(c, e) <=> s1 > s3 \/ (s1 = s3 /\ o1 < o3) \/ (s1 = s3 /\ o1 = o3 /\ i1 < i3)
    <3>1. (o1 = o2 <=> c.doc = d.doc) /\ (o2 = o3 <=> d.doc = e.doc) /\ (o1 = o3 <=> c.doc = e.doc)
      BY <1>5, <2>1
    <3> QED
      BY <2>1, <3>1 DEF Before
  <2> QED
    BY <2>2, <2>3
<1>8. WeakOrder(T, R)
  BY <1>2, <1>3, <1>6, <1>7 DEF WeakOrder
<1>9. \A i, j \in T : chunks[i].score > chunks[j].score => <<i, j>> \in R
  BY <1>2 DEF Before
<1> QED
  BY <1>1, <1>8, <1>9

\* The hits of a query, those of all, and the first of each chunk.
Found(docs, scores, keyword, hybrid, count) ==
  Joined([i \in DOMAIN docs |-> Hits(docs[i], scores, keyword, hybrid, count)])
AllFound(docs, queries, keyword, hybrid, count) ==
  Joined([q \in DOMAIN queries |-> Found(docs, queries[q], keyword, hybrid, count)])
KeysIn(hits) == [i \in DOMAIN hits |-> ChunkKey(hits[i])]
Chunks(hits) == FirstOf(hits, KeysIn(hits))

\* A query finds what each of the documents has for it.
LEMMA FoundIs ==
  ASSUME NEW V, Keyed(V), NEW W, Keyed(W), NEW scores \in [V -> Int], NEW keyword \in [W -> Int],
         NEW docs \in Seq(Docs), NEW hybrid \in BOOLEAN, NEW count \in Nat
  PROVE  /\ Found(docs, scores, keyword, hybrid, count) \in Seq(HitKinds)
         /\ \A c : c \in ToSet(Found(docs, scores, keyword, hybrid, count))
                     <=> \E i \in 1 .. Len(docs) : c \in ToSet(Hits(docs[i], scores, keyword, hybrid, count))
<1>1. PICK n \in Nat : n = Len(docs) /\ DOMAIN docs = 1 .. n
  OBVIOUS
<1>2. PICK lists : lists = [i \in DOMAIN docs |-> Hits(docs[i], scores, keyword, hybrid, count)]
  OBVIOUS
<1>3. \A i \in 1 .. n : lists[i] = Hits(docs[i], scores, keyword, hybrid, count) /\ lists[i] \in Seq(HitKinds)
  <2> SUFFICES ASSUME NEW i \in 1 .. n
               PROVE  lists[i] = Hits(docs[i], scores, keyword, hybrid, count) /\ lists[i] \in Seq(HitKinds)
    OBVIOUS
  <2>1. PICK doc \in Docs : doc = docs[i]
    BY <1>1
  <2>2. Hits(doc, scores, keyword, hybrid, count) \in Seq(HitKinds)
    BY HitsAre
  <2> QED
    BY <1>1, <1>2, <2>1, <2>2
<1>4. lists \in Seq(Seq(HitKinds)) /\ Len(lists) = n
  <2>1. lists \in [1 .. n -> Seq(HitKinds)]
    BY <1>1, <1>2, <1>3
  <2> QED
    BY <1>1, <2>1
<1>5. /\ Joined(lists) \in Seq(HitKinds)
      /\ \A c : c \in ToSet(Joined(lists)) <=> \E i \in 1 .. n : c \in ToSet(lists[i])
  BY <1>4, JoinedHasAll
<1>6. Found(docs, scores, keyword, hybrid, count) = Joined(lists)
  BY <1>2, Zenon DEF Found
<1> QED
  BY <1>1, <1>3, <1>5, <1>6

\* All queries find what each of them does.
LEMMA AllFoundIs ==
  ASSUME NEW V, Keyed(V), NEW W, Keyed(W), NEW queries \in Seq([V -> Int]), NEW keyword \in [W -> Int],
         NEW docs \in Seq(Docs), NEW hybrid \in BOOLEAN, NEW count \in Nat
  PROVE  /\ AllFound(docs, queries, keyword, hybrid, count) \in Seq(HitKinds)
         /\ \A c : c \in ToSet(AllFound(docs, queries, keyword, hybrid, count))
                     <=> \E q \in 1 .. Len(queries) : c \in ToSet(Found(docs, queries[q], keyword, hybrid, count))
<1>1. PICK n \in Nat : n = Len(queries) /\ DOMAIN queries = 1 .. n
  OBVIOUS
<1>2. PICK lists : lists = [q \in DOMAIN queries |-> Found(docs, queries[q], keyword, hybrid, count)]
  OBVIOUS
<1>3. \A q \in 1 .. n : lists[q] = Found(docs, queries[q], keyword, hybrid, count) /\ lists[q] \in Seq(HitKinds)
  <2> SUFFICES ASSUME NEW q \in 1 .. n
               PROVE  lists[q] = Found(docs, queries[q], keyword, hybrid, count) /\ lists[q] \in Seq(HitKinds)
    OBVIOUS
  <2>1. PICK scores \in [V -> Int] : scores = queries[q]
    BY <1>1
  <2>2. Found(docs, scores, keyword, hybrid, count) \in Seq(HitKinds)
    BY FoundIs
  <2> QED
    BY <1>1, <1>2, <2>1, <2>2
<1>4. lists \in Seq(Seq(HitKinds)) /\ Len(lists) = n
  <2>1. lists \in [1 .. n -> Seq(HitKinds)]
    BY <1>1, <1>2, <1>3
  <2> QED
    BY <1>1, <2>1
<1>5. /\ Joined(lists) \in Seq(HitKinds)
      /\ \A c : c \in ToSet(Joined(lists)) <=> \E q \in 1 .. n : c \in ToSet(lists[q])
  BY <1>4, JoinedHasAll
<1>6. AllFound(docs, queries, keyword, hybrid, count) = Joined(lists)
  BY <1>2, Zenon DEF AllFound
<1> QED
  BY <1>1, <1>3, <1>5, <1>6

\* The candidates: the first hit of each chunk, in order.
LEMMA CandidatesAre ==
  ASSUME NEW V, Keyed(V), NEW W, Keyed(W), NEW queries \in Seq([V -> Int]), NEW keyword \in [W -> Int],
         NEW docs \in Seq(Docs), NEW hybrid \in BOOLEAN, NEW count \in Nat
  PROVE  \E hits, chunks, f, g :
           /\ hits = AllFound(docs, queries, keyword, hybrid, count) /\ hits \in Seq(HitKinds)
           /\ chunks \in Seq(HitKinds) /\ Firsts(chunks, hits, KeysIn(hits), f)
           /\ Candidates(docs, queries, keyword, hybrid, count) \in Seq(HitKinds)
           /\ Sorts(Candidates(docs, queries, keyword, hybrid, count), chunks, MergeOrder(chunks), g)
<1>1. PICK hits, chunks, all : /\ hits = AllFound(docs, queries, keyword, hybrid, count)
                               /\ chunks = FirstOf(hits, KeysIn(hits))
                               /\ all = Candidates(docs, queries, keyword, hybrid, count)
  OBVIOUS
<1>2. hits \in Seq(HitKinds)
  BY <1>1, AllFoundIs
<1>3. chunks \in Seq(HitKinds) /\ \E f : Firsts(chunks, hits, KeysIn(hits), f)
  BY <1>1, <1>2, FirstOfPicks
<1>4. all = Ordered(chunks, MergeOrder(chunks))
  BY <1>1, Zenon DEF Candidates, AllFound, Found, KeysIn, MergeOrder
<1>5. all \in Seq(HitKinds) /\ \E g : Sorts(all, chunks, MergeOrder(chunks), g)
  BY <1>3, <1>4, MergeOrdered, OrderedSorts
<1> QED
  BY <1>1, <1>2, <1>3, <1>5

\* Every candidate was found in a document that may be searched.
LEMMA CandidatesSeen ==
  ASSUME NEW V, Keyed(V), NEW W, Keyed(W), NEW queries \in Seq([V -> Int]), NEW keyword \in [W -> Int],
         NEW docs \in Seq(Docs), NEW hybrid \in BOOLEAN, NEW count \in Nat,
         NEW c \in ToSet(Candidates(docs, queries, keyword, hybrid, count))
  PROVE  c.doc \in ToSet(docs) /\ Visible(c.doc)
<1>1. PICK all : all = Candidates(docs, queries, keyword, hybrid, count)
  OBVIOUS
<1>2. PICK hits, chunks, f, g :
           /\ hits = AllFound(docs, queries, keyword, hybrid, count) /\ hits \in Seq(HitKinds)
           /\ chunks \in Seq(HitKinds) /\ Firsts(chunks, hits, KeysIn(hits), f)
           /\ all \in Seq(HitKinds) /\ Sorts(all, chunks, MergeOrder(chunks), g)
  BY <1>1, CandidatesAre
<1>3. c \in ToSet(hits)
  <2>1. PICK n \in 1 .. Len(all) : all[n] = c
    <3>1. c \in ToSet(all) /\ DOMAIN all = 1 .. Len(all)
      BY <1>1, <1>2
    <3> QED
      BY <3>1 DEF ToSet
  <2>2. PICK j : j = g[n]
    OBVIOUS
  <2>3. j \in 1 .. Len(chunks) /\ chunks[j] = c
    BY <1>2, <2>1, <2>2 DEF Sorts
  <2>4. f[j] \in 1 .. Len(hits) /\ hits[f[j]] = c
    BY <1>2, <2>3 DEF Firsts
  <2> QED
    BY <1>2, <2>4 DEF ToSet
<1>4. PICK q \in 1 .. Len(queries) : c \in ToSet(Found(docs, queries[q], keyword, hybrid, count))
  BY <1>2, <1>3, AllFoundIs
<1>5. PICK scores \in [V -> Int] : scores = queries[q]
  OBVIOUS
<1>6. PICK i \in 1 .. Len(docs) : c \in ToSet(Hits(docs[i], scores, keyword, hybrid, count))
  BY <1>4, <1>5, FoundIs
<1>7. PICK doc \in Docs : doc = docs[i]
  OBVIOUS
<1>8. c.doc = doc /\ Visible(doc)
  <2>1. c \in ToSet(Hits(doc, scores, keyword, hybrid, count))
    BY <1>6, <1>7
  <2>2. \A d \in ToSet(Hits(doc, scores, keyword, hybrid, count)) : d.doc = doc /\ Visible(doc)
    BY HitsAre
  <2> QED
    BY <2>1, <2>2
<1> QED
  BY <1>7, <1>8 DEF ToSet

-----------------------------------------------------------------------------
(* The scope of a search and of its neighbours.                            *)

\* What is picked of a list is in it, and as the places are chosen.
LEMMA PickedSome ==
  ASSUME NEW X, NEW s \in Seq(X), NEW T, T \subseteq DOMAIN s
  PROVE  At(s, T) \in Seq(X) /\ \A x \in ToSet(At(s, T)) : x \in ToSet(s) /\ \E i \in T : s[i] = x
<1>1. PICK r : r = At(s, T)
  OBVIOUS
<1>2. r \in Seq(X) /\ \E f : Picks(r, s, T, f)
  BY <1>1, AtPicks
<1>3. PICK f : Picks(r, s, T, f)
  BY <1>2
<1>4. ASSUME NEW x \in ToSet(r) PROVE x \in ToSet(s) /\ \E i \in T : s[i] = x
  <2>1. DOMAIN r = 1 .. Len(r)
    BY <1>2
  <2>2. PICK n \in 1 .. Len(r) : r[n] = x
    BY <2>1 DEF ToSet
  <2>3. f[n] \in T /\ s[f[n]] = x
    BY <1>3, <2>2 DEF Picks
  <2> QED
    BY <2>3 DEF ToSet
<1> QED
  BY <1>1, <1>2, <1>4

\* Documents in the scope of a question.
InScope(docs, scope, requested, linked, filter) ==
  /\ docs \in Seq(Docs)
  /\ \A d \in ToSet(docs) : /\ scope = "session" /\ linked # <<>> => d \in ToSet(linked)
                            /\ scope = "session" => d \in ToSet(requested) \/ requested = <<>>
                            /\ filter # NoFilter => Corpus[d].dept \in filter

\* The documents that are searched.
LEMMA SearchedAre ==
  ASSUME NEW scope, NEW requested \in Seq(Docs), NEW linked \in Seq(Docs), NEW registered \in Seq(Docs), NEW filter
  PROVE  InScope(Searched(scope, requested, linked, registered, filter), scope, requested, linked, filter)
<1>1. PICK a, b, c : /\ a = Scoped(scope, requested, linked, registered) /\ b = OfTenant(a, registered)
                     /\ c = Searched(scope, requested, linked, registered, filter)
  OBVIOUS
<1>2. /\ a \in Seq(Docs)
      /\ \A d \in ToSet(a) : /\ scope = "session" /\ linked # <<>> => d \in ToSet(linked)
                             /\ scope = "session" => d \in ToSet(requested) \/ requested = <<>>
  <2>1. CASE scope = "session" /\ linked # <<>> /\ requested # <<>>
    <3>1. PICK T : T = {i \in DOMAIN requested : requested[i] \in ToSet(linked)}
      OBVIOUS
    <3>2. a = At(requested, T) /\ T \subseteq DOMAIN requested
      BY <1>1, <2>1, <3>1 DEF Scoped
    <3>3. a \in Seq(Docs) /\ \A d \in ToSet(a) : d \in ToSet(requested) /\ \E i \in T : requested[i] = d
      BY <3>2, PickedSome
    <3> QED
      BY <3>1, <3>3
  <2>2. CASE scope = "session" /\ linked # <<>> /\ requested = <<>>
    BY <1>1, <2>2 DEF Scoped
  <2>3. CASE scope = "tenant" /\ registered # <<>>
    BY <1>1, <2>3 DEF Scoped
  <2>4. CASE /\ ~(scope = "session" /\ linked # <<>>)
             /\ ~(scope = "tenant" /\ registered # <<>>)
    BY <1>1, <2>4 DEF Scoped
  <2> QED
    BY <2>1, <2>2, <2>3, <2>4
<1>3. b \in Seq(Docs) /\ \A d \in ToSet(b) : d \in ToSet(a)
  <2>1. CASE registered = <<>>
    BY <1>1, <1>2, <2>1 DEF OfTenant
  <2>2. CASE registered # <<>>
    <3>1. PICK T : T = {i \in DOMAIN a : a[i] \in ToSet(registered)}
      OBVIOUS
    <3>2. b = At(a, T) /\ T \subseteq DOMAIN a
      BY <1>1, <2>2, <3>1 DEF OfTenant
    <3> QED
      BY <1>2, <3>2, PickedSome
  <2> QED
    BY <2>1, <2>2
<1>4. c \in Seq(Docs) /\ \A d \in ToSet(c) : d \in ToSet(b) /\ (filter # NoFilter => Corpus[d].dept \in filter)
  <2>1. CASE filter = NoFilter
    <3>1. c = b
      BY <1>1, <2>1 DEF Searched
    <3> QED
      BY <1>3, <2>1, <3>1
  <2>2. CASE filter # NoFilter
    <3>1. PICK T : T = {i \in DOMAIN b : Corpus[b[i]].owner = "own" /\ Corpus[b[i]].dept \in filter}
      OBVIOUS
    <3>2. c = At(b, T) /\ T \subseteq DOMAIN b
      BY <1>1, <2>2, <3>1 DEF Searched, Matching
    <3>3. c \in Seq(Docs) /\ \A d \in ToSet(c) : d \in ToSet(b) /\ \E i \in T : b[i] = d
      BY <1>3, <3>2, PickedSome
    <3> QED
      BY <3>1, <3>3
  <2> QED
    BY <2>1, <2>2
<1> QED
  BY <1>1, <1>2, <1>3, <1>4 DEF InScope

\* retrieval_service: a question reads its tenant's completed documents, in its scope
\* and its filter.
LEMMA SearchAlwaysScoped ==
  ASSUME NEW scope, NEW requested \in Seq(Docs), NEW linked \in Seq(Docs), NEW registered \in Seq(Docs), NEW filter
  PROVE  SearchScoped(scope, requested, linked, registered, filter)
<1>1. PICK docs, score : /\ docs = Searched(scope, requested, linked, registered, filter)
                         /\ score = [k \in Docs \X {0} |-> 1]
  OBVIOUS
<1>2. PICK read : read = UNION {{c.doc : c \in ToSet(Candidates(docs, <<score>>, score, hybrid, 1))} : hybrid \in BOOLEAN}
  OBVIOUS
<1>3. /\ docs \in Seq(Docs)
      /\ \A d \in ToSet(docs) : /\ scope = "session" /\ linked # <<>> => d \in ToSet(linked)
                                /\ scope = "session" => d \in ToSet(requested) \/ requested = <<>>
                                /\ filter # NoFilter => Corpus[d].dept \in filter
  <2>1. InScope(docs, scope, requested, linked, filter)
    BY <1>1, SearchedAre
  <2> QED
    BY <2>1 DEF InScope
<1>4. PICK K : K = Docs \X {0}
  OBVIOUS
<1>5. Keyed(K) /\ score \in [K -> Int] /\ <<score>> \in Seq([K -> Int])
  <2>1. IsFiniteSet(Docs) /\ IsFiniteSet({0})
    BY DocsAreOrdered, FS_Singleton
  <2>2. IsFiniteSet(K) /\ K \subseteq Docs \X Nat
    BY <1>4, <2>1, FS_Product
  <2>3. score \in [K -> Int]
    BY <1>1, <1>4
  <2> QED
    BY <2>2, <2>3 DEF Keyed
<1>6. ASSUME NEW d \in read PROVE d \in ToSet(docs) /\ Visible(d)
  <2>1. PICK hybrid \in BOOLEAN : d \in {c.doc : c \in ToSet(Candidates(docs, <<score>>, score, hybrid, 1))}
    BY <1>2
  <2>2. PICK c \in ToSet(Candidates(docs, <<score>>, score, hybrid, 1)) : d = c.doc
    BY <2>1
  <2>3. PICK queries : queries = <<score>> /\ queries \in Seq([K -> Int])
    BY <1>5
  <2>4. 1 \in Nat /\ c \in ToSet(Candidates(docs, queries, score, hybrid, 1))
    BY <2>2, <2>3
  <2>5. c.doc \in ToSet(docs) /\ Visible(c.doc)
    BY <1>3, <1>5, <2>3, <2>4, CandidatesSeen
  <2> QED
    BY <2>2, <2>5
<1>7. CASE ScopeFails(docs, requested, filter)
  BY <1>1, <1>7, Zenon DEF SearchScoped
<1>8. CASE ~ScopeFails(docs, requested, filter)
  <2>1. \A d \in read : Corpus[d].owner = "own" /\ Corpus[d].status = "completed"
    BY <1>6 DEF Visible
  <2>2. scope = "session" /\ linked # <<>> => read \subseteq ToSet(linked)
    BY <1>3, <1>6
  <2>3. scope = "session" => read \subseteq ToSet(requested) \/ requested = <<>>
    BY <1>3, <1>6
  <2>4. filter # NoFilter => /\ \A d \in read : Corpus[d].dept \in filter
                             /\ ToSet(requested) \cap ToSet(docs) # {}
    BY <1>3, <1>6, <1>8 DEF ScopeFails
  <2> QED
    BY <1>1, <1>2, <2>1, <2>2, <2>3, <2>4, Zenon DEF SearchScoped
<1> QED
  BY <1>7, <1>8

\* Mentions of entities in chunks.
MentionKeys == Int \X Int
Mentioned(mentions) == IsFiniteSet(mentions) /\ mentions \subseteq Int \X MentionKeys

\* No two mentions are at the same place of their order.
LEMMA MentionsOrdered ==
  ASSUME NEW new, Mentioned(new)
  PROVE  StrictOrder(new, ByEntity(new))
<1>1. PICK R : R = ByEntity(new)
  OBVIOUS
<1>2. /\ \A m, n \in new : <<m, n>> \in R <=> EntityBefore(m, n)
      /\ \A m \in new : /\ m[1] \in Int /\ m[2][1] \in Int /\ m[2][2] \in Int
                        /\ m = <<m[1], <<m[2][1], m[2][2]>>>>
  BY <1>1 DEF ByEntity, Mentioned, MentionKeys
<1>3. \A m \in new : <<m, m>> \notin R
  <2> SUFFICES ASSUME NEW m \in new PROVE ~EntityBefore(m, m)
    BY <1>2
  <2>1. PICK e, d, i : e = m[1] /\ d = m[2][1] /\ i = m[2][2]
    OBVIOUS
  <2>2. e \in Int /\ d \in Int /\ i \in Int
    BY <1>2, <2>1
  <2>3. ~(e < e) /\ ~(d < d) /\ ~(i < i)
    BY <2>2
  <2> QED
    BY <2>1, <2>3 DEF EntityBefore
<1>4. \A k, m, n \in new : <<k, m>> \in R /\ <<m, n>> \in R => <<k, n>> \in R
  <2> SUFFICES ASSUME NEW k \in new, NEW m \in new, NEW n \in new, EntityBefore(k, m), EntityBefore(m, n)
               PROVE  EntityBefore(k, n)
    BY <1>2
  <2>1. PICK e1, e2, e3, d1, d2, d3, i1, i2, i3 :
          /\ e1 = k[1] /\ e2 = m[1] /\ e3 = n[1] /\ d1 = k[2][1] /\ d2 = m[2][1] /\ d3 = n[2][1]
          /\ i1 = k[2][2] /\ i2 = m[2][2] /\ i3 = n[2][2]
    OBVIOUS
  <2>2. /\ e1 \in Int /\ e2 \in Int /\ e3 \in Int /\ d1 \in Int /\ d2 \in Int /\ d3 \in Int
        /\ i1 \in Int /\ i2 \in Int /\ i3 \in Int
    BY <1>2, <2>1
  <2>3. /\ e1 < e2 \/ (e1 = e2 /\ d1 < d2) \/ (e1 = e2 /\ d1 = d2 /\ i1 < i2)
        /\ e2 < e3 \/ (e2 = e3 /\ d2 < d3) \/ (e2 = e3 /\ d2 = d3 /\ i2 < i3)
    BY <2>1 DEF EntityBefore
  <2>4. e1 < e3 \/ (e1 = e3 /\ d1 < d3) \/ (e1 = e3 /\ d1 = d3 /\ i1 < i3)
    BY <2>2, <2>3
  <2> QED
    BY <2>1, <2>4 DEF EntityBefore
<1>5. \A m, n \in new : m # n => <<m, n>> \in R \/ <<n, m>> \in R
  <2> SUFFICES ASSUME NEW m \in new, NEW n \in new, m # n PROVE EntityBefore(m, n) \/ EntityBefore(n, m)
    BY <1>2
  <2>1. PICK e1, e2, d1, d2, i1, i2 :
          e1 = m[1] /\ e2 = n[1] /\ d1 = m[2][1] /\ d2 = n[2][1] /\ i1 = m[2][2] /\ i2 = n[2][2]
    OBVIOUS
  <2>2. /\ e1 \in Int /\ e2 \in Int /\ d1 \in Int /\ d2 \in Int /\ i1 \in Int /\ i2 \in Int
        /\ m = <<e1, <<d1, i1>>>> /\ n = <<e2, <<d2, i2>>>>
    BY <1>2, <2>1
  <2>3. e1 # e2 \/ d1 # d2 \/ i1 # i2
    BY <2>2
  <2>4. \/ e1 < e2 \/ (e1 = e2 /\ d1 < d2) \/ (e1 = e2 /\ d1 = d2 /\ i1 < i2)
        \/ e2 < e1 \/ (e2 = e1 /\ d2 < d1) \/ (e2 = e1 /\ d2 = d1 /\ i2 < i1)
    BY <2>2, <2>3
  <2> QED
    BY <2>1, <2>4 DEF EntityBefore
<1> QED
  BY <1>1, <1>3, <1>4, <1>5 DEF StrictOrder

\* The chunks that may be added to the seeds, wherever they are.
Related(seeds, mentions, relations) ==
  {k \in {m[2] : m \in mentions} \ ToSet(seeds) :
     \E m, n \in mentions : n[2] = k /\ m[2] \in ToSet(seeds) /\ (m[1] = n[1] \/ <<m[1], n[1]>> \in relations)}

\* A list of the elements of a set, none twice.
Distinct(list, T) ==
  /\ Len(list) \in Nat /\ ToSet(list) = T
  /\ \A i, j \in 1 .. Len(list) : list[i] = list[j] => i = j

\* The neighbours are the related chunks, none twice.
LEMMA NeighboursAre ==
  ASSUME NEW seeds, NEW mentions, Mentioned(mentions), NEW relations
  PROVE  /\ Neighbours(seeds, mentions, relations) \in Seq(MentionKeys)
         /\ Distinct(Neighbours(seeds, mentions, relations), Related(seeds, mentions, relations))
<1>1. PICK of, near, new : /\ of = {m[1] : m \in {n \in mentions : n[2] \in ToSet(seeds)}}
                           /\ near = of \union {e \in {m[1] : m \in mentions} : \E o \in of : <<o, e>> \in relations}
                           /\ new = {m \in mentions : m[1] \in near /\ m[2] \notin ToSet(seeds)}
  OBVIOUS
<1>2. Mentioned(new) /\ IsFiniteSet(new)
  <2>1. new \subseteq mentions
    BY <1>1
  <2> QED
    BY <2>1, FS_Subset DEF Mentioned
<1>3. PICK c, R, rows : c = Cardinality(new) /\ R = ByEntity(new) /\ rows = InOrder(new, R)
  OBVIOUS
<1>4. c \in Nat /\ Enumerates(rows, new, R)
  BY <1>2, <1>3, MentionsOrdered, InOrderLists
<1>5. rows \in [1 .. c -> new] /\ \A m \in new : \E n \in 1 .. c : rows[n] = m
  BY <1>3, <1>4 DEF Enumerates
<1>6. PICK keys : keys = [i \in DOMAIN rows |-> rows[i][2]]
  OBVIOUS
<1>7. keys \in Seq(MentionKeys) /\ Len(keys) = c /\ \A i \in 1 .. c : keys[i] = rows[i][2]
  <2>1. \A m \in new : m[2] \in MentionKeys
    BY <1>2 DEF Mentioned
  <2>2. keys \in [1 .. c -> MentionKeys]
    BY <1>5, <1>6, <2>1
  <2> QED
    BY <1>4, <1>5, <1>6, <2>2
<1>8. PICK list : list = FirstOf(keys, keys)
  OBVIOUS
<1>9. Neighbours(seeds, mentions, relations) = list
  BY <1>1, <1>3, <1>6, <1>8, Zenon DEF Neighbours
<1>10. list \in Seq(MentionKeys) /\ Len(list) \in Nat /\ \E f : Firsts(list, keys, keys, f)
  BY <1>7, <1>8, FirstOfPicks
<1>11. PICK f : Firsts(list, keys, keys, f)
  BY <1>10
<1>12. \A i \in 1 .. Len(list) : f[i] \in 1 .. c /\ list[i] = keys[f[i]]
  BY <1>7, <1>11 DEF Firsts
<1>13. \A i, j \in 1 .. Len(list) : list[i] = list[j] => i = j
  BY <1>11, <1>12 DEF Firsts
<1>14. \A x : x \in ToSet(list) <=> \E m \in new : m[2] = x
  <2>1. ASSUME NEW x \in ToSet(list) PROVE \E m \in new : m[2] = x
    <3>1. DOMAIN list = 1 .. Len(list)
      BY <1>10
    <3>2. PICK i \in 1 .. Len(list) : list[i] = x
      BY <3>1 DEF ToSet
    <3>3. PICK j \in 1 .. c : j = f[i] /\ x = keys[j]
      BY <1>12, <3>2
    <3>4. rows[j] \in new /\ rows[j][2] = x
      BY <1>5, <1>7, <3>3
    <3> QED
      BY <3>4
  <2>2. ASSUME NEW m \in new PROVE m[2] \in ToSet(list)
    <3>1. PICK i \in 1 .. c : keys[i] = m[2]
      BY <1>5, <1>7
    <3>2. PICK n \in 1 .. Len(list) : keys[f[n]] = keys[i]
      BY <1>7, <1>11, <3>1 DEF Firsts
    <3>3. list[n] = m[2] /\ DOMAIN list = 1 .. Len(list)
      BY <1>10, <1>12, <3>1, <3>2
    <3> QED
      BY <3>2, <3>3 DEF ToSet
  <2> QED
    BY <2>1, <2>2
<1>15. ToSet(list) = Related(seeds, mentions, relations)
  <2>1. \A e : e \in of <=> \E m \in mentions : m[1] = e /\ m[2] \in ToSet(seeds)
    BY <1>1
  <2>2. \A n \in mentions : n[1] \in near <=> \E m \in mentions : /\ m[2] \in ToSet(seeds)
                                                                  /\ m[1] = n[1] \/ <<m[1], n[1]>> \in relations
    <3> SUFFICES ASSUME NEW n \in mentions
                 PROVE  n[1] \in near <=> \E m \in mentions : /\ m[2] \in ToSet(seeds)
                                                              /\ m[1] = n[1] \/ <<m[1], n[1]>> \in relations
      OBVIOUS
    <3>1. n[1] \in near <=> n[1] \in of \/ \E o \in of : <<o, n[1]>> \in relations
      BY <1>1
    <3> QED
      BY <2>1, <3>1
  <2>3. \A m : m \in new <=> m \in mentions /\ m[1] \in near /\ m[2] \notin ToSet(seeds)
    BY <1>1
  <2>4. \A x : x \in Related(seeds, mentions, relations)
                 <=> \E m \in new : m[2] = x
    BY <2>2, <2>3 DEF Related
  <2> QED
    BY <1>14, <2>4
<1> QED
  BY <1>9, <1>10, <1>13, <1>15 DEF Distinct

\* What is behind the first of two lists that are joined is the second.
LEMMA RestOfJoined ==
  ASSUME NEW X, NEW s \in Seq(X), NEW t \in Seq(X)
  PROVE  SubSeq(s \o t, Len(s) + 1, Len(s \o t)) = t
<1>1. PICK a, b, l : a = Len(s) /\ b = Len(t) /\ l = s \o t
  OBVIOUS
<1>2. /\ a \in Nat /\ b \in Nat /\ l \in Seq(X) /\ Len(l) = a + b
      /\ \A i \in 1 .. b : l[a + i] = t[i]
  BY <1>1
<1>3. PICK r : r = SubSeq(l, a + 1, a + b)
  OBVIOUS
<1>4. r \in Seq(X) /\ Len(r) = b /\ \A i \in 1 .. b : r[i] = l[a + i]
  <2>1. \A i \in a + 1 .. a + b : l[i] \in X
    BY <1>2
  <2>2. r = [i \in 1 .. (a + b) - (a + 1) + 1 |-> l[(i + (a + 1)) - 1]]
    BY <1>2, <1>3
  <2>3. (a + b) - (a + 1) + 1 = b /\ \A i \in 1 .. b : (i + (a + 1)) - 1 = a + i /\ a + i \in a + 1 .. a + b
    BY <1>2
  <2>4. r \in [1 .. b -> X] /\ \A i \in 1 .. b : r[i] = l[a + i]
    BY <2>1, <2>2, <2>3
  <2> QED
    BY <1>2, <2>4
<1>5. r = t
  BY <1>1, <1>2, <1>4
<1> QED
  BY <1>1, <1>2, <1>3, <1>5

\* The chunks that may be added, in the documents in scope.
Possible(seeds, mentions, relations, allowed) ==
  {k \in {m[2] : m \in mentions} \ ToSet(seeds) : k[1] \in allowed /\
     \E m, n \in mentions : n[2] = k /\ m[2] \in ToSet(seeds) /\
       (m[1] = n[1] \/ <<m[1], n[1]>> \in relations)}

\* The chunks that are added.
Added(seeds, mentions, relations, allowed, limit) ==
  Take(Within(Neighbours(seeds, mentions, relations), allowed), limit)

\* They are possible ones, none twice, and as many as the limit allows.
LEMMA AddedAre ==
  ASSUME NEW seeds, NEW mentions, Mentioned(mentions), NEW relations, NEW allowed, NEW limit \in Nat,
         NEW more, more = Added(seeds, mentions, relations, allowed, limit),
         NEW possible, possible = Possible(seeds, mentions, relations, allowed)
  PROVE  /\ more \in Seq(MentionKeys) /\ ToSet(more) \subseteq possible
         /\ Len(more) = Cardinality(ToSet(more))
         /\ Len(more) = IF limit < Cardinality(possible) THEN limit ELSE Cardinality(possible)
<1>1. PICK list : list = Neighbours(seeds, mentions, relations)
  OBVIOUS
<1>2. list \in Seq(MentionKeys) /\ Distinct(list, Related(seeds, mentions, relations))
  BY <1>1, NeighboursAre
<1>3. PICK T : T = {i \in DOMAIN list : list[i][1] \in allowed}
  OBVIOUS
<1>4. T \subseteq DOMAIN list /\ DOMAIN list = 1 .. Len(list)
  BY <1>2, <1>3
<1>5. PICK own : own = At(list, T)
  OBVIOUS
<1>6. own \in Seq(MentionKeys) /\ Len(own) \in Nat /\ \E f : Picks(own, list, T, f)
  BY <1>2, <1>4, <1>5, AtPicks
<1>7. PICK f : Picks(own, list, T, f)
  BY <1>6
<1>8. \A i \in 1 .. Len(own) : f[i] \in T /\ own[i] = list[f[i]]
  BY <1>7 DEF Picks
<1>9. \A i, j \in 1 .. Len(own) : own[i] = own[j] => i = j
  <2>1. \A i, j \in 1 .. Len(list) : list[i] = list[j] => i = j
    BY <1>2 DEF Distinct
  <2>2. \A i, j \in 1 .. Len(own) : f[i] = f[j] => i = j
    BY <1>7 DEF Picks
  <2> QED
    BY <1>4, <1>8, <2>1, <2>2
<1>10. \A x : x \in ToSet(own) <=> x \in possible
  <2>1. \A x : x \in possible <=> x \in Related(seeds, mentions, relations) /\ x[1] \in allowed
    BY DEF Possible, Related
  <2>2. \A x : x \in ToSet(list) <=> x \in Related(seeds, mentions, relations)
    BY <1>2 DEF Distinct
  <2>3. \A x : x \in ToSet(list) <=> \E i \in 1 .. Len(list) : list[i] = x
    BY <1>4 DEF ToSet
  <2>4. \A x : x \in ToSet(own) <=> \E i \in 1 .. Len(own) : own[i] = x
    BY <1>6 DEF ToSet
  <2>5. \A i \in T : \E n \in 1 .. Len(own) : own[n] = list[i]
    BY <1>7, <1>8 DEF Picks
  <2>6. ASSUME NEW x \in ToSet(own) PROVE x \in possible
    <3>1. PICK i \in 1 .. Len(own) : own[i] = x
      BY <2>4
    <3>2. f[i] \in 1 .. Len(list) /\ list[f[i]] = x /\ x[1] \in allowed
      BY <1>3, <1>4, <1>8, <3>1
    <3> QED
      BY <2>1, <2>2, <2>3, <3>2
  <2>7. ASSUME NEW x \in possible PROVE x \in ToSet(own)
    <3>1. PICK i \in 1 .. Len(list) : list[i] = x /\ x[1] \in allowed
      BY <2>1, <2>2, <2>3
    <3>2. i \in T
      BY <1>3, <1>4, <3>1
    <3> QED
      BY <2>4, <2>5, <3>1, <3>2
  <2> QED
    BY <2>6, <2>7
<1>11. PICK c : c = Cardinality(possible)
  OBVIOUS
<1>12. c = Len(own)
  <2>1. Cardinality(ToSet(own)) = Len(own)
    BY <1>6, <1>9, DistinctLength
  <2>2. ToSet(own) = possible
    BY <1>10
  <2> QED
    BY <1>11, <2>1, <2>2
<1>13. more = Take(own, limit)
  BY <1>1, <1>3, <1>5 DEF Added, Within
<1>14. PICK l : l = Least2(limit, Len(own))
  OBVIOUS
<1>15. /\ more \in Seq(MentionKeys) /\ Len(more) = l /\ l \in 0 .. Len(own)
       /\ \A i \in 1 .. l : i \in 1 .. Len(own) /\ more[i] = own[i]
  BY <1>6, <1>13, <1>14, TakeIsPrefix
<1>16. Cardinality(ToSet(more)) = Len(more)
  <2>1. \A i, j \in 1 .. Len(more) : more[i] = more[j] => i = j
    BY <1>9, <1>15
  <2> QED
    BY <1>15, <2>1, DistinctLength
<1>17. ToSet(more) \subseteq possible
  <2>1. \A x : x \in ToSet(more) => \E i \in 1 .. l : more[i] = x
    BY <1>15 DEF ToSet
  <2>2. \A i \in 1 .. Len(own) : own[i] \in ToSet(own)
    BY <1>6 DEF ToSet
  <2> QED
    BY <1>10, <1>15, <2>1, <2>2
<1>18. Len(more) = IF limit < c THEN limit ELSE c
  BY <1>12, <1>14, <1>15 DEF Least2
<1> QED
  BY <1>11, <1>15, <1>16, <1>17, <1>18

\* With no seed nothing is near one.
LEMMA NothingPossible ==
  ASSUME NEW mentions, NEW relations, NEW allowed
  PROVE  Possible(<<>>, mentions, relations, allowed) = {}
<1>1. ToSet(<<>>) = {}
  BY DEF ToSet
<1> QED
  BY <1>1 DEF Possible

\* The graph adds chunks in scope only, for any mentions, relations, seeds and limit.
LEMMA GraphAlwaysInScope ==
  ASSUME NEW seeds \in Seq(MentionKeys), NEW mentions, Mentioned(mentions), NEW relations, NEW allowed,
         NEW limit \in Nat
  PROVE  GraphInScope(seeds, mentions, relations, allowed, limit)
<1>1. PICK got, extras, possible : /\ got = ExpandChunks(seeds, mentions, relations, allowed, limit)
                                   /\ extras = SubSeq(got, Len(seeds) + 1, Len(got))
                                   /\ possible = Possible(seeds, mentions, relations, allowed)
  OBVIOUS
<1>2. SUFFICES /\ IsPrefix(seeds, got) /\ ToSet(extras) \subseteq possible
               /\ Len(extras) = Cardinality(ToSet(extras))
               /\ Len(extras) = IF limit < Cardinality(possible) THEN limit ELSE Cardinality(possible)
  BY <1>1, Zenon DEF GraphInScope, Possible
<1>3. CASE seeds = <<>>
  <2>1. got = <<>>
    BY <1>1, <1>3 DEF ExpandChunks
  <2>2. extras = <<>> /\ Len(extras) = 0
    BY <1>1, <1>3, <2>1
  <2>3. ToSet(extras) = {} /\ possible = {}
    BY <1>1, <1>3, <2>2, NothingPossible DEF ToSet
  <2>4. Cardinality({}) = 0
    BY FS_EmptySet
  <2>5. IsPrefix(seeds, got)
    <3>1. seeds \in Seq(MentionKeys) /\ got \in Seq(MentionKeys) /\ Len(seeds) <= Len(got)
          /\ \A i \in 1 .. Len(seeds) : seeds[i] = got[i]
      BY <1>3, <2>1
    <3> QED
      BY <3>1, PrefixByPlaces
  <2>6. Len(extras) = IF limit < Cardinality(possible) THEN limit ELSE Cardinality(possible)
    BY <2>2, <2>3, <2>4
  <2> QED
    BY <2>2, <2>3, <2>4, <2>5, <2>6
<1>4. CASE seeds # <<>>
  <2>1. PICK more : more = Added(seeds, mentions, relations, allowed, limit)
    OBVIOUS
  <2>2. /\ more \in Seq(MentionKeys) /\ ToSet(more) \subseteq possible
        /\ Len(more) = Cardinality(ToSet(more))
        /\ Len(more) = IF limit < Cardinality(possible) THEN limit ELSE Cardinality(possible)
    BY SMTT(30), <1>1, <2>1, AddedAre
  <2>3. got = seeds \o more
    BY <1>1, <1>4, <2>1 DEF ExpandChunks, Added
  <2>4. /\ got \in Seq(MentionKeys) /\ Len(got) = Len(seeds) + Len(more) /\ Len(seeds) \in Nat /\ Len(more) \in Nat
        /\ \A i \in 1 .. Len(got) : got[i] = IF i <= Len(seeds) THEN seeds[i] ELSE more[i - Len(seeds)]
    <3>1. more \in Seq(MentionKeys)
      BY <2>2
    <3> QED
      BY <3>1, <2>3
  <2>5. extras = more
    BY <1>1, <2>2, <2>3, <2>4, RestOfJoined
  <2>6. \A i \in 1 .. Len(seeds) : seeds[i] = got[i]
    BY <2>4
  <2>7. IsPrefix(seeds, got)
    BY <2>4, <2>6, PrefixByPlaces
  <2> QED
    BY <2>2, <2>5, <2>7
<1> QED
  BY <1>3, <1>4

-----------------------------------------------------------------------------
(* Reranking.                                                              *)

\* The candidates of a reranker, which differ by their ids, and a vendor's results.
Rankable == [id : Int, score : Int, lexical : Int]
Scoring == [index : Int, score : Int]
DistinctIds(candidates) ==
  \A i, j \in 1 .. Len(candidates) : candidates[i].id = candidates[j].id => i = j

\* got has candidates, at the places f, none twice.
Arranged(got, candidates, f) ==
  /\ got \in Seq(Rankable) /\ Len(got) \in Nat
  /\ f \in [1 .. Len(got) -> 1 .. Len(candidates)]
  /\ \A m, n \in 1 .. Len(got) : f[m] = f[n] => m = n
  /\ \A n \in 1 .. Len(got) : got[n] = candidates[f[n]]

\* Such a list has candidates only, each with its own id.
LEMMA ArrangedKeeps ==
  ASSUME NEW candidates \in Seq(Rankable), DistinctIds(candidates), NEW got, NEW f, Arranged(got, candidates, f)
  PROVE  ToSet(got) \subseteq ToSet(candidates) /\ Cardinality({c.id : c \in ToSet(got)}) = Len(got)
<1>1. PICK l, n : l = Len(got) /\ n = Len(candidates)
  OBVIOUS
<1>2. /\ l \in Nat /\ got \in Seq(Rankable) /\ f \in [1 .. l -> 1 .. n]
      /\ \A i, j \in 1 .. l : f[i] = f[j] => i = j
      /\ \A i \in 1 .. l : got[i] = candidates[f[i]]
      /\ \A i, j \in 1 .. n : candidates[i].id = candidates[j].id => i = j
  BY <1>1 DEF Arranged, DistinctIds
<1>3. \A x : x \in ToSet(got) <=> \E i \in 1 .. l : got[i] = x
  BY <1>1, <1>2 DEF ToSet
<1>4. ToSet(got) \subseteq ToSet(candidates)
  <2>1. \A i \in 1 .. n : candidates[i] \in ToSet(candidates)
    BY <1>1 DEF ToSet
  <2> QED
    BY <1>2, <1>3, <2>1
<1>5. PICK ids : ids = [i \in 1 .. l |-> got[i].id]
  OBVIOUS
<1>6. ids \in Seq(Int) /\ Len(ids) = l
  <2>1. \A i \in 1 .. l : got[i] \in Rankable
    BY <1>1, <1>2
  <2>2. ids \in [1 .. l -> Int]
    BY <1>5, <2>1 DEF Rankable
  <2> QED
    BY <1>2, <2>2
<1>7. \A i, j \in 1 .. Len(ids) : ids[i] = ids[j] => i = j
  <2> SUFFICES ASSUME NEW i \in 1 .. l, NEW j \in 1 .. l, ids[i] = ids[j] PROVE i = j
    BY <1>6
  <2>1. candidates[f[i]].id = candidates[f[j]].id /\ f[i] \in 1 .. n /\ f[j] \in 1 .. n
    BY <1>2, <1>5
  <2>2. f[i] = f[j]
    BY <1>2, <2>1
  <2> QED
    BY <1>2, <2>2
<1>8. Cardinality(ToSet(ids)) = Len(ids)
  BY <1>6, <1>7, DistinctLength
<1>9. ToSet(ids) = {c.id : c \in ToSet(got)}
  <2>1. \A x : x \in ToSet(ids) <=> \E i \in 1 .. l : ids[i] = x
    BY SMTT(30), <1>6 DEF ToSet
  <2>2. \A x : x \in ToSet(ids) <=> \E i \in 1 .. l : got[i].id = x
    BY <1>5, <2>1
  <2>3. \A x : x \in {c.id : c \in ToSet(got)} <=> \E i \in 1 .. l : got[i].id = x
    BY <1>3
  <2> QED
    BY <2>2, <2>3
<1> QED
  BY <1>1, <1>4, <1>6, <1>8, <1>9

\* The beginning of such a list is one.
LEMMA ArrangedTaken ==
  ASSUME NEW candidates \in Seq(Rankable), NEW all, NEW f, Arranged(all, candidates, f), NEW top \in Nat
  PROVE  /\ \E g : Arranged(Take(all, top), candidates, g)
         /\ Len(Take(all, top)) = Least2(top, Len(all))
         /\ \A i \in 1 .. Least2(top, Len(all)) : i \in 1 .. Len(all) /\ Take(all, top)[i] = all[i]
<1>1. PICK l, n, m, got : l = Len(all) /\ n = Len(candidates) /\ m = Least2(top, l) /\ got = Take(all, top)
  OBVIOUS
<1>2. /\ l \in Nat /\ all \in Seq(Rankable) /\ f \in [1 .. l -> 1 .. n]
      /\ \A i, j \in 1 .. l : f[i] = f[j] => i = j
      /\ \A i \in 1 .. l : all[i] = candidates[f[i]]
  BY <1>1 DEF Arranged
<1>3. got \in Seq(Rankable) /\ Len(got) = m /\ m \in 0 .. l /\ \A i \in 1 .. m : i \in 1 .. l /\ got[i] = all[i]
  <2>1. all \in Seq(Rankable)
    BY <1>2
  <2>2. /\ Take(all, top) \in Seq(Rankable) /\ Len(Take(all, top)) = Least2(top, Len(all))
        /\ Least2(top, Len(all)) \in 0 .. Len(all)
        /\ \A i \in 1 .. Least2(top, Len(all)) : i \in 1 .. Len(all) /\ Take(all, top)[i] = all[i]
    BY <2>1, TakeIsPrefix
  <2> QED
    BY <1>1, <2>2
<1>4. PICK g : g = [i \in 1 .. m |-> f[i]]
  OBVIOUS
<1>5. Arranged(got, candidates, g)
  <2>1. g \in [1 .. m -> 1 .. n] /\ m \in Nat
    BY <1>2, <1>3, <1>4
  <2>2. \A i, j \in 1 .. m : g[i] = g[j] => i = j
    BY <1>2, <1>3, <1>4
  <2>3. \A i \in 1 .. m : got[i] = candidates[g[i]]
    BY <1>2, <1>3, <1>4
  <2> QED
    BY <1>1, <1>3, <2>1, <2>2, <2>3 DEF Arranged
<1> QED
  BY <1>1, <1>3, <1>5

\* The candidates themselves.
LEMMA ArrangedAlready ==
  ASSUME NEW candidates \in Seq(Rankable)
  PROVE  \E f : Arranged(candidates, candidates, f)
<1>1. PICK n, f : n = Len(candidates) /\ f = [i \in 1 .. n |-> i]
  OBVIOUS
<1>2. n \in Nat /\ f \in [1 .. n -> 1 .. n] /\ \A i \in 1 .. n : f[i] = i
  BY <1>1
<1> QED
  BY <1>1, <1>2 DEF Arranged

\* A list that is not empty has a largest number.
LEMMA LargestOfList ==
  ASSUME NEW s \in Seq(Int), s # <<>>
  PROVE  \E i \in 1 .. Len(s) : \A j \in 1 .. Len(s) : s[j] <= s[i]
<1>1. PICK ahead : ahead = {p \in Pairs(s) : s[p[1]] > s[p[2]]}
  OBVIOUS
<1>2. \A i, j \in DOMAIN s : <<i, j>> \in ahead <=> s[i] > s[j]
  BY <1>1 DEF Pairs
<1>3. \A i \in DOMAIN s : s[i] \in Int
  OBVIOUS
<1>4. WeakOrder(DOMAIN s, ahead)
  BY <1>2, <1>3, ByValue
<1>5. PICK f : Sorts(Ordered(s, ahead), s, ahead, f)
  BY <1>4, OrderedSorts
<1>6. PICK n : n = Len(s)
  OBVIOUS
<1>7. n \in Nat \ {0} /\ DOMAIN s = 1 .. n
  BY <1>6
<1>8. 1 \in 1 .. n /\ f \in [1 .. n -> 1 .. n] /\ \A i \in 1 .. n : \E k \in 1 .. n : f[k] = i
  <2>1. f \in [1 .. Len(s) -> 1 .. Len(s)] /\ \A i \in 1 .. Len(s) : \E k \in 1 .. Len(s) : f[k] = i
    BY <1>5, Zenon DEF Sorts
  <2>2. f \in [1 .. n -> 1 .. n] /\ \A i \in 1 .. n : \E k \in 1 .. n : f[k] = i
    BY <1>6, <2>1, Zenon
  <2>3. 1 \in 1 .. n
    BY <1>7
  <2> QED
    BY <2>2, <2>3
<1>9. ASSUME NEW j \in 1 .. n PROVE s[j] <= s[f[1]]
  <2>1. PICK k \in 1 .. n : f[k] = j
    BY <1>8
  <2>2. CASE k = 1
    BY <1>3, <1>7, <2>1, <2>2
  <2>3. CASE 1 < k
    <3>1. <<f[k], f[1]>> \notin ahead
      BY <1>5, <1>6, <1>8, <2>3 DEF Sorts
    <3>2. f[k] \in DOMAIN s /\ f[1] \in DOMAIN s
      BY <1>7, <1>8
    <3>3. ~(s[f[k]] > s[f[1]]) /\ s[f[k]] \in Int /\ s[f[1]] \in Int
      BY <1>2, <1>3, <3>1, <3>2
    <3> QED
      BY <2>1, <3>3
  <2> QED
    BY <1>7, <2>2, <2>3
<1> QED
  BY <1>6, <1>8, <1>9

\* The order of the similarity reranker.
SimilarityOrder(candidates, best) ==
  {p \in Pairs(candidates) : Combined(candidates[p[1]], best) > Combined(candidates[p[2]], best)}
BestScore(candidates) ==
  CHOOSE s \in {c.score : c \in ToSet(candidates)} : \A c \in ToSet(candidates) : c.score <= s

\* The similarity reranker takes the first of the candidates in another order.
LEMMA SimilarityArranges ==
  ASSUME NEW candidates \in Seq(Rankable), candidates # <<>>, NEW top \in Nat
  PROVE  \E all, f : /\ Similarity(candidates, top) = Take(all, top) /\ Len(all) = Len(candidates)
                     /\ Arranged(all, candidates, f)
<1>1. PICK best, n : best = BestScore(candidates) /\ n = Len(candidates)
  OBVIOUS
<1>2. n \in Nat /\ DOMAIN candidates = 1 .. n /\ \A i \in 1 .. n : candidates[i] \in Rankable
  BY <1>1
<1>3. best \in Int
  <2>1. PICK s : s = [i \in 1 .. n |-> candidates[i].score]
    OBVIOUS
  <2>2. s \in Seq(Int) /\ Len(s) = n /\ s # <<>>
    <3>1. s \in [1 .. n -> Int]
      BY <1>2, <2>1 DEF Rankable
    <3>2. n # 0
      BY <1>1
    <3> QED
      BY <1>2, <2>1, <3>1, <3>2
  <2>3. PICK i \in 1 .. n : \A j \in 1 .. n : s[j] <= s[i]
    BY <2>2, LargestOfList
  <2>4. \A c : c \in ToSet(candidates) <=> \E j \in 1 .. n : candidates[j] = c
    BY <1>2 DEF ToSet
  <2>5. s[i] \in {c.score : c \in ToSet(candidates)} /\ \A c \in ToSet(candidates) : c.score <= s[i]
    BY <2>1, <2>3, <2>4
  <2>6. best \in {c.score : c \in ToSet(candidates)}
    BY <1>1, <2>5, Zenon DEF BestScore
  <2>7. PICK j \in 1 .. n : best = candidates[j].score
    BY <2>4, <2>6
  <2> QED
    BY <1>2, <2>7 DEF Rankable
<1>4. PICK value : value = [i \in 1 .. n |-> Combined(candidates[i], best)]
  OBVIOUS
<1>5. \A i \in 1 .. n : value[i] \in Int
  <2> SUFFICES ASSUME NEW i \in 1 .. n PROVE Combined(candidates[i], best) \in Int
    BY <1>4
  <2>1. PICK score, lexical : score = candidates[i].score /\ lexical = candidates[i].lexical
    OBVIOUS
  <2>2. score \in Int /\ lexical \in Int
    BY <1>2, <2>1 DEF Rankable
  <2>3. 7 * score + 3 * lexical * best \in Int /\ 3 * lexical \in Int
    BY <1>3, <2>2
  <2> QED
    BY <2>1, <2>3 DEF Combined
<1>6. PICK ahead : ahead = SimilarityOrder(candidates, best)
  OBVIOUS
<1>7. \A i, j \in 1 .. n : <<i, j>> \in ahead <=> value[i] > value[j]
  BY <1>2, <1>4, <1>6 DEF SimilarityOrder, Pairs
<1>8. WeakOrder(1 .. n, ahead)
  BY <1>5, <1>7, ByValue
<1>9. PICK all : all = Ordered(candidates, ahead)
  OBVIOUS
<1>10. all \in Seq(Rankable) /\ \E f : Sorts(all, candidates, ahead, f)
  BY <1>2, <1>8, <1>9, OrderedSorts
<1>11. PICK f : Sorts(all, candidates, ahead, f)
  BY <1>10
<1>12. Len(all) = n /\ Arranged(all, candidates, f)
  <2>1. Len(all) = n
    BY <1>1, <1>11 DEF Sorts
  <2> QED
    BY <1>1, <1>2, <1>10, <1>11, <2>1 DEF Sorts, Arranged
<1>13. Similarity(candidates, top) = Take(all, top)
  BY <1>1, <1>6, <1>9, Zenon DEF Similarity, BestScore, SimilarityOrder
<1> QED
  BY <1>1, <1>12, <1>13

\* The order of the vendor's results.
ResultsOrder(results) == {p \in Pairs(results) : results[p[1]].score > results[p[2]].score}

\* The results by score.
LEMMA ResultsRanked ==
  ASSUME NEW results \in Seq(Scoring)
  PROVE  \E ranked, g : /\ ranked = Ordered(results, ResultsOrder(results)) /\ ranked \in Seq(Scoring)
                        /\ Sorts(ranked, results, ResultsOrder(results), g)
<1>1. PICK n, value, ahead : /\ n = Len(results) /\ value = [i \in 1 .. n |-> results[i].score]
                             /\ ahead = ResultsOrder(results)
  OBVIOUS
<1>2. n \in Nat /\ DOMAIN results = 1 .. n /\ \A i \in 1 .. n : results[i] \in Scoring
  BY <1>1
<1>3. \A i \in 1 .. n : value[i] \in Int
  BY <1>1, <1>2 DEF Scoring
<1>4. \A i, j \in 1 .. n : <<i, j>> \in ahead <=> value[i] > value[j]
  BY <1>1, <1>2 DEF ResultsOrder, Pairs
<1>5. WeakOrder(1 .. n, ahead)
  BY <1>3, <1>4, ByValue
<1>6. PICK ranked : ranked = Ordered(results, ahead)
  OBVIOUS
<1>7. ranked \in Seq(Scoring) /\ \E g : Sorts(ranked, results, ahead, g)
  BY <1>2, <1>5, <1>6, OrderedSorts
<1> QED
  BY <1>1, <1>6, <1>7

\* What a vendor has scored, and what it has not.
Indices(results) == {r.index : r \in ToSet(results)}

\* Every result has a candidate of its own, and the others are the rest.
LEMMA IndicesCount ==
  ASSUME NEW results \in Seq(Scoring), NEW n \in Nat, NEW sent \in 0 .. n, Parsed(results, sent)
  PROVE  /\ \A i \in 1 .. Len(results) : results[i].index \in 1 .. n
         /\ \A i, j \in 1 .. Len(results) : results[i].index = results[j].index => i = j
         /\ \A x : x \in Indices(results) <=> \E i \in 1 .. Len(results) : results[i].index = x
         /\ Len(results) \in 0 .. n /\ Cardinality((1 .. n) \ Indices(results)) = n - Len(results)
<1>1. PICK m, s : m = Len(results) /\ s = [i \in 1 .. m |-> results[i].index]
  OBVIOUS
<1>2. m \in Nat /\ DOMAIN results = 1 .. m /\ \A i \in 1 .. m : results[i] \in Scoring
  BY <1>1
<1>3. /\ \A i \in 1 .. m : results[i].index \in 1 .. sent
      /\ \A i, j \in 1 .. m : results[i].index = results[j].index => i = j
  BY <1>2 DEF Parsed
<1>4. \A i \in 1 .. m : results[i].index \in 1 .. n
  <2>1. \A x \in 1 .. sent : x \in 1 .. n
    OBVIOUS
  <2> QED
    BY <1>3, <2>1
<1>5. s \in Seq(Int) /\ Len(s) = m
  <2>1. s \in [1 .. m -> Int]
    BY <1>1, <1>2 DEF Scoring
  <2> QED
    BY <1>2, <2>1
<1>6. \A i, j \in 1 .. Len(s) : s[i] = s[j] => i = j
  BY <1>1, <1>3, <1>5
<1>7. IsFiniteSet(ToSet(s)) /\ Cardinality(ToSet(s)) = m
  BY <1>5, <1>6, DistinctLength
<1>8. \A x : x \in Indices(results) <=> \E i \in 1 .. m : results[i].index = x
  <2>1. \A r : r \in ToSet(results) <=> \E i \in 1 .. m : results[i] = r
    BY <1>2 DEF ToSet
  <2> QED
    BY <2>1 DEF Indices
<1>9. ToSet(s) = Indices(results)
  <2>1. \A x : x \in ToSet(s) <=> \E i \in 1 .. m : s[i] = x
    BY SMTT(30), <1>5 DEF ToSet
  <2> QED
    BY <1>1, <1>8, <2>1
<1>10. PICK S, T : S = 1 .. n /\ T = Indices(results)
  OBVIOUS
<1>11. IsFiniteSet(S) /\ Cardinality(S) = n
  <2>1. 1 \in Int /\ n \in Int
    OBVIOUS
  <2>2. IsFiniteSet(1 .. n) /\ Cardinality(1 .. n) = IF 1 > n THEN 0 ELSE n - 1 + 1
    BY <2>1, FS_Interval
  <2> QED
    BY <1>10, <2>2
<1>12. T \subseteq S /\ IsFiniteSet(T) /\ Cardinality(T) = m
  BY <1>4, <1>7, <1>8, <1>9, <1>10
<1>13. Cardinality(T) <= Cardinality(S)
  BY <1>11, <1>12, FS_Subset
<1>14. Cardinality(S \ T) = Cardinality(S) - Cardinality(S \cap T) /\ S \cap T = T
  BY <1>11, <1>12, FS_Difference
<1>15. m \in 0 .. n /\ Cardinality(S \ T) = n - m
  <2>1. Cardinality(S \cap T) = m
    BY <1>12, <1>14
  <2>2. Cardinality(S \ T) = n - m
    BY <1>11, <1>14, <2>1
  <2>3. m <= n
    BY <1>11, <1>12, <1>13
  <2> QED
    BY <1>2, <2>2, <2>3
<1> QED
  BY <1>1, <1>3, <1>4, <1>8, <1>10, <1>15

\* All the candidates, those that have a result before the others.
ScoredFirst(all, candidates, results, f) ==
  /\ Len(all) = Len(candidates) /\ Arranged(all, candidates, f) /\ Len(results) \in 0 .. Len(candidates)
  /\ \A j \in 1 .. Len(results) : \E i \in 1 .. Len(results) : all[i] = candidates[results[j].index]

\* A vendor's answer arranges the candidates, those it scored first.
LEMMA CohereArranges ==
  ASSUME NEW candidates \in Seq(Rankable), NEW results \in Seq(Scoring), NEW max,
         NEW sent \in 0 .. Len(candidates), Parsed(results, sent)
  PROVE  \E f : ScoredFirst(Cohere(candidates, results, max), candidates, results, f)
<1>1. PICK n, m, ahead, scored : /\ n = Len(candidates) /\ m = Len(results)
                                 /\ ahead = ResultsOrder(results) /\ scored = Indices(results)
  OBVIOUS
<1>2. n \in Nat /\ DOMAIN candidates = 1 .. n /\ \A i \in 1 .. n : candidates[i] \in Rankable
  BY <1>1
<1>3. /\ \A i \in 1 .. m : results[i].index \in 1 .. n
      /\ \A i, j \in 1 .. m : results[i].index = results[j].index => i = j
      /\ \A x : x \in scored <=> \E i \in 1 .. m : results[i].index = x
      /\ m \in 0 .. n /\ Cardinality((1 .. n) \ scored) = n - m
  BY <1>1, <1>2, IndicesCount
<1>4. PICK ranked, g : ranked = Ordered(results, ahead) /\ ranked \in Seq(Scoring) /\ Sorts(ranked, results, ahead, g)
  BY <1>1, ResultsRanked
<1>5. /\ Len(ranked) = m /\ DOMAIN ranked = 1 .. m /\ g \in [1 .. m -> 1 .. m]
      /\ \A i \in 1 .. m : \E k \in 1 .. m : g[k] = i
      /\ \A i, j \in 1 .. m : g[i] = g[j] => i = j
      /\ \A i \in 1 .. m : ranked[i] = results[g[i]]
  BY <1>1, <1>4 DEF Sorts
<1>6. PICK first : first = [i \in DOMAIN ranked |-> candidates[ranked[i].index]]
  OBVIOUS
<1>7. /\ first \in Seq(Rankable) /\ Len(first) = m
      /\ \A i \in 1 .. m : results[g[i]].index \in 1 .. n /\ first[i] = candidates[results[g[i]].index]
  <2>1. \A i \in 1 .. m : results[g[i]].index \in 1 .. n /\ first[i] = candidates[results[g[i]].index]
    BY <1>3, <1>5, <1>6
  <2>2. first \in [1 .. m -> Rankable] /\ m \in Nat
    <3>1. m \in Nat /\ first = [i \in 1 .. m |-> candidates[ranked[i].index]]
      BY <1>3, <1>5, <1>6
    <3>2. \A i \in 1 .. m : first[i] \in Rankable
      BY <1>2, <2>1
    <3> QED
      BY <3>1, <3>2
  <2>3. first \in Seq(Rankable) /\ Len(first) = m
    BY <2>2
  <2> QED
    BY <2>1, <2>3
<1>8. PICK T, rest : T = DOMAIN candidates \ scored /\ rest = At(candidates, T)
  OBVIOUS
<1>9. T = (1 .. n) \ scored /\ T \subseteq DOMAIN candidates
  BY <1>2, <1>8
<1>10. rest \in Seq(Rankable) /\ \E h : Picks(rest, candidates, T, h)
  BY <1>8, <1>9, AtPicks
<1>11. PICK h : Picks(rest, candidates, T, h)
  BY <1>10
<1>12. PICK l : l = n - m
  OBVIOUS
<1>13. /\ Len(rest) = l /\ l \in Nat /\ h \in [1 .. l -> T]
       /\ \A i, j \in 1 .. l : h[i] = h[j] => i = j
       /\ \A i \in 1 .. l : rest[i] = candidates[h[i]]
  <2>1. Len(rest) = l
    BY <1>3, <1>9, <1>11, <1>12 DEF Picks
  <2>2. l \in Nat
    BY <1>2, <1>3, <1>12
  <2> QED
    BY <1>11, <2>1, <2>2 DEF Picks
<1>14. PICK all : all = first \o rest
  OBVIOUS
<1>15. all = Cohere(candidates, results, max)
  BY <1>1, <1>4, <1>6, <1>8, <1>14, Zenon DEF Cohere, ResultsOrder, Indices
<1>16. /\ all \in Seq(Rankable) /\ Len(all) = n
       /\ \A i \in 1 .. m : all[i] = first[i]
       /\ \A i \in 1 .. n : ~(i <= m) => i - m \in 1 .. l /\ all[i] = rest[i - m]
  <2>1. all \in Seq(Rankable) /\ Len(all) = m + l
        /\ \A i \in 1 .. m + l : all[i] = IF i <= m THEN first[i] ELSE rest[i - m]
    <3>1. first \in Seq(Rankable) /\ rest \in Seq(Rankable) /\ Len(first) = m /\ Len(rest) = l
      BY <1>7, <1>10, <1>13
    <3>2. /\ first \o rest \in Seq(Rankable) /\ Len(first \o rest) = Len(first) + Len(rest)
          /\ \A i \in 1 .. Len(first) + Len(rest) :
               (first \o rest)[i] = IF i <= Len(first) THEN first[i] ELSE rest[i - Len(first)]
      BY <3>1, ConcatProperties, Zenon
    <3> QED
      BY <1>14, <3>1, <3>2, Zenon
  <2>2. m + l = n /\ m \in Nat
    BY <1>2, <1>3, <1>12
  <2>3. \A i \in 1 .. n : ~(i <= m) => i - m \in 1 .. l
    BY <1>2, <1>12, <2>2
  <2>4. \A i \in 1 .. m : i \in 1 .. n /\ i <= m
    BY <1>2, <1>3
  <2> QED
    BY <2>1, <2>2, <2>3, <2>4
<1>17. PICK f : f = [i \in 1 .. n |-> IF i <= m THEN results[g[i]].index ELSE h[i - m]]
  OBVIOUS
<1>18. \A i \in 1 .. n : i <= m => i \in 1 .. m /\ f[i] = results[g[i]].index /\ f[i] \in scored /\ f[i] \in 1 .. n
  <2>1. \A i \in 1 .. n : i <= m => i \in 1 .. m
    BY <1>2, <1>3
  <2> QED
    BY <1>3, <1>5, <1>7, <1>17, <2>1
<1>19. \A i \in 1 .. n : ~(i <= m) => i - m \in 1 .. l /\ f[i] = h[i - m] /\ f[i] \notin scored /\ f[i] \in 1 .. n
  BY <1>9, <1>13, <1>16, <1>17
<1>20. f \in [1 .. n -> 1 .. n]
  <2>1. \A i \in 1 .. n : f[i] \in 1 .. n
    BY <1>18, <1>19
  <2> QED
    BY <1>17, <2>1
<1>21. ASSUME NEW i \in 1 .. n, NEW j \in 1 .. n, f[i] = f[j] PROVE i = j
  <2>1. CASE i <= m /\ j <= m
    <3>1. i \in 1 .. m /\ j \in 1 .. m /\ results[g[i]].index = results[g[j]].index
      BY <1>18, <1>21, <2>1
    <3>2. g[i] \in 1 .. m /\ g[j] \in 1 .. m
      BY <1>5, <3>1
    <3>3. g[i] = g[j]
      BY <1>3, <3>1, <3>2
    <3> QED
      BY <1>5, <3>1, <3>3
  <2>2. CASE ~(i <= m) /\ ~(j <= m)
    <3>1. i - m \in 1 .. l /\ j - m \in 1 .. l /\ h[i - m] = h[j - m]
      BY <1>19, <1>21, <2>2
    <3>2. i - m = j - m
      BY <1>13, <3>1
    <3> QED
      BY <1>3, <3>2
  <2>3. CASE (i <= m) # (j <= m)
    BY <1>18, <1>19, <1>21, <2>3
  <2> QED
    BY <2>1, <2>2, <2>3
<1>22. ASSUME NEW i \in 1 .. n PROVE all[i] = candidates[f[i]]
  <2>1. CASE i <= m
    BY SMTT(30), <1>7, <1>16, <1>18, <2>1
  <2>2. CASE ~(i <= m)
    BY <1>13, <1>16, <1>19, <2>2
  <2> QED
    BY <2>1, <2>2
<1>23. Arranged(all, candidates, f)
  BY <1>1, <1>2, <1>16, <1>20, <1>21, <1>22 DEF Arranged
<1>24. ASSUME NEW j \in 1 .. m PROVE \E i \in 1 .. m : all[i] = candidates[results[j].index]
  <2>1. PICK i \in 1 .. m : g[i] = j
    BY <1>5
  <2> QED
    BY <1>7, <1>16, <2>1
<1>25. ScoredFirst(all, candidates, results, f)
  BY <1>1, <1>3, <1>16, <1>23, <1>24 DEF ScoredFirst
<1> QED
  BY <1>15, <1>25

\* What a reranker promises of the list it makes: candidates, each once, and as many
\* as there is room for if it is on.
Reranked(got, provider, candidates, top) ==
  /\ \E f : Arranged(got, candidates, f)
  /\ provider # "off" => Len(got) = Len(Take(candidates, top))

\* The beginning of an arrangement of all candidates keeps the promise.
LEMMA RerankedByTaking ==
  ASSUME NEW candidates \in Seq(Rankable), NEW all, NEW f, Arranged(all, candidates, f),
         Len(all) = Len(candidates), NEW top \in Nat, NEW provider
  PROVE  Reranked(Take(all, top), provider, candidates, top)
<1>1. PICK got : got = Take(all, top)
  OBVIOUS
<1>2. (\E g : Arranged(got, candidates, g)) /\ Len(got) = Least2(top, Len(all))
  BY <1>1, ArrangedTaken
<1>3. Len(Take(candidates, top)) = Least2(top, Len(candidates))
  BY TakeIsPrefix
<1> QED
  BY <1>1, <1>2, <1>3 DEF Reranked

\* The list of any provider keeps the promise; what a vendor cannot rank is the
\* retrieval's; what it has scored is in the list if there is room for it.
LEMMA RerankIs ==
  ASSUME NEW candidates \in Seq(Rankable), NEW results \in Seq(Scoring), NEW provider,
         NEW max \in Nat, NEW top \in Nat, NEW got, got = Rerank(provider, candidates, results, max, top),
         NEW sent, sent = Len(Take(candidates, max))
  PROVE  /\ Reranked(got, provider, candidates, top)
         /\ provider \notin {"off", "similarity"} /\ ~Parsed(results, sent) => got = Take(candidates, top)
         /\ provider \notin {"off", "similarity"} /\ Parsed(results, sent) /\ Len(results) <= top =>
              \A j \in 1 .. Len(results) : \E i \in 1 .. Len(got) : got[i] = candidates[results[j].index]
<1>1. sent \in 0 .. Len(candidates) /\ Len(candidates) \in Nat
  <2>1. Len(Take(candidates, max)) = Least2(max, Len(candidates)) /\ Least2(max, Len(candidates)) \in 0 .. Len(candidates)
    BY TakeIsPrefix
  <2> QED
    BY <2>1
<1>2. PICK e : Arranged(candidates, candidates, e)
  BY ArrangedAlready
<1>3. CASE candidates = <<>>
  <2>1. got = <<>> /\ Take(candidates, top) = <<>>
    <3>1. got = <<>>
      BY <1>3 DEF Rerank
    <3>2. Len(Take(candidates, top)) \in 0 .. 0 /\ Take(candidates, top) \in Seq(Rankable)
      <4>1. /\ Take(candidates, top) \in Seq(Rankable) /\ Len(Take(candidates, top)) = Least2(top, Len(candidates))
            /\ Least2(top, Len(candidates)) \in 0 .. Len(candidates)
        BY TakeIsPrefix
      <4> QED
        BY <1>3, <4>1
    <3> QED
      BY <3>1, <3>2
  <2>2. ~Parsed(results, sent)
    <3>1. 1 .. sent = {}
      BY <1>1, <1>3
    <3>2. results # <<>> => 1 \in DOMAIN results
      OBVIOUS
    <3> QED
      BY <3>1, <3>2 DEF Parsed
  <2>3. Reranked(got, provider, candidates, top)
    BY <1>2, <1>3, <2>1 DEF Reranked
  <2> QED
    BY <2>1, <2>2, <2>3
<1>4. CASE candidates # <<>> /\ provider = "off"
  <2>1. got = candidates
    BY <1>4 DEF Rerank
  <2> QED
    BY <1>2, <1>4, <2>1 DEF Reranked
<1>5. CASE candidates # <<>> /\ provider = "similarity"
  <2>1. got = Similarity(candidates, top)
    BY <1>5 DEF Rerank
  <2>2. PICK all, f : /\ Similarity(candidates, top) = Take(all, top) /\ Len(all) = Len(candidates)
                      /\ Arranged(all, candidates, f)
    BY <1>5, SimilarityArranges
  <2> QED
    BY <1>5, <2>1, <2>2, RerankedByTaking
<1>6. CASE candidates # <<>> /\ provider \notin {"off", "similarity"}
  <2>1. got = IF Parsed(results, sent) THEN Take(Cohere(candidates, results, max), top) ELSE Take(candidates, top)
    <3>1. Rerank(provider, candidates, results, max, top)
            = IF Parsed(results, Len(Take(candidates, max))) THEN Take(Cohere(candidates, results, max), top)
              ELSE Take(candidates, top)
      BY <1>6 DEF Rerank
    <3> QED
      BY <3>1
  <2>2. CASE ~Parsed(results, sent)
    <3>1. got = Take(candidates, top)
      BY <2>1, <2>2
    <3> QED
      BY <1>2, <2>2, <3>1, RerankedByTaking
  <2>3. CASE Parsed(results, sent)
    <3>0. \E f : ScoredFirst(Cohere(candidates, results, max), candidates, results, f)
      BY <1>1, <2>3, CohereArranges
    <3>1. PICK all, f : /\ all = Cohere(candidates, results, max) /\ Len(all) = Len(candidates)
                        /\ Arranged(all, candidates, f) /\ Len(results) \in 0 .. Len(candidates)
                        /\ \A j \in 1 .. Len(results) : \E i \in 1 .. Len(results) :
                             all[i] = candidates[results[j].index]
      BY <3>0 DEF ScoredFirst
    <3>2. got = Take(all, top)
      BY <2>1, <2>3, <3>1
    <3>3. Reranked(got, provider, candidates, top)
      BY <3>1, <3>2, RerankedByTaking
    <3>4. /\ Len(got) = Least2(top, Len(all))
          /\ \A i \in 1 .. Least2(top, Len(all)) : i \in 1 .. Len(all) /\ got[i] = all[i]
      BY ZenonT(40), <3>1, <3>2, ArrangedTaken
    <3>5. ASSUME Len(results) <= top, NEW j \in 1 .. Len(results)
          PROVE  \E i \in 1 .. Len(got) : got[i] = candidates[results[j].index]
      <4>1. PICK i \in 1 .. Len(results) : all[i] = candidates[results[j].index]
        BY <3>1
      <4>2. i \in 1 .. Least2(top, Len(all))
        BY <1>1, <3>1, <3>5 DEF Least2
      <4> QED
        BY <3>4, <4>1, <4>2
    <3> QED
      BY <2>3, <3>3, <3>5
  <2> QED
    BY <2>2, <2>3
<1> QED
  BY <1>3, <1>4, <1>5, <1>6

\* No reranker invents, repeats or loses a chunk, for any candidates, any answer of
\* a vendor and any limits.
LEMMA RerankAlwaysKeeps ==
  ASSUME NEW candidates \in Seq(Rankable), DistinctIds(candidates), NEW results \in Seq(Scoring),
         NEW provider, NEW max \in Nat, NEW top \in Nat
  PROVE  RerankKeeps(provider, candidates, results, max, top)
<1>1. PICK got, sent : /\ got = Rerank(provider, candidates, results, max, top)
                       /\ sent = Len(Take(candidates, max))
  OBVIOUS
<1>2. /\ Reranked(got, provider, candidates, top)
      /\ provider \notin {"off", "similarity"} /\ ~Parsed(results, sent) => got = Take(candidates, top)
      /\ provider \notin {"off", "similarity"} /\ Parsed(results, sent) /\ Len(results) <= top =>
           \A j \in 1 .. Len(results) : \E i \in 1 .. Len(got) : got[i] = candidates[results[j].index]
  BY <1>1, RerankIs
<1>3. ToSet(got) \subseteq ToSet(candidates) /\ Cardinality({c.id : c \in ToSet(got)}) = Len(got)
  BY <1>2, ArrangedKeeps DEF Reranked
<1>4. provider # "off" => Len(got) = Len(Take(candidates, top))
  BY <1>2 DEF Reranked
<1>5. got \in Seq(Rankable)
  BY <1>2 DEF Reranked, Arranged
<1>6. PICK ids : ids = {c.id : c \in ToSet(got)}
  OBVIOUS
<1>7. ASSUME provider = "cohere", Parsed(results, sent), Len(results) <= top, NEW r \in ToSet(results)
      PROVE  candidates[r.index].id \in ids
  <2>1. PICK j \in 1 .. Len(results) : results[j] = r
    BY DEF ToSet
  <2>2. PICK i \in 1 .. Len(got) : got[i] = candidates[results[j].index]
    BY <1>2, <1>7
  <2>3. got[i] \in ToSet(got)
    BY <1>5, <2>2 DEF ToSet
  <2> QED
    BY <1>6, <2>1, <2>2, <2>3
<1>8. provider = "cohere" =>
        IF ~Parsed(results, sent) THEN got = Take(candidates, top)
        ELSE \A c \in ToSet(candidates) :
               c.id \in {candidates[r.index].id : r \in ToSet(results)} /\ Len(results) <= top => c.id \in ids
  <2>1. provider = "cohere" => provider \notin {"off", "similarity"}
    OBVIOUS
  <2> QED
    BY <1>2, <1>7, <2>1
<1> QED
  BY <1>1, <1>3, <1>4, <1>6, <1>8, Zenon DEF RerankKeeps

-----------------------------------------------------------------------------
(* The context of an answer.                                               *)

\* A sum with one more number.
LEMMA SumOfAppended ==
  ASSUME NEW s \in Seq(Nat), NEW x \in Nat
  PROVE  Sum(Append(s, x)) = Sum(s) + x /\ Sum(s) \in Nat
<1>1. PICK n, t : n = Len(s) /\ t = Append(s, x)
  OBVIOUS
<1>2. n \in Nat /\ t \in Seq(Nat) /\ Len(t) = n + 1 /\ t[n + 1] = x /\ \A i \in 1 .. n : t[i] = s[i]
  BY <1>1, AppendProperties
<1>3. s \in Seq(Int) /\ t \in Seq(Int)
  BY <1>1, <1>2
<1>4. PICK a, b : a = Sums(s) /\ b = Sums(t)
  OBVIOUS
<1>5. /\ a[0] = 0 /\ (\A i \in 1 .. n : a[i] = a[i - 1] + s[i]) /\ \A i \in 0 .. n : a[i] \in Nat
  <2>1. Sums(s)[0] = 0 /\ \A i \in 1 .. Len(s) : Sums(s)[i] = Sums(s)[i - 1] + s[i]
    BY <1>3, SumsStep
  <2>2. \A i \in 0 .. Len(s) : Sums(s)[i] \in Nat
    BY SumsGrow
  <2> QED
    BY <1>1, <1>4, <2>1, <2>2
<1>6. b[0] = 0 /\ \A i \in 1 .. n + 1 : b[i] = b[i - 1] + t[i]
  <2>1. Sums(t)[0] = 0 /\ \A i \in 1 .. Len(t) : Sums(t)[i] = Sums(t)[i - 1] + t[i]
    BY <1>3, SumsStep
  <2> QED
    BY <1>2, <1>4, <2>1
<1>7. \A i \in 0 .. n : b[i] = a[i]
  <2> DEFINE T == {i \in 0 .. n : b[i] = a[i]}
  <2>1. 0 \in T
    BY <1>2, <1>5, <1>6
  <2>2. ASSUME NEW i \in 0 .. n - 1, i \in T PROVE i + 1 \in T
    <3>1. PICK j : j = i + 1
      OBVIOUS
    <3>2. j \in 1 .. n /\ j \in 1 .. n + 1 /\ j \in 0 .. n /\ j - 1 = i
      BY <1>2, <3>1
    <3>3. a[j] = a[j - 1] + s[j] /\ b[j] = b[j - 1] + t[j] /\ t[j] = s[j]
      BY <1>2, <1>5, <1>6, <3>2
    <3>4. b[j] = a[j]
      BY <2>2, <3>2, <3>3
    <3> QED
      BY <3>1, <3>2, <3>4
  <2> HIDE DEF T
  <2>3. \A i \in 0 .. n : i \in T
    BY <1>2, <2>1, <2>2, UpTo
  <2> QED
    BY <2>3 DEF T
<1>8. b[n + 1] = a[n] + x
  <2>1. n + 1 \in 1 .. n + 1 /\ n + 1 - 1 = n /\ n \in 0 .. n
    BY <1>2
  <2>2. PICK m : m = n + 1
    OBVIOUS
  <2>3. b[m] = b[m - 1] + t[m] /\ m - 1 = n /\ t[m] = x
    BY <1>2, <1>6, <2>1, <2>2
  <2> QED
    BY <1>7, <2>1, <2>2, <2>3
<1>9. Sum(s) = a[n] /\ Sum(t) = b[n + 1] /\ a[n] \in Nat
  <2>1. n \in 0 .. n
    BY <1>2
  <2> QED
    BY <1>1, <1>2, <1>4, <1>5, <2>1 DEF Sum
<1> QED
  BY <1>1, <1>8, <1>9

\* A context that is being filled.
Filling == [full : BOOLEAN, parts : Seq(Nat)]

\* The three things that can happen to a part.
LEMMA PartAdded ==
  ASSUME NEW s \in Filling, NEW part \in Nat, NEW limit
  PROVE  /\ AddPart(s, part, limit) \in Filling
         /\ s.full => AddPart(s, part, limit) = s
         /\ ~s.full /\ Fits(s.parts, part, limit) =>
              /\ AddPart(s, part, limit).parts = Append(s.parts, part)
              /\ AddPart(s, part, limit).full = s.full
         /\ ~s.full /\ ~Fits(s.parts, part, limit) =>
              /\ AddPart(s, part, limit).parts = IF s.parts = <<>> THEN <<part>> ELSE s.parts
              /\ AddPart(s, part, limit).full = TRUE
<1>1. PICK parts, full : parts = s.parts /\ full = s.full
  OBVIOUS
<1>2. parts \in Seq(Nat) /\ full \in BOOLEAN /\ s = [full |-> full, parts |-> parts]
  BY <1>1 DEF Filling
<1>3. CASE s.full
  <2>1. AddPart(s, part, limit) = s
    BY <1>3 DEF AddPart
  <2> QED
    BY <1>3, <2>1
<1>4. CASE ~s.full /\ Fits(s.parts, part, limit)
  <2>1. AddPart(s, part, limit) = [s EXCEPT !.parts = Append(@, part)]
    BY <1>4 DEF AddPart
  <2>2. [s EXCEPT !.parts = Append(@, part)] = [full |-> full, parts |-> Append(parts, part)]
    <3>1. PICK more : more = Append(s.parts, part)
      OBVIOUS
    <3>2. [s EXCEPT !.parts = more] = [full |-> full, parts |-> more]
      BY <1>2
    <3> QED
      BY <1>1, <3>1, <3>2
  <2>3. Append(parts, part) \in Seq(Nat)
    BY <1>2
  <2>4. PICK r : r = [full |-> full, parts |-> Append(parts, part)]
    OBVIOUS
  <2>5. r \in Filling /\ r.parts = Append(parts, part) /\ r.full = full
    BY <1>2, <2>3, <2>4 DEF Filling
  <2> QED
    BY <1>1, <1>4, <2>1, <2>2, <2>4, <2>5
<1>5. CASE ~s.full /\ ~Fits(s.parts, part, limit)
  <2>1. PICK more : more = IF parts = <<>> THEN <<part>> ELSE parts
    OBVIOUS
  <2>2. more \in Seq(Nat)
    BY <1>2, <2>1
  <2>3. AddPart(s, part, limit) = [full |-> TRUE, parts |-> more]
    BY <1>1, <1>5, <2>1 DEF AddPart
  <2>4. PICK r : r = [full |-> TRUE, parts |-> more]
    OBVIOUS
  <2>5. r \in Filling /\ r.parts = more /\ r.full = TRUE
    BY <2>2, <2>4 DEF Filling
  <2> QED
    BY <1>1, <1>5, <2>1, <2>3, <2>4, <2>5
<1> QED
  BY <1>3, <1>4, <1>5

\* What the context starts with.
Opening(session) == [full |-> FALSE, parts |-> IF session = 0 THEN <<>> ELSE <<session>>]

\* c has the context after each chunk.
Fills(c, session, chunks, limit) ==
  /\ Context(session, chunks, limit) = c[Len(chunks)].parts /\ Len(chunks) \in Nat
  /\ c[0] = Opening(session)
  /\ \A i \in 0 .. Len(chunks) : c[i] \in Filling
  /\ \A i \in 1 .. Len(chunks) : c[i] = AddPart(c[i - 1], chunks[i], limit)

\* A context is filled chunk by chunk.
LEMMA ContextSteps ==
  ASSUME NEW session \in Nat, NEW chunks \in Seq(Nat), NEW limit
  PROVE  \E c : Fills(c, session, chunks, limit)
<1> DEFINE n == Len(chunks)
           start == Opening(session)
<1>1. n \in Nat /\ start \in Filling /\ \A i \in 1 .. n : i \in Nat /\ chunks[i] \in Nat
  <2>1. PICK parts : parts = IF session = 0 THEN <<>> ELSE <<session>>
    OBVIOUS
  <2>2. parts \in Seq(Nat)
    BY <2>1
  <2>3. start = [full |-> FALSE, parts |-> parts]
    BY <2>1 DEF Opening
  <2>4. start \in Filling
    BY <2>2, <2>3 DEF Filling
  <2> QED
    BY <2>4
<1> HIDE DEF n, start
<1> DEFINE G == [p \in (1 .. n) \X (Filling) |-> AddPart(p[2], chunks[p[1]], limit)]
<1>2. \A i \in 1 .. n, x \in Filling : AddPart(x, chunks[i], limit) \in Filling
  BY <1>1, PartAdded
<1>3. G \in [(1 .. n) \X (Filling) -> Filling]
  <2>1. \A p \in (1 .. n) \X (Filling) : p[1] \in 1 .. n /\ p[2] \in Filling
    OBVIOUS
  <2> QED
    BY <1>2, <2>1
<1>4. \A i \in 1 .. n, x \in Filling : G[<<i, x>>] = AddPart(x, chunks[i], limit)
  OBVIOUS
<1> HIDE DEF G
<1>5. PICK f : Solution(f, n, Filling, start, G)
  BY <1>1, <1>3, Solved, Zenon
<1> DEFINE Solves(g) == g = [i \in 0 .. n |-> IF i = 0 THEN start ELSE AddPart(g[i - 1], chunks[i], limit)]
           c == CHOOSE g : Solves(g)
<1>6. Solves(f)
  <2>1. \A i \in 1 .. n : G[<<i, f[i - 1]>>] = AddPart(f[i - 1], chunks[i], limit)
    BY <1>4, <1>5 DEF Solution
  <2> QED
    BY <1>1, <1>5, <2>1, FromZero DEF Solution
<1>7. Solves(c)
  BY <1>6, Zenon
<1>8. Context(session, chunks, limit) = c[n].parts
  BY Zenon DEF Context, Opening, start, n
<1> HIDE DEF c
<1>9. \A i \in 0 .. n : c[i] = IF i = 0 THEN start ELSE AddPart(c[i - 1], chunks[i], limit)
  BY <1>7
<1> HIDE DEF Solves
<1>10. c[0] = start /\ \A i \in 1 .. n : c[i] = AddPart(c[i - 1], chunks[i], limit)
  BY <1>1, <1>9, FromZero, Zenon
<1>11. \A i \in 0 .. n : c[i] \in Filling
  <2>1. \A i \in 1 .. n : c[i - 1] \in Filling => c[i] \in Filling
    BY <1>1, <1>2, <1>10
  <2> QED
    BY <1>1, <1>10, <2>1, Stays
<1> QED
  <2>1. Fills(c, session, chunks, limit)
    BY <1>1, <1>8, <1>10, <1>11 DEF n, start, Fills
  <2> QED
    BY <2>1

\* A context with the first k chunks behind o parts, within its limit.
Holds(parts, chunks, limit, o, k) ==
  /\ parts \in Seq(Nat) /\ Len(parts) = o + k
  /\ \A j \in 1 .. k : parts[o + j] = chunks[j]
  /\ Len(parts) > 1 => Sum(parts) + Len(parts) - 1 <= limit

\* The next chunk is too long for it.
Stuck(parts, chunks, limit, k) ==
  k < Len(chunks) => Sum(parts) + Len(parts) + chunks[k + 1] > limit

\* The context after i chunks: with all of them, or stuck behind some.
Filled(s, chunks, limit, o, i) ==
  \E k \in 0 .. i : /\ Holds(s.parts, chunks, limit, o, k)
                    /\ i > 0 => Len(s.parts) > 0
                    /\ \/ s.full = FALSE /\ k = i
                       \/ s.full = TRUE /\ Len(s.parts) > 0 /\ Stuck(s.parts, chunks, limit, k)

\* A chunk that fits.
LEMMA HoldsMore ==
  ASSUME NEW chunks \in Seq(Nat), NEW limit \in Nat, NEW o \in 0 .. 1, NEW k \in Nat, k + 1 \in 1 .. Len(chunks),
         NEW parts, Holds(parts, chunks, limit, o, k),
         Fits(parts, chunks[k + 1], limit)
  PROVE  Holds(Append(parts, chunks[k + 1]), chunks, limit, o, k + 1)
<1>1. PICK x, l, more : x = chunks[k + 1] /\ l = Len(parts) /\ more = Append(parts, x)
  OBVIOUS
<1>2. /\ parts \in Seq(Nat) /\ l = o + k /\ l \in Nat /\ x \in Nat
      /\ \A j \in 1 .. k : parts[o + j] = chunks[j]
  BY <1>1 DEF Holds
<1>3. more \in Seq(Nat) /\ Len(more) = l + 1 /\ more[l + 1] = x /\ \A j \in 1 .. l : more[j] = parts[j]
  <2>1. parts \in Seq(Nat) /\ x \in Nat
    BY <1>2
  <2>2. /\ Append(parts, x) \in Seq(Nat) /\ Len(Append(parts, x)) = Len(parts) + 1
        /\ \A j \in 1 .. Len(parts) : Append(parts, x)[j] = parts[j]
        /\ Append(parts, x)[Len(parts) + 1] = x
    BY <2>1, AppendProperties
  <2> QED
    BY <1>1, <2>2, Zenon
<1>4. Sum(more) = Sum(parts) + x /\ Sum(parts) \in Nat
  BY <1>1, <1>2, SumOfAppended
<1>5. Sum(parts) + l + x <= limit
  BY <1>1 DEF Fits
<1>6. Sum(more) + Len(more) - 1 <= limit
  BY <1>2, <1>3, <1>4, <1>5
<1>7. ASSUME NEW j \in 1 .. k + 1 PROVE more[o + j] = chunks[j]
  <2>1. CASE j = k + 1
    <3>1. o + j = l + 1
      BY <1>2, <2>1
    <3>2. chunks[j] = x
      BY <1>1, <2>1
    <3> QED
      BY <1>3, <3>1, <3>2
  <2>2. CASE j # k + 1
    <3>1. j \in 1 .. k /\ o + j \in 1 .. l
      BY <1>2, <2>2
    <3> QED
      BY <1>2, <1>3, <3>1
  <2> QED
    BY <2>1, <2>2
<1>8. Len(more) = o + (k + 1)
  BY <1>2, <1>3
<1> QED
  BY <1>1, <1>3, <1>6, <1>7, <1>8 DEF Holds

\* A first chunk, whatever its size.
LEMMA HoldsFirst ==
  ASSUME NEW chunks \in Seq(Nat), chunks # <<>>, NEW limit \in Nat, NEW x, x = chunks[1], ~Fits(<<>>, x, limit)
  PROVE  Holds(<<x>>, chunks, limit, 0, 1) /\ Stuck(<<x>>, chunks, limit, 1)
<1>1. x \in Nat /\ <<x>> \in Seq(Nat) /\ Len(<<x>>) = 1 /\ <<x>>[1] = x
  OBVIOUS
<1>2. Sum(<<x>>) = Sum(<<>>) + x /\ Sum(<<>>) \in Nat
  <2>1. <<>> \in Seq(Nat) /\ Append(<<>>, x) = <<x>>
    OBVIOUS
  <2> QED
    BY <1>1, <2>1, SumOfAppended
<1>3. ~(Sum(<<>>) + 0 + x <= limit)
  BY DEF Fits
<1>4. 1 < Len(chunks) => Sum(<<x>>) + Len(<<x>>) + chunks[1 + 1] > limit
  <2>1. 1 < Len(chunks) => chunks[1 + 1] \in Nat
    OBVIOUS
  <2> QED
    <3>1. PICK total, none : total = Sum(<<x>>) /\ none = Sum(<<>>)
      OBVIOUS
    <3>2. total = none + x /\ none \in Nat /\ ~(none + 0 + x <= limit) /\ x \in Nat
      BY <1>1, <1>2, <1>3, <3>1
    <3>3. 1 < Len(chunks) => total + 1 + chunks[1 + 1] > limit
      <4>1. PICK second : second = chunks[1 + 1]
        OBVIOUS
      <4>2. second \in Nat => total + 1 + second > limit
        <5>1. none + 0 + x = none + x /\ total \in Nat
          BY <3>2
        <5>2. total > limit
          BY <3>2, <5>1
        <5> QED
          BY <5>1, <5>2
      <4> QED
        BY <2>1, <4>1, <4>2
    <3> QED
      BY <1>1, <3>1, <3>3, Zenon
<1>5. \A j \in 1 .. 1 : <<x>>[0 + j] = chunks[j]
  BY <1>1
<1> QED
  BY <1>1, <1>4, <1>5 DEF Holds, Stuck

\* Any chunk.
LEMMA FilledFurther ==
  ASSUME NEW chunks \in Seq(Nat), NEW limit \in Nat, NEW o \in 0 .. 1, NEW i \in 1 .. Len(chunks),
         NEW s \in Filling, Filled(s, chunks, limit, o, i - 1)
  PROVE  Filled(AddPart(s, chunks[i], limit), chunks, limit, o, i)
<1>1. PICK x, r, parts : x = chunks[i] /\ r = AddPart(s, x, limit) /\ parts = s.parts
  OBVIOUS
<1>2. PICK k \in 0 .. i - 1 : /\ Holds(parts, chunks, limit, o, k)
                              /\ \/ s.full = FALSE /\ k = i - 1
                                 \/ s.full = TRUE /\ Len(parts) > 0 /\ Stuck(parts, chunks, limit, k)
  BY <1>1 DEF Filled
<1>3. x \in Nat /\ k \in Nat /\ k \in 0 .. i /\ i \in 0 .. i /\ i \in Nat
  BY <1>1
<1>4. parts \in Seq(Nat) /\ Len(parts) = o + k
  BY <1>2 DEF Holds
<1>5. /\ r \in Filling
      /\ s.full => r = s
      /\ ~s.full /\ Fits(parts, x, limit) => r.parts = Append(parts, x) /\ r.full = s.full
      /\ ~s.full /\ ~Fits(parts, x, limit) => r.parts = (IF parts = <<>> THEN <<x>> ELSE parts) /\ r.full = TRUE
  <2>1. /\ AddPart(s, x, limit) \in Filling
        /\ s.full => AddPart(s, x, limit) = s
        /\ ~s.full /\ Fits(s.parts, x, limit) =>
             AddPart(s, x, limit).parts = Append(s.parts, x) /\ AddPart(s, x, limit).full = s.full
        /\ ~s.full /\ ~Fits(s.parts, x, limit) =>
             /\ AddPart(s, x, limit).parts = IF s.parts = <<>> THEN <<x>> ELSE s.parts
             /\ AddPart(s, x, limit).full = TRUE
    BY <1>3, PartAdded, Zenon
  <2> QED
    BY <1>1, <2>1, Zenon
<1>6. CASE s.full = TRUE /\ Len(parts) > 0 /\ Stuck(parts, chunks, limit, k)
  <2>1. r = s
    BY <1>5, <1>6, Zenon
  <2>2. r.parts = parts /\ r.full = TRUE
    BY <1>1, <1>6, <2>1, Zenon
  <2>3. Filled(r, chunks, limit, o, i)
    <3>1. Holds(r.parts, chunks, limit, o, k) /\ Stuck(r.parts, chunks, limit, k) /\ Len(r.parts) > 0
      BY <1>2, <1>6, <2>2
    <3> QED
      BY <1>3, <2>2, <3>1, Zenon DEF Filled
  <2> QED
    BY <1>1, <2>3
<1>7. CASE s.full = FALSE /\ k = i - 1 /\ Fits(parts, x, limit)
  <2>1. k + 1 = i /\ k + 1 \in 1 .. Len(chunks)
    BY <1>3, <1>7
  <2>2. x = chunks[k + 1]
    BY <1>1, <2>1
  <2>3. r.parts = Append(parts, x) /\ r.full = s.full
    BY <1>5, <1>7, Zenon
  <2>4. Fits(parts, chunks[k + 1], limit)
    BY <1>7, <2>2
  <2>5. Holds(Append(parts, chunks[k + 1]), chunks, limit, o, k + 1)
    BY <1>2, <1>3, <2>1, <2>4, HoldsMore
  <2>6. Holds(r.parts, chunks, limit, o, i)
    BY <2>1, <2>2, <2>3, <2>5
  <2>7. Len(r.parts) > 0
    <3>1. Len(r.parts) = o + i
      BY <2>6 DEF Holds
    <3> QED
      BY <3>1
  <2>8. r.full = FALSE
    BY <1>7, <2>3, Zenon
  <2>9. Filled(r, chunks, limit, o, i)
    BY <1>3, <2>6, <2>7, <2>8, Zenon DEF Filled
  <2> QED
    BY <1>1, <2>9
<1>8. CASE s.full = FALSE /\ k = i - 1 /\ ~Fits(parts, x, limit)
  <2>1. r.parts = (IF parts = <<>> THEN <<x>> ELSE parts) /\ r.full = TRUE
    BY <1>5, <1>8, Zenon
  <2>2. CASE parts = <<>>
    <3>1. o = 0 /\ i = 1
      BY <1>3, <1>4, <1>8, <2>2
    <3>2. x = chunks[1] /\ chunks # <<>>
      BY <1>1, <3>1
    <3>3. Holds(<<x>>, chunks, limit, 0, 1) /\ Stuck(<<x>>, chunks, limit, 1)
      <4>1. ~Fits(<<>>, x, limit)
        BY <1>8, <2>2
      <4> QED
        BY <3>2, <4>1, HoldsFirst
    <3>4. r.parts = <<x>>
      BY <2>1, <2>2
    <3>5. Holds(r.parts, chunks, limit, o, i) /\ Stuck(r.parts, chunks, limit, i) /\ Len(r.parts) > 0
      BY <3>1, <3>3, <3>4
    <3>6. Filled(r, chunks, limit, o, i)
      BY <1>3, <2>1, <3>5, Zenon DEF Filled
    <3> QED
      BY <1>1, <3>6
  <2>3. CASE parts # <<>>
    <3>1. r.parts = parts
      BY <2>1, <2>3
    <3>2. Len(parts) > 0
      BY <1>4, <2>3
    <3>3. Sum(parts) \in Nat /\ ~(Sum(parts) + Len(parts) + x <= limit)
      <4>1. Sum(parts) \in Nat
        BY <1>3, <1>4, SumOfAppended
      <4> QED
        BY <1>8, <4>1 DEF Fits
    <3>4. Stuck(parts, chunks, limit, k)
      <4>1. k + 1 = i
        BY <1>3, <1>8
      <4>2. chunks[k + 1] = x
        BY <1>1, <4>1
      <4> QED
        BY <1>3, <1>4, <3>3, <4>2 DEF Stuck
    <3>5. Holds(r.parts, chunks, limit, o, k) /\ Stuck(r.parts, chunks, limit, k) /\ Len(r.parts) > 0
      BY <1>2, <3>1, <3>2, <3>4
    <3>6. Filled(r, chunks, limit, o, i)
      BY <1>3, <2>1, <3>5, Zenon DEF Filled
    <3> QED
      BY <1>1, <3>6
  <2> QED
    BY <2>2, <2>3
<1> QED
  BY <1>2, <1>6, <1>7, <1>8

\* The context has the longest run of the best chunks, for any session part, chunks
\* and limit.
LEMMA ContextAlwaysLongest ==
  ASSUME NEW session \in Nat, NEW chunks \in Seq(Nat), NEW limit \in Nat
  PROVE  ContextLongest(session, chunks, limit)
<1>1. PICK n, o, first : /\ n = Len(chunks) /\ o = IF session = 0 THEN 0 ELSE 1
                         /\ first = IF session = 0 THEN <<>> ELSE <<session>>
  OBVIOUS
<1>2. n \in Nat /\ o \in 0 .. 1 /\ first \in Seq(Nat) /\ Len(first) = o
  BY <1>1
<1>3. PICK c : /\ Context(session, chunks, limit) = c[n].parts /\ c[0] = Opening(session)
               /\ \A i \in 0 .. n : c[i] \in Filling
               /\ \A i \in 1 .. n : c[i] = AddPart(c[i - 1], chunks[i], limit)
  <2>1. \E c : Fills(c, session, chunks, limit)
    BY ContextSteps
  <2>2. PICK c : Fills(c, session, chunks, limit)
    BY <2>1
  <2> QED
    BY <1>1, <2>2 DEF Fills
<1>4. Filled(c[0], chunks, limit, o, 0)
  <2>1. c[0].parts = first /\ c[0].full = FALSE
    BY <1>1, <1>3 DEF Opening
  <2>2. Holds(first, chunks, limit, o, 0)
    <3>1. ~(Len(first) > 1) /\ Len(first) = o + 0
      BY <1>2
    <3> QED
      BY <1>2, <3>1 DEF Holds
  <2>3. Holds(c[0].parts, chunks, limit, o, 0) /\ 0 \in 0 .. 0 /\ ~(0 > 0)
    BY <2>1, <2>2
  <2> QED
    BY <2>1, <2>3 DEF Filled
<1>5. \A i \in 0 .. n : Filled(c[i], chunks, limit, o, i)
  <2> DEFINE T == {i \in 0 .. n : Filled(c[i], chunks, limit, o, i)}
  <2>1. 0 \in T
    BY <1>2, <1>4
  <2>2. ASSUME NEW i \in 0 .. n - 1, i \in T PROVE i + 1 \in T
    <3>1. PICK j : j = i + 1
      OBVIOUS
    <3>2. j \in 1 .. n /\ j \in 0 .. n /\ j - 1 = i /\ i \in 0 .. n
      BY <1>2, <3>1
    <3>3. Filled(c[i], chunks, limit, o, j - 1) /\ c[i] \in Filling
      BY <1>3, <2>2, <3>2
    <3>4. c[j] = AddPart(c[i], chunks[j], limit)
      BY <1>3, <3>2
    <3>5. Filled(AddPart(c[i], chunks[j], limit), chunks, limit, o, j)
      BY <1>1, <1>2, <3>2, <3>3, FilledFurther
    <3> QED
      BY <3>1, <3>2, <3>4, <3>5
  <2> HIDE DEF T
  <2>3. \A i \in 0 .. n : i \in T
    BY <1>2, <2>1, <2>2, UpTo
  <2> QED
    BY <2>3 DEF T
<1>6. PICK parts, kept : parts = c[n].parts /\ kept = IF session = 0 THEN parts ELSE Tail(parts)
  OBVIOUS
<1>7. PICK k \in 0 .. n : /\ Holds(parts, chunks, limit, o, k)
                          /\ n > 0 => Len(parts) > 0
                          /\ k = n \/ Stuck(parts, chunks, limit, k)
  <2>1. Filled(c[n], chunks, limit, o, n)
    BY <1>2, <1>5
  <2> QED
    BY <1>6, <2>1 DEF Filled
<1>8. /\ parts \in Seq(Nat) /\ Len(parts) = o + k
      /\ \A j \in 1 .. k : parts[o + j] = chunks[j]
      /\ Len(parts) > 1 => Sum(parts) + Len(parts) - 1 <= limit
  <2>1. Holds(parts, chunks, limit, o, k)
    BY <1>7, Zenon
  <2> QED
    BY <2>1, Zenon DEF Holds
<1>9. kept \in Seq(Nat) /\ Len(kept) = k /\ \A j \in 1 .. k : kept[j] = chunks[j]
  <2>1. CASE session = 0
    <3>1. kept = parts /\ o = 0
      BY <1>1, <1>6, <2>1
    <3> QED
      <4>1. Len(parts) = k /\ \A j \in 1 .. k : 0 + j = j
        BY <1>2, <1>8, <3>1
      <4> QED
        BY <1>8, <3>1, <4>1
  <2>2. CASE session # 0
    <3>1. kept = Tail(parts) /\ o = 1 /\ parts # <<>>
      BY <1>1, <1>2, <1>6, <1>8, <2>2
    <3>2. kept \in Seq(Nat) /\ Len(kept) = Len(parts) - 1 /\ \A j \in 1 .. Len(kept) : kept[j] = parts[j + 1]
      BY <1>8, <3>1, HeadTailProperties
    <3>3. Len(kept) = k
      BY <1>2, <1>8, <3>1, <3>2
    <3>4. \A j \in 1 .. k : o + j = j + 1
      BY <3>1
    <3> QED
      BY <1>8, <3>2, <3>3, <3>4
  <2> QED
    BY <2>1, <2>2
<1>10. IsPrefix(kept, chunks)
  <2>1. Len(kept) <= Len(chunks) /\ \A j \in 1 .. Len(kept) : kept[j] = chunks[j]
    BY <1>1, <1>9
  <2> QED
    BY <1>9, <2>1, PrefixByPlaces
<1>11. Len(parts) > 1 => Sum(parts) + Len(parts) - 1 <= limit
  BY <1>8
<1>12. Len(kept) < Len(chunks) => Sum(parts) + Len(parts) + chunks[Len(kept) + 1] > limit
  <2>1. k < Len(chunks) => Sum(parts) + Len(parts) + chunks[k + 1] > limit
    <3>1. CASE k = n
      BY <1>1, <1>2, <3>1
    <3>2. CASE Stuck(parts, chunks, limit, k)
      BY <3>2 DEF Stuck
    <3> QED
      BY <1>7, <3>1, <3>2
  <2> QED
    BY <1>9, <2>1
<1>13. chunks # <<>> => parts # <<>>
  <2>1. chunks # <<>> => n > 0
    BY <1>1, <1>2
  <2>2. n > 0 => Len(parts) > 0
    BY <1>7, Zenon
  <2>3. Len(parts) > 0 => parts # <<>>
    BY <1>8
  <2> QED
    BY <2>1, <2>2, <2>3
<1>14. parts = Context(session, chunks, limit)
  BY <1>3, <1>6
<1> QED
  BY <1>6, <1>10, <1>11, <1>12, <1>13, <1>14, Zenon DEF ContextLongest

-----------------------------------------------------------------------------
(* A retrieval's ranking.                                                  *)

\* Hits that are those of a list of keys, with their scores.
HitsOfKeys(hits, list, scores) ==
  /\ \A c \in ToSet(hits) : ChunkKey(c) \in ToSet(list) /\ c.score = scores[ChunkKey(c)]
  /\ \A k \in ToSet(list) : \E c \in ToSet(hits) : ChunkKey(c) = k

\* The hits of a vector search are the best chunks of the document.
LEMMA PlainHits ==
  ASSUME NEW K, Keyed(K), NEW vector \in [K -> Int], NEW keyword, NEW doc \in Docs, Visible(doc),
         NEW count \in Nat, NEW list, list = Best(doc, vector, count),
         NEW hits, hits = Hits(doc, vector, keyword, FALSE, count)
  PROVE  Bests(list, KeysOf(K, doc), vector, count) /\ HitsOfKeys(hits, list, vector)
<1>1. Bests(list, KeysOf(K, doc), vector, count)
  BY BestIs
<1>2. list \in Seq(KeysOf(K, doc))
  BY <1>1 DEF Bests
<1>3. PICK n : n = Len(list)
  OBVIOUS
<1>4. n \in Nat /\ DOMAIN list = 1 .. n /\ \A i \in 1 .. n : list[i] \in KeysOf(K, doc)
  BY <1>2, <1>3
<1>5. \A i \in 1 .. n : list[i] = <<doc, list[i][2]>>
  BY <1>4 DEF KeysOf, Keyed
<1>6. hits = [i \in 1 .. n |-> [doc |-> doc, index |-> list[i][2], score |-> vector[list[i]]]]
  BY <1>4, Zenon DEF Hits
<1>7. \A i \in 1 .. n : ChunkKey(hits[i]) = list[i] /\ hits[i].score = vector[list[i]]
  <2> SUFFICES ASSUME NEW i \in 1 .. n PROVE ChunkKey(hits[i]) = list[i] /\ hits[i].score = vector[list[i]]
    OBVIOUS
  <2>1. PICK k, c : k = list[i] /\ c = hits[i]
    OBVIOUS
  <2>2. c = [doc |-> doc, index |-> k[2], score |-> vector[k]]
    BY <1>6, <2>1
  <2>3. c.doc = doc /\ c.index = k[2] /\ c.score = vector[k] /\ k = <<doc, k[2]>>
    <3>1. k = <<doc, k[2]>>
      BY <1>5, <2>1
    <3>2. c.doc = doc /\ c.index = k[2] /\ c.score = vector[k]
      BY <2>2
    <3> QED
      BY <3>1, <3>2
  <2> QED
    BY <2>1, <2>3 DEF ChunkKey
<1>8. \A c : c \in ToSet(hits) <=> \E i \in 1 .. n : hits[i] = c
  BY <1>6 DEF ToSet
<1>9. \A k : k \in ToSet(list) <=> \E i \in 1 .. n : list[i] = k
  BY <1>4 DEF ToSet
<1>10. ASSUME NEW c \in ToSet(hits) PROVE ChunkKey(c) \in ToSet(list) /\ c.score = vector[ChunkKey(c)]
  <2>1. PICK i \in 1 .. n : hits[i] = c
    BY <1>8
  <2>2. ChunkKey(c) = list[i] /\ c.score = vector[list[i]]
    BY <1>7, <2>1
  <2> QED
    BY <1>9, <2>2
<1>11. ASSUME NEW k \in ToSet(list) PROVE \E c \in ToSet(hits) : ChunkKey(c) = k
  <2>1. PICK i \in 1 .. n : list[i] = k
    BY <1>9
  <2>2. PICK c : c = hits[i]
    OBVIOUS
  <2>3. c \in ToSet(hits) /\ ChunkKey(c) = k
    BY <1>7, <1>8, <2>1, <2>2
  <2> QED
    BY <2>3
<1> QED
  BY <1>1, <1>10, <1>11 DEF HitsOfKeys

\* Every chunk that can be found is of a document that is searched and can be seen.
AllShown(K, docs) == \A k \in K : k[1] \in ToSet(docs) /\ Visible(k[1])

\* The candidates: no chunk twice, the better scores first, with the scores of the
\* query if there is one, and with the best chunks of every document.
Ranking(cand, K, docs, queries, count) ==
  /\ cand \in Seq(HitKinds) /\ Len(cand) \in Nat
  /\ \A i, j \in 1 .. Len(cand) : ChunkKey(cand[i]) = ChunkKey(cand[j]) => i = j
  /\ \A i, j \in 1 .. Len(cand) : i < j => cand[i].score >= cand[j].score
  /\ \A i \in 1 .. Len(cand) : ChunkKey(cand[i]) \in K
  /\ Len(queries) = 1 => \A i \in 1 .. Len(cand) : cand[i].score = queries[1][ChunkKey(cand[i])]
  /\ \A d \in ToSet(docs) : Visible(d) =>
       \A k \in ToSet(Best(d, queries[1], count)) : \E i \in 1 .. Len(cand) : ChunkKey(cand[i]) = k

\* The candidates of a retrieval are ranked so.
LEMMA CandidatesRanked ==
  ASSUME NEW K, Keyed(K), NEW queries \in Seq([K -> Int]), queries # <<>>, NEW docs \in Seq(Docs),
         NEW count \in Nat
  PROVE  Ranking(Candidates(docs, queries, queries[1], FALSE, count), K, docs, queries, count)
<1>1. PICK first, cand : first = queries[1] /\ cand = Candidates(docs, queries, first, FALSE, count)
  OBVIOUS
<1>2. first \in [K -> Int] /\ FALSE \in BOOLEAN /\ 1 \in 1 .. Len(queries) /\ Len(queries) \in Nat
  BY <1>1
<1>3. PICK hits, chunks, f, g :
           /\ hits = AllFound(docs, queries, first, FALSE, count) /\ hits \in Seq(HitKinds)
           /\ chunks \in Seq(HitKinds) /\ Firsts(chunks, hits, KeysIn(hits), f)
           /\ cand \in Seq(HitKinds) /\ Sorts(cand, chunks, MergeOrder(chunks), g)
  BY <1>1, <1>2, CandidatesAre
<1>4. PICK n, m : n = Len(cand) /\ m = Len(hits)
  OBVIOUS
<1>5. /\ n \in Nat /\ Len(chunks) = n /\ DOMAIN chunks = 1 .. n /\ DOMAIN hits = 1 .. m /\ m \in Nat
      /\ g \in [1 .. n -> 1 .. n] /\ \A i \in 1 .. n : cand[i] = chunks[g[i]]
      /\ \A i \in 1 .. n : \E k \in 1 .. n : g[k] = i
      /\ \A i, j \in 1 .. n : g[i] = g[j] => i = j
      /\ \A i, j \in 1 .. n : i < j => <<g[j], g[i]>> \notin MergeOrder(chunks)
  <2>1. Len(cand) = Len(chunks)
    BY <1>3 DEF Sorts
  <2>2. PICK l : l = Len(chunks)
    OBVIOUS
  <2>3. /\ g \in [1 .. l -> 1 .. l] /\ \A i \in 1 .. l : cand[i] = chunks[g[i]]
        /\ \A i \in 1 .. l : \E k \in 1 .. l : g[k] = i
        /\ \A i, j \in 1 .. l : g[i] = g[j] => i = j
        /\ \A i, j \in 1 .. l : i < j => <<g[j], g[i]>> \notin MergeOrder(chunks)
    BY <1>3, <2>2 DEF Sorts
  <2>4. l = n /\ n \in Nat /\ m \in Nat /\ DOMAIN chunks = 1 .. n /\ DOMAIN hits = 1 .. m
    <3>1. chunks \in Seq(HitKinds) /\ hits \in Seq(HitKinds)
      BY <1>3
    <3>2. /\ Len(chunks) \in Nat /\ DOMAIN chunks = 1 .. Len(chunks)
          /\ Len(hits) \in Nat /\ DOMAIN hits = 1 .. Len(hits)
      BY <3>1
    <3> QED
      BY <1>4, <2>1, <2>2, <3>2
  <2> QED
    BY <2>2, <2>3, <2>4
<1>6. /\ f \in [1 .. n -> 1 .. m] /\ \A i \in 1 .. n : chunks[i] = hits[f[i]]
      /\ \A i, j \in 1 .. n : KeysIn(hits)[f[i]] = KeysIn(hits)[f[j]] => i = j
      /\ \A i \in 1 .. m : \E k \in 1 .. n : KeysIn(hits)[f[k]] = KeysIn(hits)[i]
  BY ZenonT(40), <1>3, <1>4, <1>5 DEF Firsts
<1>7. PICK hkey, key : /\ hkey = KeysIn(hits) /\ key = [i \in 1 .. n |-> ChunkKey(cand[i])]
  OBVIOUS
<1>8. \A i \in 1 .. m : hkey[i] = ChunkKey(hits[i])
  BY <1>5, <1>7 DEF KeysIn
<1>9. \A i \in 1 .. n : g[i] \in 1 .. n /\ f[g[i]] \in 1 .. m /\ cand[i] = hits[f[g[i]]] /\ key[i] = hkey[f[g[i]]]
  <2> SUFFICES ASSUME NEW i \in 1 .. n
               PROVE  /\ g[i] \in 1 .. n /\ f[g[i]] \in 1 .. m /\ cand[i] = hits[f[g[i]]]
                      /\ key[i] = hkey[f[g[i]]]
    OBVIOUS
  <2>1. PICK j : j = g[i]
    OBVIOUS
  <2>2. j \in 1 .. n /\ cand[i] = chunks[j]
    BY <1>5, <2>1
  <2>3. f[j] \in 1 .. m /\ chunks[j] = hits[f[j]]
    BY <1>6, <2>2
  <2>4. key[i] = ChunkKey(cand[i]) /\ hkey[f[j]] = ChunkKey(hits[f[j]])
    BY <1>7, <1>8, <2>3
  <2> QED
    BY <2>1, <2>2, <2>3, <2>4
<1>10. /\ \A i, j \in 1 .. n : key[i] = key[j] => i = j
       /\ \A i \in 1 .. m : \E k \in 1 .. n : key[k] = hkey[i]
  <2>1. ASSUME NEW i \in 1 .. n, NEW j \in 1 .. n, key[i] = key[j] PROVE i = j
    <3>1. hkey[f[g[i]]] = hkey[f[g[j]]] /\ g[i] \in 1 .. n /\ g[j] \in 1 .. n
      BY <1>9, <2>1
    <3>2. g[i] = g[j]
      BY <1>6, <1>7, <3>1
    <3> QED
      BY <1>5, <3>2
  <2>2. ASSUME NEW i \in 1 .. m PROVE \E k \in 1 .. n : key[k] = hkey[i]
    <3>1. PICK j \in 1 .. n : hkey[f[j]] = hkey[i]
      BY <1>6, <1>7
    <3>2. PICK k \in 1 .. n : g[k] = j
      BY <1>5
    <3>3. key[k] = hkey[f[j]]
      BY <1>9, <3>2
    <3> QED
      BY <3>1, <3>3
  <2> QED
    BY <2>1, <2>2
<1>11. \A i, j \in 1 .. n : i < j => cand[i].score >= cand[j].score
  <2> SUFFICES ASSUME NEW i \in 1 .. n, NEW j \in 1 .. n, i < j PROVE cand[i].score >= cand[j].score
    OBVIOUS
  <2>1. PICK a, b : a = g[i] /\ b = g[j]
    OBVIOUS
  <2>2. a \in 1 .. n /\ b \in 1 .. n /\ cand[i] = chunks[a] /\ cand[j] = chunks[b] /\ <<b, a>> \notin MergeOrder(chunks)
    BY <1>5, <2>1
  <2>3. chunks[a] \in HitKinds /\ chunks[b] \in HitKinds
    <3>1. \A x \in 1 .. n : chunks[x] \in HitKinds
      BY <1>3, <1>5
    <3> QED
      BY <2>2, <3>1
  <2>4. PICK s, t : s = chunks[a].score /\ t = chunks[b].score
    OBVIOUS
  <2>5. s \in Int /\ t \in Int
    BY <2>3, <2>4 DEF HitKinds
  <2>6. \A x, y \in DOMAIN chunks : chunks[x].score > chunks[y].score => <<x, y>> \in MergeOrder(chunks)
    BY <1>3, MergeOrdered
  <2>7. ~(t > s)
    BY <1>5, <2>2, <2>4, <2>6
  <2>8. s >= t
    BY <2>5, <2>7
  <2> QED
    BY <2>2, <2>4, <2>8
<1>12. ASSUME NEW i \in 1 .. m
       PROVE  \E q \in 1 .. Len(queries), d \in Docs :
                /\ hits[i].doc = d /\ Visible(d)
                /\ hits[i] \in ToSet(Hits(d, queries[q], first, FALSE, count))
  <2>1. hits[i] \in ToSet(hits)
    BY <1>5 DEF ToSet
  <2>2. PICK q \in 1 .. Len(queries) : hits[i] \in ToSet(Found(docs, queries[q], first, FALSE, count))
    BY <1>2, <1>3, <2>1, AllFoundIs
  <2>3. PICK scores \in [K -> Int] : scores = queries[q]
    OBVIOUS
  <2>4. PICK p \in 1 .. Len(docs) : hits[i] \in ToSet(Hits(docs[p], scores, first, FALSE, count))
    BY ZenonT(40), <1>2, <2>2, <2>3, FoundIs
  <2>5. PICK d \in Docs : d = docs[p]
    OBVIOUS
  <2>6. \A c \in ToSet(Hits(d, scores, first, FALSE, count)) : c.doc = d /\ Visible(d)
    BY <1>2, HitsAre
  <2> QED
    BY <2>3, <2>4, <2>5, <2>6
<1>13. ASSUME NEW i \in 1 .. m
       PROVE  /\ ChunkKey(hits[i]) \in K
              /\ Len(queries) = 1 => hits[i].score = first[ChunkKey(hits[i])]
  <2>1. PICK q \in 1 .. Len(queries), d \in Docs :
          Visible(d) /\ hits[i] \in ToSet(Hits(d, queries[q], first, FALSE, count))
    BY <1>12
  <2>2. PICK scores \in [K -> Int] : scores = queries[q]
    OBVIOUS
  <2>3. PICK list, those : list = Best(d, scores, count) /\ those = Hits(d, scores, first, FALSE, count)
    OBVIOUS
  <2>4. Bests(list, KeysOf(K, d), scores, count) /\ HitsOfKeys(those, list, scores)
    BY <2>1, <2>3, PlainHits
  <2>5. ChunkKey(hits[i]) \in ToSet(list) /\ hits[i].score = scores[ChunkKey(hits[i])]
    BY <2>1, <2>2, <2>3, <2>4 DEF HitsOfKeys
  <2>6. \A k \in ToSet(list) : k \in K
    <3>1. list \in Seq(KeysOf(K, d))
      BY <2>4 DEF Bests
    <3> QED
      BY <3>1 DEF ToSet, KeysOf
  <2>7. Len(queries) = 1 => scores = first
    BY <1>1, <2>2
  <2> QED
    BY <2>5, <2>6, <2>7
<1>14. /\ \A i \in 1 .. n : ChunkKey(cand[i]) \in K
       /\ Len(queries) = 1 => \A i \in 1 .. n : cand[i].score = first[ChunkKey(cand[i])]
  <2>1. \A i \in 1 .. n : \E j \in 1 .. m : cand[i] = hits[j]
    BY <1>9
  <2> QED
    BY <1>13, <2>1
<1>15. ASSUME NEW d \in ToSet(docs), Visible(d), NEW k \in ToSet(Best(d, first, count))
       PROVE  \E i \in 1 .. n : ChunkKey(cand[i]) = k
  <2>1. d \in Docs /\ \E p \in 1 .. Len(docs) : docs[p] = d
    BY DEF ToSet
  <2>2. PICK list, those : list = Best(d, first, count) /\ those = Hits(d, first, first, FALSE, count)
    OBVIOUS
  <2>3. HitsOfKeys(those, list, first)
    BY <1>2, <1>15, <2>1, <2>2, PlainHits
  <2>4. PICK c \in ToSet(those) : ChunkKey(c) = k
    BY <1>15, <2>2, <2>3 DEF HitsOfKeys
  <2>5. c \in ToSet(Found(docs, first, first, FALSE, count))
    BY <1>2, <2>1, <2>2, <2>4, FoundIs
  <2>6. c \in ToSet(hits)
    BY <1>1, <1>2, <1>3, <2>5, AllFoundIs
  <2>7. PICK i \in 1 .. m : hits[i] = c
    BY <1>5, <2>6 DEF ToSet
  <2> QED
    BY <1>7, <1>8, <1>10, <2>4, <2>7
<1>16. \A i, j \in 1 .. n : ChunkKey(cand[i]) = ChunkKey(cand[j]) => i = j
  BY <1>7, <1>10
<1>17. /\ cand \in Seq(HitKinds) /\ Len(cand) \in Nat
       /\ \A i, j \in 1 .. Len(cand) : ChunkKey(cand[i]) = ChunkKey(cand[j]) => i = j
       /\ \A i, j \in 1 .. Len(cand) : i < j => cand[i].score >= cand[j].score
       /\ \A i \in 1 .. Len(cand) : ChunkKey(cand[i]) \in K
  BY <1>3, <1>4, <1>5, <1>11, <1>14, <1>16
<1>18. Len(queries) = 1 => \A i \in 1 .. Len(cand) : cand[i].score = queries[1][ChunkKey(cand[i])]
  BY <1>1, <1>4, <1>14
<1>19. \A d \in ToSet(docs) : Visible(d) =>
         \A k \in ToSet(Best(d, queries[1], count)) : \E i \in 1 .. Len(cand) : ChunkKey(cand[i]) = k
  BY <1>1, <1>4, <1>15
<1>20. Ranking(cand, K, docs, queries, count)
  BY <1>17, <1>18, <1>19, Zenon DEF Ranking
<1> QED
  BY <1>1, <1>20

\* The keys of the candidates.
KeyList(cand) == [i \in 1 .. Len(cand) |-> ChunkKey(cand[i])]

\* There are as many candidates as keys, all of them of chunks that can be found.
LEMMA KeysOfRanking ==
  ASSUME NEW K, Keyed(K), NEW docs, NEW queries, NEW count, NEW cand, Ranking(cand, K, docs, queries, count),
         NEW keys, keys = KeyList(cand)
  PROVE  /\ Len(cand) \in Nat /\ keys \in Seq(K) /\ Len(keys) = Len(cand)
         /\ \A i, j \in 1 .. Len(cand) : keys[i] = keys[j] => i = j
         /\ \A i \in 1 .. Len(cand) : keys[i] = ChunkKey(cand[i])
         /\ IsFiniteSet(ToSet(keys)) /\ Cardinality(ToSet(keys)) = Len(cand)
         /\ ToSet(keys) \subseteq K /\ Len(cand) <= Cardinality(K) /\ Cardinality(K) \in Nat
<1>1. PICK n : n = Len(cand)
  OBVIOUS
<1>2. /\ n \in Nat /\ \A i, j \in 1 .. n : ChunkKey(cand[i]) = ChunkKey(cand[j]) => i = j
      /\ \A i \in 1 .. n : ChunkKey(cand[i]) \in K
  BY <1>1 DEF Ranking
<1>3. keys = [i \in 1 .. n |-> ChunkKey(cand[i])]
  BY <1>1 DEF KeyList
<1>4. keys \in Seq(K) /\ Len(keys) = n
  <2>1. keys \in [1 .. n -> K]
    BY <1>2, <1>3
  <2> QED
    BY <1>2, <2>1
<1>5. /\ \A i, j \in 1 .. n : keys[i] = keys[j] => i = j
      /\ \A i \in 1 .. n : keys[i] = ChunkKey(cand[i])
  BY <1>2, <1>3
<1>6. IsFiniteSet(ToSet(keys)) /\ Cardinality(ToSet(keys)) = n
  BY <1>4, <1>5, DistinctLength
<1>7. ToSet(keys) \subseteq K
  BY <1>4 DEF ToSet
<1>8. Cardinality(ToSet(keys)) <= Cardinality(K) /\ Cardinality(K) \in Nat
  BY <1>7, FS_Subset, FS_CardinalityType DEF Keyed
<1> QED
  BY <1>1, <1>2, <1>4, <1>5, <1>6, <1>7, <1>8

\* As many chunks as are asked for that are no worse than k, none twice.
BetterOnes(list, K, scores, count, k) ==
  /\ list \in Seq(K) /\ Len(list) = count
  /\ \A i, j \in 1 .. count : list[i] = list[j] => i = j
  /\ \A i \in 1 .. count : scores[list[i]] >= scores[k]

\* If a chunk is no candidate, so many others are.
LEMMA MissedForBetter ==
  ASSUME NEW K, Keyed(K), NEW docs \in Seq(Docs), AllShown(K, docs),
         NEW queries \in Seq([K -> Int]), queries # <<>>, NEW count \in Nat,
         NEW cand, Ranking(cand, K, docs, queries, count), NEW keys, keys = KeyList(cand),
         NEW k \in K \ ToSet(keys)
  PROVE  \E list : BetterOnes(list, K, queries[1], count, k) /\ ToSet(list) \subseteq ToSet(keys)
<1>1. PICK first, d, T : first = queries[1] /\ d = k[1] /\ T = KeysOf(K, d)
  OBVIOUS
<1>2. first \in [K -> Int] /\ d \in ToSet(docs) /\ Visible(d) /\ k \in T
  BY <1>1 DEF AllShown, KeysOf
<1>3. PICK list : list = Best(d, first, count)
  OBVIOUS
<1>4. Bests(list, T, first, count)
  BY <1>1, <1>2, <1>3, BestIs
<1>5. /\ list \in Seq(T) /\ Len(list) \in Nat
      /\ \A i, j \in 1 .. Len(list) : list[i] = list[j] => i = j
      /\ \A x \in T \ ToSet(list) : Len(list) = count /\ \A i \in 1 .. Len(list) : first[list[i]] >= first[x]
  BY <1>4 DEF Bests
<1>6. ToSet(list) \subseteq ToSet(keys)
  <2>1. PICK n : n = Len(cand)
    OBVIOUS
  <2>2. \A x \in ToSet(Best(d, queries[1], count)) : \E i \in 1 .. n : ChunkKey(cand[i]) = x
    BY <1>2, <2>1 DEF Ranking
  <2>3. DOMAIN keys = 1 .. n /\ \A i \in 1 .. n : keys[i] = ChunkKey(cand[i])
    BY <2>1 DEF KeyList
  <2>4. \A x : x \in ToSet(keys) <=> \E i \in 1 .. n : keys[i] = x
    BY <2>3 DEF ToSet
  <2>5. \A x \in ToSet(list) : \E i \in 1 .. n : ChunkKey(cand[i]) = x
    BY <1>1, <1>3, <2>2
  <2> QED
    BY <2>3, <2>4, <2>5
<1>7. k \in T \ ToSet(list)
  BY <1>2, <1>6
<1>8. Len(list) = count /\ \A i \in 1 .. count : first[list[i]] >= first[k]
  BY <1>5, <1>7
<1>9. list \in Seq(K)
  <2>1. T \subseteq K
    BY <1>1 DEF KeysOf
  <2> QED
    BY <1>5, <2>1
<1>10. BetterOnes(list, K, first, count, k)
  BY <1>5, <1>8, <1>9 DEF BetterOnes
<1> QED
  BY <1>1, <1>6, <1>10

\* There are as many candidates as are asked for, or all.
LEMMA EnoughCandidates ==
  ASSUME NEW K, Keyed(K), NEW docs \in Seq(Docs), AllShown(K, docs),
         NEW queries \in Seq([K -> Int]), queries # <<>>, NEW count \in Nat,
         NEW cand, Ranking(cand, K, docs, queries, count)
  PROVE  Len(cand) >= count \/ Len(cand) = Cardinality(K)
<1>1. PICK keys : keys = KeyList(cand)
  OBVIOUS
<1>2. /\ IsFiniteSet(ToSet(keys)) /\ Cardinality(ToSet(keys)) = Len(cand) /\ ToSet(keys) \subseteq K
      /\ Len(cand) \in Nat
  BY <1>1, KeysOfRanking
<1>3. CASE ToSet(keys) = K
  BY <1>2, <1>3
<1>4. CASE ToSet(keys) # K
  <2>1. PICK k \in K \ ToSet(keys) : TRUE
    BY <1>2, <1>4
  <2>2. PICK list : BetterOnes(list, K, queries[1], count, k) /\ ToSet(list) \subseteq ToSet(keys)
    BY <1>1, MissedForBetter
  <2>3. list \in Seq(K) /\ Len(list) = count /\ \A i, j \in 1 .. Len(list) : list[i] = list[j] => i = j
    BY <2>2 DEF BetterOnes
  <2>4. Cardinality(ToSet(list)) = count
    BY <2>3, DistinctLength
  <2>5. Cardinality(ToSet(list)) <= Cardinality(ToSet(keys))
    BY <1>2, <2>2, FS_Subset
  <2> QED
    BY <1>2, <2>4, <2>5
<1> QED
  BY <1>3, <1>4

\* More things than places: two are at the same.
LEMMA Crowded ==
  ASSUME NEW a \in Nat, NEW b \in Nat, b < a, NEW f \in [1 .. a -> 1 .. b]
  PROVE  \E x, y \in 1 .. a : x # y /\ f[x] = f[y]
<1>1. 1 \in Int /\ a \in Int /\ b \in Int
  OBVIOUS
<1>2. IsFiniteSet(1 .. a) /\ Cardinality(1 .. a) = IF 1 > a THEN 0 ELSE a - 1 + 1
  BY <1>1, FS_Interval
<1>3. IsFiniteSet(1 .. b) /\ Cardinality(1 .. b) = IF 1 > b THEN 0 ELSE b - 1 + 1
  BY <1>1, FS_Interval
<1>4. Cardinality(1 .. b) < Cardinality(1 .. a)
  BY <1>2, <1>3
<1> QED
  BY <1>2, <1>3, <1>4, FS_PigeonHole, Zenon

\* What one query leaves out has no better score than the last that it takes.
LEMMA LastIsBetter ==
  ASSUME NEW K, Keyed(K), NEW docs \in Seq(Docs), AllShown(K, docs),
         NEW queries \in Seq([K -> Int]), Len(queries) = 1, NEW count \in Nat \ {0},
         NEW cand, Ranking(cand, K, docs, queries, count),
         NEW l, l = Least2(count, Len(cand)), l # 0, NEW k \in K, \A i \in 1 .. l : ChunkKey(cand[i]) # k
  PROVE  queries[1][k] <= cand[l].score
<1>1. PICK first, n, keys : first = queries[1] /\ n = Len(cand) /\ keys = KeyList(cand)
  OBVIOUS
<1>2. /\ n \in Nat /\ \A i, j \in 1 .. n : keys[i] = keys[j] => i = j
      /\ \A i \in 1 .. n : keys[i] = ChunkKey(cand[i])
      /\ keys \in Seq(K) /\ Len(keys) = n
  BY <1>1, KeysOfRanking
<1>3. first \in [K -> Int] /\ queries # <<>>
  <2>1. PICK i \in 1 .. Len(queries) : i = 1
    OBVIOUS
  <2>2. queries[i] \in [K -> Int]
    BY ElementOfSeq
  <2>3. queries # <<>>
    <3>1. Len(<<>>) = 0 /\ Len(queries) # 0
      OBVIOUS
    <3> QED
      BY <3>1
  <2> QED
    BY <1>1, <2>1, <2>2, <2>3
<1>4. /\ \A i, j \in 1 .. n : i < j => cand[i].score >= cand[j].score
      /\ \A i \in 1 .. n : cand[i].score = first[keys[i]] /\ keys[i] \in K
  <2>1. /\ \A i, j \in 1 .. n : i < j => cand[i].score >= cand[j].score
        /\ \A i \in 1 .. n : cand[i].score = first[ChunkKey(cand[i])] /\ ChunkKey(cand[i]) \in K
    BY <1>1 DEF Ranking
  <2> QED
    BY <1>2, <2>1
<1>5. \A i \in 1 .. n : cand[i].score \in Int
  BY <1>3, <1>4
<1>6. l \in 1 .. n /\ l <= count /\ (l # n => l = count) /\ count \in Nat
  BY <1>1, <1>2 DEF Least2
<1>7. \A j \in 1 .. n : j >= l => cand[l].score >= cand[j].score
  <2> SUFFICES ASSUME NEW j \in 1 .. n, j >= l PROVE cand[l].score >= cand[j].score
    OBVIOUS
  <2>1. CASE j = l
    BY <1>5, <2>1
  <2>2. CASE j # l
    BY <1>4, <1>6, <2>2
  <2> QED
    BY <2>1, <2>2
<1>8. CASE k \in ToSet(keys)
  <2>1. PICK j \in 1 .. n : keys[j] = k
    BY <1>2, <1>8 DEF ToSet
  <2>2. ~(j \in 1 .. l)
    BY <1>2, <2>1
  <2>3. j >= l
    BY <1>6, <2>2
  <2>4. cand[l].score >= cand[j].score /\ cand[j].score = first[k]
    BY <1>4, <1>7, <2>1, <2>3
  <2>5. first[k] \in Int /\ cand[l].score \in Int
    BY <1>3, <1>5, <1>6
  <2> QED
    BY <1>1, <2>4, <2>5
<1>9. CASE k \notin ToSet(keys)
  <2>1. PICK list : BetterOnes(list, K, first, count, k) /\ ToSet(list) \subseteq ToSet(keys)
    BY <1>1, <1>3, <1>9, MissedForBetter
  <2>2. /\ list \in Seq(K) /\ Len(list) = count
        /\ \A i, j \in 1 .. count : list[i] = list[j] => i = j
        /\ \A i \in 1 .. count : first[list[i]] >= first[k]
    BY <2>1 DEF BetterOnes
  <2>3. \A i \in 1 .. count : \E p \in 1 .. n : keys[p] = list[i]
    <3>1. \A i \in 1 .. count : list[i] \in ToSet(list)
      BY <2>2 DEF ToSet
    <3>2. \A x \in ToSet(keys) : \E p \in 1 .. n : keys[p] = x
      BY <1>2 DEF ToSet
    <3> QED
      BY <2>1, <3>1, <3>2
  <2>4. PICK place : place = [i \in 1 .. count |-> CHOOSE p \in 1 .. n : keys[p] = list[i]]
    OBVIOUS
  <2>5. place \in [1 .. count -> 1 .. n] /\ \A i \in 1 .. count : keys[place[i]] = list[i]
    BY <2>3, <2>4, Zenon
  <2>6. \E i \in 1 .. count : place[i] >= l
    <3> SUFFICES ASSUME \A i \in 1 .. count : ~(place[i] >= l) PROVE FALSE
      OBVIOUS
    <3>1. place \in [1 .. count -> 1 .. l - 1]
      <4>1. \A i \in 1 .. count : place[i] \in 1 .. l - 1
        <5> SUFFICES ASSUME NEW i \in 1 .. count PROVE place[i] \in 1 .. l - 1
          OBVIOUS
        <5>1. PICK p : p = place[i]
          OBVIOUS
        <5>2. p \in 1 .. n /\ ~(p >= l)
          BY <2>5, <5>1
        <5>3. p \in 1 .. l - 1
          BY <1>2, <1>6, <5>2
        <5> QED
          BY <5>1, <5>3
      <4> QED
        BY <2>4, <4>1
    <3>2. l - 1 \in Nat /\ count \in Nat /\ l - 1 < count
      BY <1>6
    <3>7. PICK x \in 1 .. count, y \in 1 .. count : x # y /\ place[x] = place[y]
      BY <3>1, <3>2, Crowded
    <3>8. list[x] = list[y]
      BY <2>5, <3>7
    <3> QED
      BY <2>2, <3>7, <3>8
  <2>7. PICK i \in 1 .. count : place[i] >= l
    BY <2>6
  <2>8. PICK p \in 1 .. n : p = place[i] /\ p >= l /\ keys[p] = list[i]
    BY <2>5, <2>7
  <2>9. cand[l].score >= cand[p].score /\ cand[p].score = first[list[i]] /\ first[list[i]] >= first[k]
    BY <1>4, <1>7, <2>2, <2>8
  <2>10. first[k] \in Int /\ cand[l].score \in Int /\ cand[p].score \in Int
    BY <1>3, <1>5, <1>6
  <2> QED
    BY <1>1, <2>9, <2>10
<1> QED
  BY <1>8, <1>9

\* Retrieval gives the best of all documents and queries, for any documents, scores
\* and count.
LEMMA RetrievalAlwaysRanks ==
  ASSUME NEW K, Keyed(K), NEW docs \in Seq(Docs), AllShown(K, docs),
         NEW queries \in Seq([K -> Int]), queries # <<>>, NEW count \in Nat \ {0}
  PROVE  RetrievalRanks(docs, queries, count)
<1>1. PICK first, cand, got : /\ first = queries[1] /\ cand = Candidates(docs, queries, first, FALSE, count)
                              /\ got = Retrieved(docs, queries, first, FALSE, count)
  OBVIOUS
<1>2. count \in Nat /\ Ranking(cand, K, docs, queries, count)
  <2>1. count \in Nat
    OBVIOUS
  <2>2. Ranking(Candidates(docs, queries, queries[1], FALSE, count), K, docs, queries, count)
    BY <2>1, CandidatesRanked
  <2> QED
    BY <1>1, <2>1, <2>2
<1>3. got = Take(cand, count)
  BY <1>1 DEF Retrieved
<1>4. PICK n, l, all : n = Len(cand) /\ l = Least2(count, n) /\ all = KeyList(cand)
  OBVIOUS
<1>5. /\ n \in Nat /\ \A i, j \in 1 .. n : all[i] = all[j] => i = j
      /\ \A i \in 1 .. n : all[i] = ChunkKey(cand[i]) /\ all[i] \in K
      /\ n <= Cardinality(K) /\ Cardinality(K) \in Nat
  <2>1. /\ n \in Nat /\ all \in Seq(K) /\ Len(all) = n
        /\ \A i, j \in 1 .. n : all[i] = all[j] => i = j
        /\ \A i \in 1 .. n : all[i] = ChunkKey(cand[i])
        /\ n <= Cardinality(K) /\ Cardinality(K) \in Nat
    <3>1. /\ Len(cand) \in Nat /\ all \in Seq(K) /\ Len(all) = Len(cand)
          /\ \A i, j \in 1 .. Len(cand) : all[i] = all[j] => i = j
          /\ \A i \in 1 .. Len(cand) : all[i] = ChunkKey(cand[i])
          /\ Len(cand) <= Cardinality(K) /\ Cardinality(K) \in Nat
      <4>1. all = KeyList(cand)
        BY <1>4
      <4> QED
        BY <1>2, <4>1, KeysOfRanking
    <3> QED
      BY <1>4, <3>1
  <2> QED
    BY <2>1
<1>6. cand \in Seq(HitKinds) /\ \A i, j \in 1 .. n : i < j => cand[i].score >= cand[j].score
  BY <1>2, <1>4 DEF Ranking
<1>7. /\ got \in Seq(HitKinds) /\ Len(got) = l /\ l \in 0 .. n /\ l <= count /\ (l # n => l = count)
      /\ \A i \in 1 .. l : i \in 1 .. n /\ got[i] = cand[i]
  <2>1. /\ Take(cand, count) \in Seq(HitKinds) /\ Len(Take(cand, count)) = Least2(count, Len(cand))
        /\ \A i \in 1 .. Least2(count, Len(cand)) : i \in 1 .. Len(cand) /\ Take(cand, count)[i] = cand[i]
    BY <1>2, <1>6, TakeIsPrefix
  <2>2. l \in 0 .. n /\ l <= count /\ (l # n => l = count)
    BY <1>2, <1>4, <1>5 DEF Least2
  <2> QED
    BY <1>3, <1>4, <2>1, <2>2
<1>8. PICK keys : keys = {<<c.doc, c.index>> : c \in ToSet(got)}
  OBVIOUS
<1>9. \A x : x \in keys <=> \E i \in 1 .. l : all[i] = x
  <2>1. DOMAIN got = 1 .. l
    BY <1>7
  <2>2. \A c : c \in ToSet(got) <=> \E i \in 1 .. l : got[i] = c
    BY <2>1 DEF ToSet
  <2>3. keys = {ChunkKey(c) : c \in ToSet(got)}
    BY <1>8 DEF ChunkKey
  <2>4. \A x : x \in keys <=> \E i \in 1 .. l : ChunkKey(got[i]) = x
    BY <2>2, <2>3
  <2>5. \A i \in 1 .. l : ChunkKey(got[i]) = all[i]
    BY <1>5, <1>7
  <2> QED
    BY <2>4, <2>5
<1>10. Cardinality(keys) = Len(got)
  <2>1. PICK list : list = [i \in 1 .. l |-> all[i]]
    OBVIOUS
  <2>2. list \in Seq(K) /\ Len(list) = l
    <3>1. list \in [1 .. l -> K] /\ l \in Nat
      BY <1>5, <1>7, <2>1
    <3> QED
      BY <2>1, <3>1
  <2>3. \A i, j \in 1 .. Len(list) : list[i] = list[j] => i = j
    BY <1>5, <1>7, <2>1, <2>2
  <2>4. Cardinality(ToSet(list)) = l
    BY <2>2, <2>3, DistinctLength
  <2>5. ToSet(list) = keys
    <3>1. \A x : x \in ToSet(list) <=> \E i \in 1 .. l : list[i] = x
      <4>1. DOMAIN list = 1 .. l
        BY <2>1
      <4> QED
        BY <4>1 DEF ToSet
    <3> QED
      BY <1>9, <2>1, <3>1
  <2> QED
    BY <1>7, <2>4, <2>5
<1>11. Len(got) = IF count < Cardinality(K) THEN count ELSE Cardinality(K)
  <2>1. n >= count \/ n = Cardinality(K)
    BY <1>2, <1>4, EnoughCandidates
  <2>2. l = IF count < Cardinality(K) THEN count ELSE Cardinality(K)
    BY <1>2, <1>4, <1>5, <2>1 DEF Least2
  <2> QED
    BY <1>7, <2>2
<1>12. \A i, j \in DOMAIN got : i < j => got[i].score >= got[j].score
  <2>1. DOMAIN got = 1 .. l
    BY <1>7
  <2> QED
    BY <1>6, <1>7, <2>1
<1>13. PICK top : top = IF got = <<>> THEN 0 ELSE got[Len(got)].score
  OBVIOUS
<1>14. ASSUME Len(queries) = 1, NEW k \in K \ keys PROVE first[k] <= top
  <2>1. l # 0
    <3>1. \E x : x \in K
      BY <1>14
    <3>2. Cardinality(K) # 0
      BY <3>1, FS_EmptySet DEF Keyed
    <3> QED
      BY <1>5, <1>7, <1>11, <3>2
  <2>2. got # <<>> /\ l \in 1 .. l
    BY <1>7, <2>1
  <2>3. top = cand[l].score
    BY <1>7, <1>13, <2>2
  <2>4. \A i \in 1 .. l : ChunkKey(cand[i]) # k
    BY <1>5, <1>7, <1>9, <1>14
  <2>5. queries[1][k] <= cand[l].score
    BY <1>2, <1>4, <1>14, <2>1, <2>4, LastIsBetter
  <2> QED
    BY <1>1, <2>3, <2>5
<1>15. DOMAIN first = K
  <2>1. PICK i \in 1 .. Len(queries) : i = 1
    OBVIOUS
  <2>2. queries[i] \in [K -> Int]
    BY ElementOfSeq
  <2> QED
    BY <1>1, <2>1, <2>2
<1>16. /\ Cardinality(keys) = Len(got)
       /\ Len(got) = IF count < Cardinality(DOMAIN first) THEN count ELSE Cardinality(DOMAIN first)
       /\ \A i, j \in DOMAIN got : i < j => got[i].score >= got[j].score
       /\ Len(queries) = 1 => \A k \in DOMAIN first \ keys : first[k] <= top
  BY <1>10, <1>11, <1>12, <1>14, <1>15
<1> QED
  BY <1>1, <1>8, <1>13, <1>16, Zenon DEF RetrievalRanks

-----------------------------------------------------------------------------
(* A hybrid search of both rankings.                                       *)

\* A larger divisor, a smaller quotient, if the divisors are small enough.
LEMMA QuotientsOrdered ==
  ASSUME NEW a \in Nat, NEW d \in Nat, NEW e \in Nat, 0 < d, d < e, d * (d + 1) <= a
  PROVE  a \div d > a \div e
<1>1. PICK q, p, r : q = a \div e /\ p = a \div d /\ r = e - d - 1
  OBVIOUS
<1>2. q \in Nat /\ p \in Nat /\ r \in Nat
  BY <1>1
<1>3. CASE q < d
  <2>1. d + 1 <= a \div d
    <3>1. PICK f \in Nat : f = d + 1
      OBVIOUS
    <3>2. f * d <= a
      BY <3>1
    <3> QED
      BY <3>1, <3>2
  <2> QED
    BY <1>1, <1>2, <1>3, <2>1
<1>4. CASE q >= d
  <2>1. q * e <= a
    BY <1>1
  <2>2. e = d + 1 + r
    BY <1>1
  <2>3. PICK x, y : x = q * d /\ y = q * r
    OBVIOUS
  <2>4. x \in Nat /\ y \in Nat
    BY <1>2, <2>3
  <2>5. q * e = x + q + y /\ (q + 1) * d = x + d
    BY <1>2, <2>2, <2>3
  <2>6. (q + 1) * d <= a
    BY <1>2, <1>4, <2>1, <2>4, <2>5
  <2>7. q + 1 <= a \div d
    <3>1. PICK f \in Nat : f = q + 1
      BY <1>2
    <3> QED
      BY <2>6, <3>1
  <2> QED
    BY <1>1, <1>2, <2>7
<1> QED
  BY <1>2, <1>3, <1>4

\* k is no worse than l in a list.
AsGood(k, l, list) == RankOf(l, list) = 0 \/ (RankOf(k, list) # 0 /\ RankOf(k, list) <= RankOf(l, list))

\* Of two ranks that Common tells apart, the better has the larger share.
LEMMA BetterShare ==
  ASSUME NEW X, NEW list \in Seq(X), Len(list) <= 3800, NEW k, NEW l, k # l, AsGood(k, l, list)
  PROVE  /\ Share(k, list) \in Nat /\ Share(l, list) \in Nat /\ Share(k, list) >= Share(l, list)
         /\ RankOf(l, list) # 0 => Share(k, list) > Share(l, list)
<1>1. PICK r, s, x, y : r = RankOf(k, list) /\ s = RankOf(l, list) /\ x = Share(k, list) /\ y = Share(l, list)
  OBVIOUS
<1>2. r \in Nat /\ s \in Nat /\ r <= 3800
  <2>1. r \in 0 .. Len(list) /\ s \in 0 .. Len(list) /\ Len(list) \in Nat
    BY <1>1, RankIs
  <2> QED
    BY <2>1
<1>3. x \in Nat /\ y \in Nat
  BY <1>1, ShareIs
<1>4. CASE s = 0
  <2>1. y = 0
    BY <1>1, <1>4 DEF Share
  <2> QED
    BY <1>1, <1>3, <1>4, <2>1
<1>5. CASE s # 0
  <2>1. r # 0 /\ r <= s
    BY <1>1, <1>5 DEF AsGood
  <2>2. r # s
    <3>1. list[r] = k /\ list[s] = l
      BY <1>1, <1>5, <2>1, RankIs
    <3> QED
      BY <3>1
  <2>3. PICK d \in Nat, e \in Nat : d = 60 + r /\ e = 60 + s
    BY <1>2
  <2>4. 0 < d /\ d < e /\ d <= 3860
    BY <1>2, <2>1, <2>2, <2>3
  <2>5. PICK common \in Nat : common = Common
    BY DEF Common
  <2>6. d * (d + 1) <= common
    <3>1. PICK g \in Nat : d + g = 3860
      <4>1. 3860 - d \in Nat /\ d + (3860 - d) = 3860
        BY <2>4
      <4> QED
        BY <4>1
    <3>2. d * (d + 1) + g * (d + 1) = 3860 * (d + 1)
      <4>1. (d + g) * (d + 1) = d * (d + 1) + g * (d + 1)
        BY <3>1
      <4> QED
        BY <3>1, <4>1
    <3>3. g * (d + 1) \in Nat /\ d * (d + 1) \in Nat
      BY <3>1
    <3>4. 3860 * (d + 1) <= 14903460
      BY <2>4
    <3>5. common = 15249024
      BY <2>5 DEF Common
    <3> QED
      BY <3>2, <3>3, <3>4, <3>5
  <2>7. common \div d > common \div e
    BY <2>4, <2>6, QuotientsOrdered
  <2>8. x = common \div d /\ y = common \div e
    BY <1>1, <1>5, <2>1, <2>3, <2>5 DEF Share
  <2>9. x > y
    BY <2>7, <2>8
  <2> QED
    BY <1>1, <1>3, <2>9
<1> QED
  BY <1>4, <1>5

\* Better in one list and no worse in the other: a larger fused score.
LEMMA BetterFused ==
  ASSUME NEW X, NEW a \in Seq(X), NEW b \in Seq(X), Len(a) <= 3800, Len(b) <= 3800, NEW k, NEW l, k # l,
         AsGood(k, l, a), AsGood(k, l, b), RankOf(l, a) # 0 \/ RankOf(l, b) # 0
  PROVE  Fused(k, <<a, b>>) > Fused(l, <<a, b>>)
<1>1. /\ Share(k, a) \in Nat /\ Share(l, a) \in Nat /\ Share(k, a) >= Share(l, a)
      /\ RankOf(l, a) # 0 => Share(k, a) > Share(l, a)
  BY BetterShare
<1>2. /\ Share(k, b) \in Nat /\ Share(l, b) \in Nat /\ Share(k, b) >= Share(l, b)
      /\ RankOf(l, b) # 0 => Share(k, b) > Share(l, b)
  BY BetterShare
<1>3. Fused(k, <<a, b>>) = Share(k, a) + Share(k, b) /\ Fused(l, <<a, b>>) = Share(l, a) + Share(l, b)
  BY FusedIs
<1>4. PICK w, x, y, z : w = Share(k, a) /\ x = Share(l, a) /\ y = Share(k, b) /\ z = Share(l, b)
  OBVIOUS
<1>5. w \in Nat /\ x \in Nat /\ y \in Nat /\ z \in Nat /\ w >= x /\ y >= z /\ (w > x \/ y > z)
  BY <1>1, <1>2, <1>4
<1>6. w + y > x + z
  BY <1>5
<1> QED
  BY <1>3, <1>4, <1>6

\* Two lists fused: their keys, each once, in order.
FusesInto(keys, all, g, X, a, b, limit) ==
  /\ keys \in Seq(X) /\ Sorts(all, keys, FusedOrder(keys, <<a, b>>), g)
  /\ \A i, j \in 1 .. Len(keys) : keys[i] = keys[j] => i = j
  /\ \A x : x \in ToSet(a) \/ x \in ToSet(b) => \E i \in 1 .. Len(keys) : keys[i] = x
  /\ all \in Seq(X) /\ Fuse(<<a, b>>, limit) = Take(all, limit)

\* A fused list is the first of the sorted keys of both lists.
LEMMA FuseSorts ==
  ASSUME NEW X, NEW a \in Seq(X), NEW b \in Seq(X), NEW limit \in Nat
  PROVE  \E keys, all, g : FusesInto(keys, all, g, X, a, b, limit)
<1>1. PICK keys, all, met : /\ Fuses(keys, all, met, a, b, limit)
                            /\ met \in Seq(X) /\ keys \in Seq(X) /\ all \in Seq(X)
                            /\ \A x : x \in ToSet(met) <=> x \in ToSet(a) \/ x \in ToSet(b)
  BY FuseTyped
<1>2. /\ keys = FirstOf(met, met) /\ all = Ordered(keys, FusedOrder(keys, <<a, b>>))
      /\ Fuse(<<a, b>>, limit) = Take(all, limit)
  BY <1>1 DEF Fuses
<1>3. PICK f : Firsts(keys, met, met, f)
  BY <1>1, <1>2, FirstOfPicks
<1>4. /\ \A n \in 1 .. Len(keys) : keys[n] = met[f[n]]
      /\ \A m, n \in 1 .. Len(keys) : met[f[m]] = met[f[n]] => m = n
      /\ \A i \in 1 .. Len(met) : \E n \in 1 .. Len(keys) : met[f[n]] = met[i]
  BY <1>3 DEF Firsts
<1>5. \A i, j \in 1 .. Len(keys) : keys[i] = keys[j] => i = j
  BY <1>4
<1>6. \A x : x \in ToSet(a) \/ x \in ToSet(b) => \E i \in 1 .. Len(keys) : keys[i] = x
  <2>1. DOMAIN met = 1 .. Len(met)
    BY <1>1
  <2>2. \A x \in ToSet(met) : \E i \in 1 .. Len(met) : met[i] = x
    BY <2>1 DEF ToSet
  <2> SUFFICES ASSUME NEW x, x \in ToSet(met) PROVE \E i \in 1 .. Len(keys) : keys[i] = x
    BY <1>1
  <2>3. PICK i \in 1 .. Len(met) : met[i] = x
    BY <2>2
  <2>4. PICK n \in 1 .. Len(keys) : met[f[n]] = met[i]
    BY <1>4
  <2> QED
    BY <1>4, <2>3, <2>4
<1>7. WeakOrder(DOMAIN keys, FusedOrder(keys, <<a, b>>))
  BY <1>1, FusedOrdered
<1>8. PICK g : Sorts(all, keys, FusedOrder(keys, <<a, b>>), g)
  BY <1>1, <1>2, <1>7, OrderedSorts
<1>9. FusesInto(keys, all, g, X, a, b, limit)
  BY <1>1, <1>2, <1>5, <1>6, <1>8 DEF FusesInto
<1> QED
  BY <1>9

\* A key with a larger score is ahead of one that is in the list.
LEMMA FusedAhead ==
  ASSUME NEW X, NEW a \in Seq(X), NEW b \in Seq(X), NEW limit \in Nat, NEW k, NEW l,
         Fused(k, <<a, b>>) > Fused(l, <<a, b>>), k \in ToSet(a) \/ k \in ToSet(b),
         NEW list, list = Fuse(<<a, b>>, limit), l \in ToSet(list)
  PROVE  k \in ToSet(list) /\ RankOf(k, list) < RankOf(l, list)
<1>1. PICK keys, all, g : FusesInto(keys, all, g, X, a, b, limit)
  BY FuseSorts
<1>2. /\ keys \in Seq(X) /\ Sorts(all, keys, FusedOrder(keys, <<a, b>>), g)
      /\ \A i, j \in 1 .. Len(keys) : keys[i] = keys[j] => i = j
      /\ \A x : x \in ToSet(a) \/ x \in ToSet(b) => \E i \in 1 .. Len(keys) : keys[i] = x
      /\ all \in Seq(X) /\ Fuse(<<a, b>>, limit) = Take(all, limit)
  BY <1>1 DEF FusesInto
<1>3. PICK n, order : n = Len(keys) /\ order = FusedOrder(keys, <<a, b>>)
  OBVIOUS
<1>4. /\ n \in Nat /\ Len(all) = n /\ g \in [1 .. n -> 1 .. n]
      /\ \A i \in 1 .. n : \E m \in 1 .. n : g[m] = i
      /\ \A i, j \in 1 .. n : g[i] = g[j] => i = j
      /\ \A i, j \in 1 .. n : <<g[i], g[j]>> \in order => i < j
      /\ \A i \in 1 .. n : all[i] = keys[g[i]]
  <2>1. n \in Nat
    BY <1>2, <1>3
  <2> QED
    BY <1>2, <1>3, <2>1 DEF Sorts
<1>5. /\ DOMAIN keys = 1 .. n
      /\ \A i, j \in 1 .. n : <<i, j>> \in order <=> Fused(keys[i], <<a, b>>) > Fused(keys[j], <<a, b>>)
  <2>1. DOMAIN keys = 1 .. n
    BY <1>2, <1>3
  <2>2. \A i, j \in DOMAIN keys : <<i, j>> \in FusedOrder(keys, <<a, b>>)
                                    <=> Fused(keys[i], <<a, b>>) > Fused(keys[j], <<a, b>>)
    BY <1>2, FusedOrdered
  <2> QED
    BY <1>3, <2>1, <2>2
<1>6. PICK c : c = Least2(limit, n)
  OBVIOUS
<1>7. list \in Seq(X) /\ Len(list) = c /\ c \in 0 .. n /\ \A i \in 1 .. c : i \in 1 .. n /\ list[i] = all[i]
  <2>1. /\ Take(all, limit) \in Seq(X) /\ Len(Take(all, limit)) = Least2(limit, Len(all))
        /\ Least2(limit, Len(all)) \in 0 .. Len(all)
        /\ \A i \in 1 .. Least2(limit, Len(all)) : i \in 1 .. Len(all) /\ Take(all, limit)[i] = all[i]
    BY <1>2, TakeIsPrefix
  <2> QED
    BY <1>2, <1>4, <1>6, <2>1
<1>8. \A i, j \in 1 .. c : list[i] = list[j] => i = j
  <2> SUFFICES ASSUME NEW i \in 1 .. c, NEW j \in 1 .. c, list[i] = list[j] PROVE i = j
    OBVIOUS
  <2>1. PICK p, q : p = g[i] /\ q = g[j]
    OBVIOUS
  <2>2. p \in 1 .. n /\ q \in 1 .. n /\ keys[p] = keys[q] /\ i \in 1 .. n /\ j \in 1 .. n
    BY <1>4, <1>7, <2>1
  <2>3. p = q
    BY <1>2, <1>3, <2>2
  <2>4. g[i] = g[j] /\ i \in 1 .. n /\ j \in 1 .. n
    BY <2>1, <2>2, <2>3
  <2> QED
    BY <1>4, <2>4
<1>9. PICK i \in 1 .. n : keys[i] = k
  BY <1>2, <1>3
<1>10. PICK m \in 1 .. n : g[m] = i
  BY <1>4
<1>11. PICK p \in 1 .. c : list[p] = l
  <2>1. DOMAIN list = 1 .. c
    BY <1>7
  <2> QED
    BY <2>1 DEF ToSet
<1>12. PICK j \in 1 .. n : j = g[p] /\ keys[j] = l /\ p \in 1 .. n
  <2>1. p \in 1 .. n /\ all[p] = l
    BY <1>7, <1>11
  <2>2. g[p] \in 1 .. n /\ keys[g[p]] = l
    BY <1>4, <2>1
  <2> QED
    BY <2>1, <2>2
<1>13. <<i, j>> \in order
  BY <1>5, <1>9, <1>12
<1>14. m < p
  BY <1>4, <1>10, <1>12, <1>13
<1>15. m \in 1 .. c /\ list[m] = k
  <2>1. m \in 1 .. c
    BY <1>7, <1>14
  <2>2. list[m] = keys[g[m]]
    BY <1>4, <1>7, <2>1
  <2> QED
    BY <1>9, <1>10, <2>1, <2>2
<1>16. k \in ToSet(list)
  <2>1. DOMAIN list = 1 .. c
    BY <1>7
  <2> QED
    BY <1>15, <2>1 DEF ToSet
<1>17. PICK r, s : r = RankOf(k, list) /\ s = RankOf(l, list)
  OBVIOUS
<1>18. r \in 1 .. c /\ list[r] = k
  BY <1>7, <1>16, <1>17, RankIs
<1>19. s \in 1 .. c /\ list[s] = l
  BY <1>7, <1>17, RankIs
<1>20. r = m /\ s = p
  BY <1>8, <1>11, <1>15, <1>18, <1>19
<1> QED
  BY <1>14, <1>16, <1>17, <1>20

\* What is fused was in one of the lists.
LEMMA FusedFrom ==
  ASSUME NEW X, NEW a \in Seq(X), NEW b \in Seq(X), NEW limit \in Nat,
         NEW list, list = Fuse(<<a, b>>, limit), NEW l \in ToSet(list)
  PROVE  l \in ToSet(a) \/ l \in ToSet(b)
<1>1. PICK T : T = ToSet(a) \union ToSet(b)
  OBVIOUS
<1>2. a \in Seq(T) /\ b \in Seq(T)
  <2>1. \A i \in 1 .. Len(a) : a[i] \in ToSet(a)
    BY DEF ToSet
  <2>2. \A i \in 1 .. Len(b) : b[i] \in ToSet(b)
    BY DEF ToSet
  <2>3. a \in [1 .. Len(a) -> T] /\ b \in [1 .. Len(b) -> T]
    BY <1>1, <2>1, <2>2
  <2>4. Len(a) \in Nat /\ Len(b) \in Nat
    OBVIOUS
  <2>5. \A n \in Nat : \A f \in [1 .. n -> T] : f \in Seq(T)
    OBVIOUS
  <2> QED
    BY <2>3, <2>4, <2>5
<1>3. list \in Seq(T)
  BY <1>2, FuseTyped
<1>4. \E i \in 1 .. Len(list) : list[i] = l
  <2>1. DOMAIN list = 1 .. Len(list)
    BY <1>3
  <2> QED
    BY <2>1 DEF ToSet
<1>5. l \in T
  BY <1>3, <1>4
<1> QED
  BY <1>1, <1>5

\* The list of one ranking that a hybrid search takes its answer from.
Pool(doc, scores, count) == Best(doc, scores, 2 * count)

\* The lists that a hybrid search fuses.
LEMMA HybridLists ==
  ASSUME NEW V, Keyed(V), NEW W, Keyed(W), NEW vector \in [V -> Int], NEW keyword \in [W -> Int],
         NEW doc \in Docs, Visible(doc), NEW count \in Nat, count <= 1900,
         NEW a, a = Pool(doc, vector, count), NEW b, b = Pool(doc, keyword, count),
         NEW T, T = KeysOf(V, doc) \union KeysOf(W, doc)
  PROVE  /\ a \in Seq(T) /\ b \in Seq(T) /\ Len(a) <= 3800 /\ Len(b) <= 3800
         /\ \A k \in T : k = <<doc, k[2]>>
<1>1. PICK limit \in Nat : limit = 2 * count /\ limit <= 3800
  OBVIOUS
<1>2. Bests(a, KeysOf(V, doc), vector, limit) /\ Bests(b, KeysOf(W, doc), keyword, limit)
  BY <1>1, BestIs DEF Pool
<1>3. /\ a \in Seq(KeysOf(V, doc)) /\ Len(a) = Least2(limit, Cardinality(KeysOf(V, doc)))
      /\ b \in Seq(KeysOf(W, doc)) /\ Len(b) = Least2(limit, Cardinality(KeysOf(W, doc)))
  BY <1>2 DEF Bests
<1>4. Cardinality(KeysOf(V, doc)) \in Nat /\ Cardinality(KeysOf(W, doc)) \in Nat
  BY KeysOrdered
<1>5. Len(a) <= limit /\ Len(b) <= limit
  BY <1>3, <1>4 DEF Least2
<1>6. Len(a) \in Nat /\ Len(b) \in Nat
  BY <1>3
<1>7. Len(a) <= 3800 /\ Len(b) <= 3800
  BY <1>1, <1>5, <1>6
<1>8. a \in Seq(T) /\ b \in Seq(T)
  <2>1. KeysOf(V, doc) \subseteq T /\ KeysOf(W, doc) \subseteq T
    OBVIOUS
  <2> QED
    BY <1>3, <2>1
<1>9. \A k \in T : k = <<doc, k[2]>>
  BY DEF KeysOf, Keyed
<1> QED
  BY <1>7, <1>8, <1>9

\* What a hybrid search of one document answers.
Hybrid(doc, vector, keyword, count) == Hits(doc, vector, keyword, TRUE, count)

\* The hits that a fused list becomes.
HitsFrom(doc, list, lists) ==
  [i \in DOMAIN list |-> [doc |-> doc, index |-> list[i][2], score |-> Fused(list[i], lists)]]

\* The keys of some hits.
HitKeys(hits) == [i \in DOMAIN hits |-> <<hits[i].doc, hits[i].index>>]

\* A hybrid search answers the fused list of its two pools.
LEMMA HybridIs ==
  ASSUME NEW vector, NEW keyword, NEW doc, NEW count
  PROVE  Hybrid(doc, vector, keyword, count)
           = HitsFrom(doc, Fuse(<<Pool(doc, vector, count), Pool(doc, keyword, count)>>, count),
                      <<Pool(doc, vector, count), Pool(doc, keyword, count)>>)
BY Zenon DEF Hits, Hybrid, Pool, HitsFrom

\* The keys of the hits of a list of keys of a document are the list.
LEMMA KeysOfHits ==
  ASSUME NEW T, NEW doc, \A k \in T : k = <<doc, k[2]>>, NEW list \in Seq(T), NEW lists
  PROVE  HitKeys(HitsFrom(doc, list, lists)) = list
<1>1. DOMAIN list = 1 .. Len(list) /\ list = [i \in 1 .. Len(list) |-> list[i]]
  OBVIOUS
<1>2. \A i \in 1 .. Len(list) : list[i] = <<doc, list[i][2]>>
  OBVIOUS
<1>3. ASSUME NEW hits, hits = HitsFrom(doc, list, lists)
      PROVE  HitKeys(hits) = [i \in 1 .. Len(list) |-> list[i]]
  <2>1. hits = [i \in 1 .. Len(list) |-> [doc |-> doc, index |-> list[i][2], score |-> Fused(list[i], lists)]]
    BY <1>1, <1>3, Zenon DEF HitsFrom
  <2>2. \A i \in 1 .. Len(list) : hits[i].doc = doc /\ hits[i].index = list[i][2]
    BY <2>1
  <2>3. DOMAIN hits = 1 .. Len(list)
    BY <2>1
  <2>4. HitKeys(hits) = [i \in 1 .. Len(list) |-> <<hits[i].doc, hits[i].index>>]
    BY <2>3, Zenon DEF HitKeys
  <2> QED
    BY <1>2, <2>2, <2>4
<1> QED
  BY <1>1, <1>3, Zenon

\* A better chunk is ahead of a worse one that is in the fused list.
LEMMA BetterAhead ==
  ASSUME NEW X, NEW a \in Seq(X), NEW b \in Seq(X), Len(a) <= 3800, Len(b) <= 3800, NEW limit \in Nat,
         NEW list, list = Fuse(<<a, b>>, limit), NEW k, NEW l, k # l, l \in ToSet(list),
         AsGood(k, l, a), AsGood(k, l, b)
  PROVE  k \in ToSet(list) /\ RankOf(k, list) < RankOf(l, list)
<1>1. l \in ToSet(a) \/ l \in ToSet(b)
  BY FusedFrom
<1>2. RankOf(l, a) # 0 \/ RankOf(l, b) # 0
  BY <1>1, RankIs
<1>3. k \in ToSet(a) \/ k \in ToSet(b)
  <2>1. RankOf(k, a) # 0 \/ RankOf(k, b) # 0
    BY <1>2 DEF AsGood
  <2> QED
    BY <2>1, RankIs
<1>4. Fused(k, <<a, b>>) > Fused(l, <<a, b>>)
  BY <1>2, BetterFused
<1> QED
  BY <1>3, <1>4, FusedAhead

\* A hybrid search respects both rankings, for any scores and as many chunks as the
\* shares tell apart.
LEMMA FusionAlwaysRespects ==
  ASSUME NEW V, Keyed(V), NEW W, Keyed(W), NEW vector \in [V -> Int], NEW keyword \in [W -> Int],
         NEW doc \in Docs, NEW count \in Nat, count <= 1900
  PROVE  FusionRespects(doc, vector, keyword, count)
<1> DEFINE a == Pool(doc, vector, count)
           b == Pool(doc, keyword, count)
           list == Fuse(<<a, b>>, count)
           hits == Hybrid(doc, vector, keyword, count)
           T == KeysOf(V, doc) \union KeysOf(W, doc)
<1>1. \A hit \in ToSet(hits) : Visible(doc)
  <2>1. \A hybrid \in BOOLEAN : \A hit \in ToSet(Hits(doc, vector, keyword, hybrid, count)) : Visible(doc)
    BY HitsAre
  <2>2. TRUE \in BOOLEAN
    OBVIOUS
  <2> QED
    BY ONLY <2>1, <2>2, Zenon DEF Hybrid, hits
<1>2. hits = HitsFrom(doc, list, <<a, b>>)
  BY ONLY HybridIs, Zenon DEF a, b, list, hits
<1>3. ASSUME Visible(doc)
      PROVE  /\ a \in Seq(T) /\ b \in Seq(T) /\ Len(a) <= 3800 /\ Len(b) <= 3800
             /\ \A k \in T : k = <<doc, k[2]>>
  BY <1>3, HybridLists
<1>4. DOMAIN vector = V
  OBVIOUS
<1> HIDE DEF a, b, hits, T
<1>5. ASSUME Visible(doc)
      PROVE  HitKeys(hits) = list
  <2>1. list \in Seq(T)
    BY <1>3, <1>5, FuseTyped
  <2> HIDE DEF list
  <2> QED
    BY <1>2, <1>3, <1>5, <2>1, KeysOfHits
<1>6. ASSUME NEW k \in V, NEW l \in V, k # l, l \in ToSet(HitKeys(hits)), AsGood(k, l, a), AsGood(k, l, b)
      PROVE  k \in ToSet(HitKeys(hits)) /\ RankOf(k, HitKeys(hits)) < RankOf(l, HitKeys(hits))
  <2>1. Visible(doc)
    <3>1. PICK i \in DOMAIN hits : TRUE
      BY <1>6 DEF ToSet, HitKeys
    <3>2. hits[i] \in ToSet(hits)
      BY <3>1 DEF ToSet
    <3> QED
      BY <1>1, <3>2
  <2>2. HitKeys(hits) = list
    BY <1>5, <2>1
  <2>3. a \in Seq(T) /\ b \in Seq(T) /\ Len(a) <= 3800 /\ Len(b) <= 3800
    BY <1>3, <2>1
  <2> QED
    BY <1>6, <2>2, <2>3, BetterAhead
<1>7. ASSUME NEW k \in V, NEW l \in V, k # l, l \in ToSet(HitKeys(hits)),
             \A n \in 1 .. 2 : AsGood(k, l, <<a, b>>[n])
      PROVE  k \in ToSet(HitKeys(hits)) /\ RankOf(k, HitKeys(hits)) < RankOf(l, HitKeys(hits))
  <2>1. AsGood(k, l, <<a, b>>[1]) /\ AsGood(k, l, <<a, b>>[2])
    BY <1>7
  <2>2. AsGood(k, l, a) /\ AsGood(k, l, b)
    BY <2>1
  <2> QED
    BY <1>6, <1>7, <2>2
<1> QED
  BY ONLY <1>4, <1>7, Zenon DEF FusionRespects, AsGood, Hybrid, Pool, a, b, hits, HitKeys

-----------------------------------------------------------------------------
(* The inputs that the module takes, and what holds of them.               *)

\* A window that may be unset.
Optional == {History!Unset} \union 0 .. History!MaxWindow

\* What the inputs of the settings are.
TakenCall ==
  /\ Of("call") => case.op \in Operations /\ case.outcomes \in [1 .. MaxRetries + 1 -> Outcomes]
  /\ Of("exception") => case.e \in Exceptions
TakenLayers == Of("layers") => Switches(case.item, case.batch, case.env)
TakenHistory ==
  /\ Of("turn") => /\ case.session \in Seq(Nat) /\ case.env \in Int /\ case.floor \in Int
                   /\ case.item \in Optional /\ case.batch \in Optional
  /\ Of("budget") => case.messages \in Seq(Nat) /\ case.max \in Nat \union {History!Unset}
  /\ Of("policy") => case.skip \in BOOLEAN
TakenQuestion ==
  /\ Of("query") => /\ case.apply \in BOOLEAN /\ case.answer \in Seq(Phrases \union {Blank})
                    /\ case.strategy \in {"none", "rewrite", "expand", "stepback"}
  /\ Of("answer") => case.answer \in Seq(Phrases \union {Blank})
  /\ Of("follow_up") => /\ case.policy \in {"never", "gated", "always"} /\ case.history \in BOOLEAN
                        /\ case.shape.refers \in BOOLEAN /\ case.shape.switches \in BOOLEAN
TakenSettings == TakenCall /\ TakenLayers /\ TakenHistory /\ TakenQuestion

\* A stream takes the tokens of a turn, how it ends and where its connection does.
TurnInput(tokens, code, cut, torn, lost) ==
  /\ tokens \in Seq({"hi", "[DONE]"}) /\ code \in Codes /\ cut \in 0 .. 3 * Len(TurnEvents(tokens, code))
  /\ torn \in Tears /\ lost \in BOOLEAN

\* A scope takes the documents that are requested, linked and registered.
ScopeInput(requested, linked, registered) ==
  requested \in Seq(Docs) /\ linked \in Seq(Docs) /\ registered \in Seq(Docs)

\* What a search with several queries takes: the scores of the chunks of documents that may be seen.
SearchInput(docs, queries, count) ==
  \E K : /\ Keyed(K) /\ docs \in Seq(Docs) /\ AllShown(K, docs)
         /\ queries \in Seq([K -> Int]) /\ queries # <<>> /\ count \in Nat \ {0}

\* A hybrid search takes two rankings of a document; with more than 1900 results the
\* floored shares of neighbouring ranks could be equal (routes/chat.py takes 20 at most).
FusionInput(doc, vector, keyword, count) ==
  \E V, W : /\ Keyed(V) /\ Keyed(W) /\ vector \in [V -> Int] /\ keyword \in [W -> Int]
            /\ doc \in Docs /\ count \in Nat /\ count <= 1900

\* The graph takes the seeds of a retrieval and the mentions of chunks.
GraphInput(seeds, mentions, limit) == seeds \in Seq(MentionKeys) /\ Mentioned(mentions) /\ limit \in Nat

\* A reranker takes candidates with ids of their own, and what a vendor answered.
RerankInput(candidates, results, max, top) ==
  /\ candidates \in Seq(Rankable) /\ DistinctIds(candidates) /\ results \in Seq(Scoring)
  /\ max \in Nat /\ top \in Nat

\* A context takes the length of the session part and those of the chunks.
ContextInput(session, chunks, limit) == session \in Nat /\ chunks \in Seq(Nat) /\ limit \in Nat

\* A chunker takes the lengths of the sentences of a block.
BlockInput(lengths, base, size, overlap) ==
  /\ lengths \in Seq(Nat \ {0}) /\ lengths # <<>> /\ base \in Nat /\ size \in Nat \ {0} /\ overlap \in Nat

\* What the inputs of the streams, the searches, the rankings and the records are.
TakenStream ==
  /\ Of("stream") => TurnInput(case.tokens, case.code, case.cut, case.torn, case.lost)
  /\ Of("polls") => case.rows \in [1 .. MaxPolls -> Rows]
TakenScope ==
  /\ Of("scope") => ScopeInput(case.requested, case.linked, case.registered)
  /\ Of("graph") => GraphInput(case.seeds, case.mentions, case.limit)
TakenRanking ==
  /\ Of("search") => SearchInput(case.docs, case.queries, case.count)
  /\ Of("fusion") => FusionInput(case.doc, case.vector, case.keyword, case.count)
  /\ Of("rerank") => RerankInput(case.candidates, case.results, case.max, case.top)
  /\ Of("context") => ContextInput(case.session, case.chunks, case.limit)
TakenRecords ==
  /\ Of("block") => BlockInput(case.lengths, case.base, case.size, case.overlap)
  /\ Of("pages") => case.pages \in Seq(Nat)
  /\ Of("texts") => case.texts \in Seq({"x", "y", "z"})
  /\ Of("batch") => case.failed \in Seq(BOOLEAN)
TakenData == TakenStream /\ TakenScope /\ TakenRanking /\ TakenRecords

\* What every input is.
Taken == TakenSettings /\ TakenData

\* A step that takes an input of another kind says nothing of these.
LEMMA OtherKinds ==
  ASSUME case'.kind \notin {"call", "exception", "layers", "turn", "budget", "policy", "query",
                            "answer", "follow_up"}
  PROVE  TakenSettings'
BY DEF TakenSettings, TakenCall, TakenLayers, TakenHistory, TakenQuestion, Of

\* The sequences that are taken.
LEMMA TakenSequences ==
  /\ \A s \in Sessions : s \in Seq(Nat)
  /\ \A a \in Answers : a \in Seq(Phrases \union {Blank})
<1>1. ASSUME NEW s \in Sessions PROVE s \in Seq(Nat)
  <2>1. PICK n \in 0 .. 5 : s \in [1 .. n -> 0 .. 2]
    BY DEF Sessions
  <2> QED
    BY <2>1
<1>2. ASSUME NEW a \in Answers PROVE a \in Seq(Phrases \union {Blank})
  <2>1. PICK n \in 0 .. 4 : a \in [1 .. n -> Phrases \union {Blank}]
    BY DEF Answers
  <2> QED
    BY <2>1
<1> QED
  BY <1>1, <1>2

\* `enabled` is a boolean wherever the layers that are taken give it.
LEMMA LayersSwitch ==
  ASSUME NEW item \in Layers, NEW batch \in Layers, NEW env, env.enabled \in BOOLEAN
  PROVE  Switches(item, batch, env)
<1>1. \A fields \in Config!FieldSets : "enabled" \in DOMAIN fields => fields["enabled"] \in BOOLEAN
  BY DEF Config!FieldSets, Config!NoFields
<1>2. PICK preset : preset = IF item.preset # Config!NoPreset THEN item.preset ELSE batch.preset
  OBVIOUS
<1>3. preset = Config!NoPreset \/ preset \in DOMAIN Config!Presets
  BY <1>2 DEF Layers
<1>4. ASSUME "enabled" \in DOMAIN Config!PresetFields(preset)
      PROVE  Config!PresetFields(preset)["enabled"] \in BOOLEAN
  <2>1. CASE preset = Config!NoPreset
    BY <1>4, <2>1 DEF Config!PresetFields, Config!NoFields
  <2>2. CASE preset # Config!NoPreset
    <3>1. preset = "fast" \/ preset = "deep"
      BY <1>3, <2>2 DEF Config!Presets
    <3>2. Config!PresetFields(preset) = Config!Presets[preset]
      BY <2>2 DEF Config!PresetFields
    <3>3. Config!Presets["fast"].enabled = FALSE /\ Config!Presets["deep"].enabled = TRUE
      BY DEF Config!Presets
    <3> QED
      BY <3>1, <3>2, <3>3
  <2> QED
    BY <2>1, <2>2
<1>5. PICK places : places = Config!Precedence(item, batch)
  OBVIOUS
<1>6. /\ places[1] = item.top /\ places[2] = item.nested /\ places[3] = batch.top
      /\ places[4] = batch.nested /\ places[5] = Config!PresetFields(preset)
  BY <1>2, <1>5 DEF Config!Precedence
<1>7. {item.top, item.nested, batch.top, batch.nested} \subseteq Config!FieldSets
  BY DEF Layers
<1>8. ASSUME NEW i \in 1 .. 5, "enabled" \in DOMAIN places[i] PROVE places[i]["enabled"] \in BOOLEAN
  <2>1. i = 1 \/ i = 2 \/ i = 3 \/ i = 4 \/ i = 5
    OBVIOUS
  <2>2. CASE i = 5
    BY <1>4, <1>6, <1>8, <2>2
  <2>3. CASE i # 5
    BY <1>1, <1>6, <1>7, <1>8, <2>1, <2>3
  <2> QED
    BY <2>2, <2>3
<1> QED
  BY <1>5, <1>8 DEF Switches

\* A set of two elements is finite.
LEMMA TwoElementsFinite ==
  ASSUME NEW a, NEW b
  PROVE  IsFiniteSet({a, b})
<1>1. {a, b} = {a} \union {b}
  OBVIOUS
<1>2. IsFiniteSet({a}) /\ IsFiniteSet({b})
  BY FS_Singleton
<1> QED
  BY <1>1, <1>2, FS_Union

\* The streams that are taken.
LEMMA TurnsTaken ==
  ASSUME TakeStream
  PROVE  case'.kind = "stream" /\ TurnInput(case'.tokens, case'.code, case'.cut, case'.torn, case'.lost)
<1>1. PICK tokens \in UNION {[1 .. n -> {"hi", "[DONE]"}] : n \in 0 .. 2}, code \in Codes,
           cut \in 0 .. 12, torn \in Tears, lost \in BOOLEAN :
        /\ cut <= 3 * Len(TurnEvents(tokens, code))
        /\ case' = [kind |-> "stream", tokens |-> tokens, code |-> code, cut |-> cut, torn |-> torn,
                    lost |-> lost]
  BY Zenon DEF TakeStream
<1>2. tokens \in Seq({"hi", "[DONE]"})
  <2>1. PICK n \in 0 .. 2 : tokens \in [1 .. n -> {"hi", "[DONE]"}]
    OBVIOUS
  <2> QED
    BY <2>1
<1>3. PICK length : length = Len(TurnEvents(tokens, code))
  OBVIOUS
<1>4. length \in Nat
  <2>1. Len(TurnEvents(tokens, code)) = IF code = "none" THEN Len(tokens) + 2 ELSE Len(tokens) + 1
    BY <1>2, TurnEventIs
  <2>2. Len(tokens) \in Nat
    BY <1>2
  <2> QED
    BY <1>3, <2>1, <2>2
<1>5. cut \in 0 .. 3 * length
  BY <1>1, <1>3, <1>4
<1>6. TurnInput(tokens, code, cut, torn, lost)
  BY <1>2, <1>3, <1>5 DEF TurnInput
<1>7. /\ case'.kind = "stream" /\ case'.tokens = tokens /\ case'.code = code /\ case'.cut = cut
      /\ case'.torn = torn /\ case'.lost = lost
  BY <1>1
<1> QED
  BY <1>6, <1>7

\* The lists of up to two documents.
LEMMA ListsOfDocs ==
  ASSUME NEW docs, docs \subseteq Docs, NEW s \in ListsOf(docs)
  PROVE  s \in Seq(Docs)
<1>1. PICK n \in 0 .. 2 : s \in [1 .. n -> docs]
  BY DEF ListsOf
<1> QED
  BY <1>1

\* The scopes that are taken.
LEMMA ScopesTaken ==
  ASSUME TakeScope
  PROVE  case'.kind = "scope" /\ ScopeInput(case'.requested, case'.linked, case'.registered)
<1>1. PICK scope \in {"session", "tenant"}, requested \in ListsOf(Docs), linked \in ListsOf(Own),
           registered \in ListsOf(Own), filter \in {NoFilter, {"legal"}, {"legal", "hr"}} :
        case' = [kind |-> "scope", scope |-> scope, requested |-> requested, linked |-> linked,
                 registered |-> registered, filter |-> filter]
  BY DEF TakeScope
<1>2. Own \subseteq Docs /\ Docs \subseteq Docs
  BY DEF Own
<1>3. ScopeInput(requested, linked, registered)
  BY <1>2, ListsOfDocs DEF ScopeInput
<1>4. /\ case'.kind = "scope" /\ case'.requested = requested /\ case'.linked = linked
      /\ case'.registered = registered
  BY <1>1
<1> QED
  BY <1>3, <1>4

\* The documents that are shown, in the order of their ids.
LEMMA ShownInOrder ==
  /\ InOrder(Shown, ById) \in Seq(Docs)
  /\ \A d \in Shown : d \in ToSet(InOrder(Shown, ById))
<1>1. Shown \subseteq Docs /\ IsFiniteSet(Docs)
  BY DocsAreOrdered DEF Shown
<1>2. IsFiniteSet(Shown)
  BY <1>1, FS_Subset
<1>3. StrictOrder(Shown, ById)
  <2>1. \A d, e \in Shown : <<d, e>> \in ById <=> DocOrder[d] < DocOrder[e]
    BY <1>1 DEF ById
  <2>2. /\ \A d \in Shown : DocOrder[d] \in Nat
        /\ \A d, e \in Shown : DocOrder[d] = DocOrder[e] => d = e
    BY <1>1, DocsAreOrdered
  <2> QED
    BY <2>1, <2>2 DEF StrictOrder
<1>4. PICK f, n : f = InOrder(Shown, ById) /\ n = Cardinality(Shown)
  OBVIOUS
<1>5. n \in Nat /\ Enumerates(f, Shown, ById)
  BY <1>2, <1>3, <1>4, InOrderLists
<1>6. f \in [1 .. n -> Shown] /\ \A d \in Shown : \E i \in 1 .. n : f[i] = d
  BY <1>4, <1>5 DEF Enumerates
<1>7. f \in Seq(Docs)
  BY <1>1, <1>5, <1>6
<1>8. \A d \in Shown : d \in ToSet(f)
  <2>1. DOMAIN f = 1 .. n
    BY <1>6
  <2> QED
    BY <1>6, <2>1 DEF ToSet
<1> QED
  BY <1>4, <1>7, <1>8

\* The searches that are taken.
LEMMA SearchesTaken ==
  ASSUME TakeSearch
  PROVE  case'.kind = "search" /\ SearchInput(case'.docs, case'.queries, case'.count)
<1>1. PICK first \in Scores, second \in Scores, single \in BOOLEAN, count \in 1 .. 3 :
        case' = [kind |-> "search", count |-> count, docs |-> InOrder(Shown, ById),
                 queries |-> IF single THEN <<first>> ELSE <<first, second>>]
  BY DEF TakeSearch
<1>2. PICK K : K = Shown \X {0, 1}
  OBVIOUS
<1>3. PICK docs : docs = InOrder(Shown, ById)
  OBVIOUS
<1>4. docs \in Seq(Docs) /\ AllShown(K, docs)
  <2>1. \A k \in K : k[1] \in Shown
    BY <1>2
  <2>2. \A d \in Shown : Visible(d)
    BY DEF Shown
  <2> QED
    BY <1>3, <2>1, <2>2, ShownInOrder DEF AllShown
<1>5. Keyed(K)
  <2>1. Shown \subseteq Docs /\ IsFiniteSet(Docs)
    BY DocsAreOrdered DEF Shown
  <2>2. IsFiniteSet(Shown)
    BY <2>1, FS_Subset
  <2>3. IsFiniteSet({0, 1})
    BY TwoElementsFinite
  <2>4. IsFiniteSet(K)
    BY <1>2, <2>2, <2>3, FS_Product
  <2>5. K \subseteq Docs \X Nat
    BY <1>2, <2>1
  <2> QED
    BY <2>4, <2>5 DEF Keyed
<1>6. PICK queries : queries = IF single THEN <<first>> ELSE <<first, second>>
  OBVIOUS
<1>7. queries \in Seq([K -> Int]) /\ queries # <<>>
  <2>1. first \in [K -> Int] /\ second \in [K -> Int]
    BY <1>2 DEF Scores
  <2>2. CASE single
    <3>1. queries = <<first>>
      BY <1>6, <2>2
    <3> QED
      BY <2>1, <3>1
  <2>3. CASE ~single
    <3>1. queries = <<first, second>>
      BY <1>6, <2>3
    <3> QED
      BY <2>1, <3>1
  <2> QED
    BY <2>2, <2>3
<1>8. count \in Nat \ {0}
  OBVIOUS
<1>9. SearchInput(docs, queries, count)
  BY <1>4, <1>5, <1>7, <1>8 DEF SearchInput
<1>10. case' = [kind |-> "search", count |-> count, docs |-> docs, queries |-> queries]
  BY <1>1, <1>3, <1>6
<1>11. case'.kind = "search" /\ case'.docs = docs /\ case'.queries = queries /\ case'.count = count
  BY <1>10
<1> QED
  BY <1>9, <1>11

\* The hybrid searches that are taken.
LEMMA FusionsTaken ==
  ASSUME TakeFusion
  PROVE  case'.kind = "fusion" /\ FusionInput(case'.doc, case'.vector, case'.keyword, case'.count)
<1>1. PICK doc \in Shown, tied \in BOOLEAN, count \in 1 .. 2 :
        \E matched \in SUBSET ({doc} \X (0 .. 3)) :
          \E keyword \in [matched -> 1 .. 3] :
            case' = [kind |-> "fusion", doc |-> doc, keyword |-> keyword, count |-> count,
                     vector |-> [k \in {doc} \X (0 .. 3) |-> IF tied THEN 1 ELSE 4 - k[2]]]
  BY DEF TakeFusion
<1>2. PICK V : V = {doc} \X (0 .. 3)
  OBVIOUS
<1>3. PICK vector : vector = [k \in V |-> IF tied THEN 1 ELSE 4 - k[2]]
  OBVIOUS
<1>4. PICK W \in SUBSET V : \E keyword \in [W -> 1 .. 3] :
        case' = [kind |-> "fusion", doc |-> doc, keyword |-> keyword, count |-> count, vector |-> vector]
  BY <1>1, <1>2, <1>3
<1>5. PICK keyword \in [W -> 1 .. 3] :
        case' = [kind |-> "fusion", doc |-> doc, keyword |-> keyword, count |-> count, vector |-> vector]
  BY <1>4
<1>6. doc \in Docs
  BY DEF Shown
<1>7. Keyed(V) /\ Keyed(W)
  <2>1. IsFiniteSet({doc})
    BY FS_Singleton
  <2>2. IsFiniteSet(0 .. 3)
    BY FS_Interval, 0 \in Int, 3 \in Int
  <2>3. IsFiniteSet(V)
    BY <1>2, <2>1, <2>2, FS_Product
  <2>4. IsFiniteSet(W)
    BY <2>3, FS_Subset
  <2>5. V \subseteq Docs \X Nat
    BY <1>2, <1>6
  <2>6. W \subseteq Docs \X Nat
    BY <2>5
  <2> QED
    BY <2>3, <2>4, <2>5, <2>6 DEF Keyed
<1>8. vector \in [V -> Int]
  <2>1. \A k \in V : k[2] \in Int
    BY <1>2
  <2>2. \A k \in V : (IF tied THEN 1 ELSE 4 - k[2]) \in Int
    BY <2>1
  <2> QED
    BY <1>3, <2>2
<1>9. keyword \in [W -> Int] /\ count \in Nat /\ count <= 1900
  OBVIOUS
<1>10. FusionInput(doc, vector, keyword, count)
  BY <1>6, <1>7, <1>8, <1>9 DEF FusionInput
<1>11. /\ case'.kind = "fusion" /\ case'.doc = doc /\ case'.vector = vector /\ case'.keyword = keyword
       /\ case'.count = count
  BY <1>5
<1> QED
  BY <1>10, <1>11

\* The seeds and mentions that are taken.
LEMMA GraphsTaken ==
  ASSUME TakeGraph
  PROVE  case'.kind = "graph" /\ GraphInput(case'.seeds, case'.mentions, case'.limit)
<1>1. PICK mentions \in SUBSET ({1, 2} \X GraphChunks), relations \in {{}, {<<1, 2>>, <<2, 1>>}},
           seeds \in {<<>>, <<<<1, 0>>>>}, limit \in 1 .. 2 :
        case' = [kind |-> "graph", mentions |-> mentions, relations |-> relations, seeds |-> seeds,
                 limit |-> limit]
  BY DEF TakeGraph
<1>2. GraphChunks \subseteq MentionKeys /\ <<1, 0>> \in MentionKeys
  BY DEF GraphChunks, MentionKeys
<1>3. Mentioned(mentions)
  <2>1. PICK all : all = {1, 2} \X GraphChunks
    OBVIOUS
  <2>2. IsFiniteSet({1, 2})
    BY TwoElementsFinite
  <2>3. IsFiniteSet(GraphChunks)
    <3>1. IsFiniteSet({<<1, 0>>, <<1, 1>>}) /\ IsFiniteSet({<<2, 0>>, <<3, 0>>})
      BY TwoElementsFinite
    <3>2. GraphChunks = {<<1, 0>>, <<1, 1>>} \union {<<2, 0>>, <<3, 0>>}
      BY DEF GraphChunks
    <3> QED
      BY <3>1, <3>2, FS_Union
  <2>4. IsFiniteSet(all)
    BY <2>1, <2>2, <2>3, FS_Product
  <2>5. mentions \subseteq all
    BY <2>1
  <2>6. IsFiniteSet(mentions)
    BY <2>4, <2>5, FS_Subset
  <2>7. all \subseteq Int \X MentionKeys
    BY <1>2, <2>1
  <2> QED
    BY <2>5, <2>6, <2>7 DEF Mentioned
<1>4. seeds \in Seq(MentionKeys)
  <2>1. PICK seed : seed = <<1, 0>>
    OBVIOUS
  <2>2. seed \in MentionKeys /\ (seeds = <<>> \/ seeds = <<seed>>)
    BY <1>2, <2>1
  <2>3. ASSUME NEW T, NEW x \in T PROVE <<x>> \in Seq(T) /\ <<>> \in Seq(T)
    OBVIOUS
  <2>4. <<seed>> \in Seq(MentionKeys) /\ <<>> \in Seq(MentionKeys)
    BY <2>2, <2>3
  <2> QED
    BY <2>2, <2>4
<1>5. GraphInput(seeds, mentions, limit)
  BY <1>3, <1>4 DEF GraphInput
<1>6. case'.kind = "graph" /\ case'.seeds = seeds /\ case'.mentions = mentions /\ case'.limit = limit
  BY <1>1
<1> QED
  BY <1>5, <1>6

\* The candidates and results that are taken.
LEMMA RerankingsTaken ==
  ASSUME TakeRerank
  PROVE  case'.kind = "rerank" /\ RerankInput(case'.candidates, case'.results, case'.max, case'.top)
<1>1. PICK provider \in {"off", "similarity", "cohere"}, scores \in Ranked, results \in Results,
           max \in 1 .. 3, top \in 1 .. 3 :
        case' = [kind |-> "rerank", provider |-> provider, results |-> results, max |-> max, top |-> top,
                 candidates |-> [i \in DOMAIN scores |->
                   [id |-> i, score |-> scores[i].score, lexical |-> scores[i].lexical]]]
  BY DEF TakeRerank
<1>2. PICK candidates : candidates = [i \in DOMAIN scores |->
                          [id |-> i, score |-> scores[i].score, lexical |-> scores[i].lexical]]
  OBVIOUS
<1>3. PICK n \in 0 .. 3 : scores \in [1 .. n -> [score : 0 .. 2, lexical : 0 .. 1]]
  BY DEF Ranked
<1>4. \A i \in 1 .. n : candidates[i] \in Rankable /\ candidates[i].id = i
  <2> SUFFICES ASSUME NEW i \in 1 .. n PROVE candidates[i] \in Rankable /\ candidates[i].id = i
    OBVIOUS
  <2>1. scores[i] \in [score : 0 .. 2, lexical : 0 .. 1] /\ DOMAIN scores = 1 .. n
    BY <1>3
  <2>2. scores[i].score \in Int /\ scores[i].lexical \in Int /\ i \in Int
    BY <2>1
  <2>3. candidates[i] = [id |-> i, score |-> scores[i].score, lexical |-> scores[i].lexical]
    BY <1>2, <2>1
  <2> QED
    BY <2>2, <2>3 DEF Rankable
<1>5. DOMAIN candidates = 1 .. n
  BY <1>2, <1>3
<1>6. candidates = [i \in 1 .. n |-> candidates[i]]
  BY <1>2, <1>5
<1>7. candidates \in [1 .. n -> Rankable]
  BY <1>4, <1>6
<1>8. candidates \in Seq(Rankable) /\ Len(candidates) = n
  BY <1>7
<1>9. DistinctIds(candidates)
  BY <1>4, <1>8 DEF DistinctIds
<1>10. results \in Seq(Scoring)
  <2>1. PICK m \in 0 .. 2 : results \in [1 .. m -> [index : 0 .. 4, score : 0 .. 1]]
    BY DEF Results
  <2>2. [index : 0 .. 4, score : 0 .. 1] \subseteq Scoring
    BY DEF Scoring
  <2>3. results \in [1 .. m -> Scoring]
    BY <2>1, <2>2
  <2> QED
    BY <2>3
<1>11. RerankInput(candidates, results, max, top)
  BY <1>8, <1>9, <1>10 DEF RerankInput
<1>12. case' = [kind |-> "rerank", provider |-> provider, results |-> results, max |-> max, top |-> top,
                candidates |-> candidates]
  BY <1>1, <1>2
<1>13. /\ case'.kind = "rerank" /\ case'.candidates = candidates /\ case'.results = results
       /\ case'.max = max /\ case'.top = top
  BY <1>12
<1> QED
  BY <1>11, <1>13

\* The contexts that are taken.
LEMMA ContextsTaken ==
  ASSUME TakeContext
  PROVE  case'.kind = "context" /\ ContextInput(case'.session, case'.chunks, case'.limit)
<1>1. PICK session \in 0 .. 3, chunks \in UNION {[1 .. n -> 1 .. 3] : n \in 0 .. 3}, limit \in 0 .. 8 :
        case' = [kind |-> "context", session |-> session, chunks |-> chunks, limit |-> limit]
  BY DEF TakeContext
<1>2. PICK n \in 0 .. 3 : chunks \in [1 .. n -> 1 .. 3]
  OBVIOUS
<1>3. chunks \in Seq(Nat)
  BY <1>2
<1>4. ContextInput(session, chunks, limit)
  BY <1>3 DEF ContextInput
<1>5. case'.kind = "context" /\ case'.session = session /\ case'.chunks = chunks /\ case'.limit = limit
  BY <1>1
<1> QED
  BY <1>4, <1>5

\* The blocks that are taken.
LEMMA BlocksTaken ==
  ASSUME TakeBlock
  PROVE  case'.kind = "block" /\ BlockInput(case'.lengths, case'.base, case'.size, case'.overlap)
<1>1. PICK lengths \in UNION {[1 .. n -> 1 .. 4] : n \in 1 .. 4}, base \in {0, 3}, size \in 1 .. 6,
           overlap \in 0 .. 3 :
        case' = [kind |-> "block", lengths |-> lengths, base |-> base, size |-> size, overlap |-> overlap]
  BY DEF TakeBlock
<1>2. PICK n \in 1 .. 4 : lengths \in [1 .. n -> 1 .. 4]
  OBVIOUS
<1>3. lengths \in Seq(Nat \ {0}) /\ Len(lengths) = n
  BY <1>2
<1>4. lengths # <<>>
  BY <1>3
<1>5. BlockInput(lengths, base, size, overlap)
  BY <1>3, <1>4 DEF BlockInput
<1>6. case'.kind = "block" /\ case'.lengths = lengths /\ case'.base = base /\ case'.size = size
      /\ case'.overlap = overlap
  BY <1>1
<1> QED
  BY <1>5, <1>6

\* The polls, pages, texts and batches that are taken.
LEMMA RecordsTaken ==
  /\ TakePolls => case'.kind = "polls" /\ case'.rows \in [1 .. MaxPolls -> Rows]
  /\ TakePages => case'.kind = "pages" /\ case'.pages \in Seq(Nat)
  /\ TakeTexts => case'.kind = "texts" /\ case'.texts \in Seq({"x", "y", "z"})
  /\ TakeBatch => case'.kind = "batch" /\ case'.failed \in Seq(BOOLEAN)
<1>1. ASSUME TakePolls PROVE case'.kind = "polls" /\ case'.rows \in [1 .. MaxPolls -> Rows]
  <2>1. PICK rows \in [1 .. MaxPolls -> Rows] : case' = [kind |-> "polls", rows |-> rows]
    BY <1>1 DEF TakePolls
  <2> QED
    BY <2>1
<1>2. ASSUME TakePages PROVE case'.kind = "pages" /\ case'.pages \in Seq(Nat)
  <2>1. PICK pages \in UNION {[1 .. n -> 0 .. 3] : n \in 0 .. 4} : case' = [kind |-> "pages", pages |-> pages]
    BY <1>2 DEF TakePages
  <2>2. PICK n \in 0 .. 4 : pages \in [1 .. n -> 0 .. 3]
    OBVIOUS
  <2>3. pages \in Seq(Nat)
    BY <2>2
  <2> QED
    BY <2>1, <2>3
<1>3. ASSUME TakeTexts PROVE case'.kind = "texts" /\ case'.texts \in Seq({"x", "y", "z"})
  <2>1. PICK texts \in UNION {[1 .. n -> {"x", "y", "z"}] : n \in 0 .. 5}, cached \in SUBSET {"x", "y", "z"} :
          case' = [kind |-> "texts", texts |-> texts, cached |-> cached]
    BY <1>3 DEF TakeTexts
  <2>2. PICK n \in 0 .. 5 : texts \in [1 .. n -> {"x", "y", "z"}]
    OBVIOUS
  <2>3. texts \in Seq({"x", "y", "z"})
    BY <2>2
  <2> QED
    BY <2>1, <2>3
<1>4. ASSUME TakeBatch PROVE case'.kind = "batch" /\ case'.failed \in Seq(BOOLEAN)
  <2>1. PICK failed \in UNION {[1 .. n -> BOOLEAN] : n \in 1 .. 4} : case' = [kind |-> "batch", failed |-> failed]
    BY <1>4 DEF TakeBatch
  <2>2. PICK n \in 1 .. 4 : failed \in [1 .. n -> BOOLEAN]
    OBVIOUS
  <2>3. failed \in Seq(BOOLEAN)
    BY <2>2
  <2> QED
    BY <2>1, <2>3
<1> QED
  BY <1>1, <1>2, <1>3, <1>4

\* An input of other data says nothing of these.
LEMMA OtherData ==
  ASSUME case'.kind \notin {"stream", "polls", "scope", "graph", "search", "fusion", "rerank", "context",
                            "block", "pages", "texts", "batch"}
  PROVE  TakenData'
BY DEF TakenData, TakenStream, TakenScope, TakenRanking, TakenRecords, Of

\* Every stream, search, ranking and record is as TakenData says.
LEMMA DataTaken ==
  ASSUME TakenData, [Next]_case
  PROVE  TakenData'
<1> USE DEF TakenData, TakenStream, TakenScope, TakenRanking, TakenRecords, Of
<1>1. CASE TakeStream
  BY <1>1, TurnsTaken
<1>2. CASE TakeScope
  BY <1>2, ScopesTaken
<1>3. CASE TakeSearch
  BY <1>3, SearchesTaken
<1>4. CASE TakeFusion
  BY <1>4, FusionsTaken
<1>5. CASE TakeGraph
  BY <1>5, GraphsTaken
<1>6. CASE TakeRerank
  BY <1>6, RerankingsTaken
<1>7. CASE TakeContext
  BY <1>7, ContextsTaken
<1>8. CASE TakeBlock
  BY <1>8, BlocksTaken
<1>9. CASE TakePolls \/ TakePages \/ TakeTexts \/ TakeBatch
  BY <1>9, RecordsTaken
<1>10. CASE TakeCall \/ TakeException \/ TakeLayers \/ TakeTurn \/ TakeBudget \/ TakePolicy
  <2>1. TakeCall => case'.kind = "call"
    BY DEF TakeCall
  <2>2. TakeException => case'.kind = "exception"
    BY DEF TakeException
  <2>3. TakeLayers => case'.kind = "layers"
    BY DEF TakeLayers
  <2>4. TakeTurn => case'.kind = "turn"
    BY DEF TakeTurn
  <2>5. TakeBudget => case'.kind = "budget"
    BY DEF TakeBudget
  <2>6. TakePolicy => case'.kind = "policy"
    BY DEF TakePolicy
  <2> QED
    BY <1>10, <2>1, <2>2, <2>3, <2>4, <2>5, <2>6, OtherData
<1>11. CASE TakeAnswer \/ TakeQuery \/ TakeFollowUp
  BY <1>11, OtherData DEF TakeAnswer, TakeQuery, TakeFollowUp
<1>12. CASE case' = case
  BY <1>12
<1> QED
  BY <1>1, <1>2, <1>3, <1>4, <1>5, <1>6, <1>7, <1>8, <1>9, <1>10, <1>11, <1>12 DEF Next

\* Every input of the settings is as TakenSettings says.
LEMMA SettingsTaken ==
  ASSUME TakenSettings, [Next]_case
  PROVE  TakenSettings'
<1> USE DEF TakenSettings, TakenCall, TakenLayers, TakenHistory, TakenQuestion, Of
<1>1. CASE TakeCall
  BY <1>1 DEF TakeCall
<1>2. CASE TakeException
  BY <1>2 DEF TakeException
<1>3. CASE TakeLayers
  <2>1. PICK item \in Layers, batch \in Layers, enabled \in BOOLEAN :
          case' = [kind |-> "layers", item |-> item, batch |-> batch,
                   env |-> [enabled |-> enabled, strategy |-> "expand"]]
    BY <1>3 DEF TakeLayers
  <2>2. case'.item = item /\ case'.batch = batch /\ case'.env.enabled = enabled /\ case'.kind = "layers"
    BY <2>1
  <2>3. Switches(case'.item, case'.batch, case'.env)
    BY <2>2, LayersSwitch
  <2> QED
    BY <2>2, <2>3
<1>4. CASE TakeTurn
  <2>1. PICK n \in 0 .. 5, item \in -1 .. 3, batch \in -1 .. 3, env \in -1 .. 5, floor \in {-1, 0, 2, 6} :
          case' = [kind |-> "turn", session |-> [i \in 1 .. n |-> i], item |-> item, batch |-> batch,
                   env |-> env, floor |-> floor]
    BY <1>4, Zenon DEF TakeTurn
  <2>2. [i \in 1 .. n |-> i] \in Seq(Nat)
    OBVIOUS
  <2>3. item \in Optional /\ batch \in Optional /\ env \in Int /\ floor \in Int
    BY DEF Optional, History!Unset, History!MaxWindow
  <2> QED
    BY <2>1, <2>2, <2>3
<1>5. CASE TakeBudget
  <2>1. PICK messages \in Sessions, max \in {-1} \union 1 .. 5 :
          case' = [kind |-> "budget", messages |-> messages, max |-> max]
    BY <1>5 DEF TakeBudget
  <2>2. messages \in Seq(Nat) /\ max \in Nat \union {History!Unset}
    BY TakenSequences DEF History!Unset
  <2> QED
    BY <2>1, <2>2
<1>6. CASE TakePolicy
  BY <1>6 DEF TakePolicy
<1>7. CASE TakeAnswer
  BY <1>7, TakenSequences DEF TakeAnswer
<1>8. CASE TakeQuery
  BY <1>8, TakenSequences DEF TakeQuery
<1>9. CASE TakeFollowUp
  BY <1>9 DEF TakeFollowUp, Questions
<1>10. CASE TakeStream \/ TakePolls \/ TakeScope \/ TakeSearch \/ TakeFusion \/ TakeGraph
  BY <1>10, TurnsTaken, RecordsTaken, ScopesTaken, SearchesTaken, FusionsTaken, GraphsTaken, OtherKinds
<1>11. CASE TakeRerank \/ TakeContext \/ TakeBatch \/ TakeBlock \/ TakePages \/ TakeTexts
  BY <1>11, RerankingsTaken, ContextsTaken, RecordsTaken, BlocksTaken, OtherKinds
<1>12. CASE case' = case
  BY <1>12
<1> QED
  BY <1>1, <1>2, <1>3, <1>4, <1>5, <1>6, <1>7, <1>8, <1>9, <1>10, <1>11, <1>12 DEF Next

\* Every input is as Taken says.
LEMMA TakenInput == Spec => []Taken
<1>1. Init => Taken
  <2>1. Init => case.kind = "none"
    BY DEF Init
  <2>2. case.kind = "none" => TakenSettings
    BY DEF TakenSettings, TakenCall, TakenLayers, TakenHistory, TakenQuestion, Of
  <2>3. case.kind = "none" => TakenData
    BY DEF TakenData, TakenStream, TakenScope, TakenRanking, TakenRecords, Of
  <2> QED
    BY <2>1, <2>2, <2>3 DEF Taken
<1>2. Taken /\ [Next]_case => Taken'
  BY SettingsTaken, DataTaken DEF Taken
<1> QED
  BY <1>1, <1>2, PTL DEF Spec

-----------------------------------------------------------------------------
(* The theorems.                                                           *)

\* db/__init__ and utils/retry: a call's own retries insert nothing twice, mask the
\* transient faults of what is safe to repeat, and are not made after a permanent
\* error, whatever becomes of its attempts.
THEOREM CallsAlwaysSafe ==
  /\ \A op \in Operations, outcomes \in [1 .. MaxRetries + 1 -> Outcomes] :
       InsertsOnce(op, outcomes) /\ FaultsMasked(op, outcomes)
  /\ \A e \in Exceptions : PermanentNotRetried(e)
  /\ Spec => []CallsAreSafe
<1>1. Taken => CallsAreSafe
  BY CallInsertsOnce, CallFaultsMasked, PermanentIsFinal DEF Taken, TakenSettings, TakenCall, CallsAreSafe
<1>2. Spec => []CallsAreSafe
  BY <1>1, TakenInput, PTL
<1> QED
  BY <1>2, CallInsertsOnce, CallFaultsMasked, PermanentIsFinal

\* retrieval_config and query_service: whatever the layers hold, a field is that of
\* the first place that gives it, and a strategy runs exactly when it is wanted.
THEOREM FieldsFollowLayers ==
  /\ \A item, batch, env : Config!LayersRespected(item, batch, env)
  /\ \A item, batch, env :
       Switches(item, batch, env) => Config!TransformationRuns(item, batch, env)
  /\ Spec => []ConfigFollowsLayers
<1>1. Taken => ConfigFollowsLayers
  BY FieldFromFirstPlace, StrategyRunsWhenWanted DEF Taken, TakenSettings, TakenLayers, ConfigFollowsLayers
<1>2. Spec => []ConfigFollowsLayers
  BY <1>1, TakenInput, PTL
<1> QED
  BY <1>2, FieldFromFirstPlace, StrategyRunsWhenWanted

\* history_config: in a session of any length, the windows and the character budget
\* count from its newest message, and who opted out of resolution is not resolved.
THEOREM WindowsFromNewest ==
  /\ \A S, t : /\ t.session \in Seq(S) /\ t.env \in Int /\ t.floor \in Int
               /\ t.item \in Optional /\ t.batch \in Optional
               => History!WindowsHonoured(t)
  /\ \A messages \in Seq(Nat), max \in Nat \union {History!Unset} :
       History!BudgetKeepsNewest(messages, max)
  /\ \A skip \in BOOLEAN : \A aware, envAware, transformation, session :
       History!OptOutHolds(skip, aware, envAware, transformation, session)
  /\ Spec => []HistoryFromNewest
<1>1. ASSUME NEW S, NEW t, t.session \in Seq(S), t.env \in Int, t.floor \in Int,
             t.item \in Optional, t.batch \in Optional
      PROVE  History!WindowsHonoured(t)
  BY <1>1, WindowsCountFromNewest DEF Optional
<1>2. Taken => HistoryFromNewest
  BY <1>1, BudgetFilled, OptOutIsHeard DEF Taken, TakenSettings, TakenHistory, HistoryFromNewest
<1>3. Spec => []HistoryFromNewest
  BY <1>2, TakenInput, PTL
<1> QED
  BY <1>1, <1>3, BudgetFilled, OptOutIsHeard

\* query_service: for an answer of any length, the queries of a retrieval are one to
\* three, distinct, made from the resolved question and of all that was offered; the
\* gate sees the references, and the trace tells how they came about.
THEOREM QueriesFromQuestion ==
  /\ \A X, asked, resolution :
       \A answer \in Seq(X), apply \in BOOLEAN, strategy \in {"none", "rewrite", "expand", "stepback"} :
         QueriesDistinct(asked, resolution, apply, strategy, answer) /\ AlternativesUsed(answer)
  /\ \A shape, resolution :
       \A history \in BOOLEAN, policy \in {"never", "gated", "always"} :
         shape.refers \in BOOLEAN /\ shape.switches \in BOOLEAN =>
           GateDecides(shape, history) /\ TraceConsistent(policy, shape, history, resolution)
  /\ Spec => []QueriesFollowQuestion
<1>1. ASSUME Taken PROVE QueriesFollowQuestion
  <2>1. Of("query") =>
          QueriesDistinct(case.asked, case.resolution, case.apply, case.strategy, case.answer)
    <3> SUFFICES ASSUME Of("query")
                 PROVE  QueriesDistinct(case.asked, case.resolution, case.apply, case.strategy, case.answer)
      OBVIOUS
    <3>1. /\ case.apply \in BOOLEAN /\ case.answer \in Seq(Phrases \union {Blank})
          /\ case.strategy \in {"none", "rewrite", "expand", "stepback"}
      BY <1>1 DEF Taken, TakenSettings, TakenQuestion
    <3> QED
      BY <3>1, QueriesAreDistinct, Zenon
  <2>2. Of("answer") => AlternativesUsed(case.answer)
    BY <1>1, AllAlternativesUsed DEF Taken, TakenSettings, TakenQuestion
  <2>3. Of("follow_up") => /\ GateDecides(case.shape, case.history)
                           /\ TraceConsistent(case.policy, case.shape, case.history, case.resolution)
    BY <1>1, GateAlwaysDecides, TraceAlwaysConsistent DEF Taken, TakenSettings, TakenQuestion
  <2> QED
    BY <2>1, <2>2, <2>3 DEF QueriesFollowQuestion
<1>2. Spec => []QueriesFollowQuestion
  BY <1>1, TakenInput, PTL
<1>3. ASSUME NEW X, NEW asked, NEW resolution, NEW answer \in Seq(X), NEW apply \in BOOLEAN,
             NEW strategy \in {"none", "rewrite", "expand", "stepback"}
      PROVE  QueriesDistinct(asked, resolution, apply, strategy, answer) /\ AlternativesUsed(answer)
  BY QueriesAreDistinct, AllAlternativesUsed
<1>4. ASSUME NEW shape, NEW resolution, NEW history \in BOOLEAN,
             NEW policy \in {"never", "gated", "always"},
             shape.refers \in BOOLEAN, shape.switches \in BOOLEAN
      PROVE  GateDecides(shape, history) /\ TraceConsistent(policy, shape, history, resolution)
  BY <1>4, GateAlwaysDecides, TraceAlwaysConsistent
<1> QED
  BY <1>2, <1>3, <1>4

\* chat_service and routes/documents to _sse: for a turn of any tokens, however it
\* ends and wherever its connection is cut, the caller sees what arrived and is told
\* of the failure; a status stream read to its end tells how the document ended.
THEOREM StreamsAlwaysConclude ==
  /\ \A X : \A tokens \in Seq(X), code \in Codes, torn \in Tears, lost \in BOOLEAN :
       \A cut \in 0 .. 3 * Len(TurnEvents(tokens, code)) :
         Faithful(tokens, code, cut, torn, lost) /\ FailureRaised(tokens, code, cut, torn, lost)
  /\ \A rows \in [1 .. MaxPolls -> Rows] : Concludes(rows)
  /\ Spec => []StreamsConclude
<1>1. ASSUME Taken PROVE StreamsConclude
  <2>1. ASSUME Of("stream")
        PROVE  /\ Faithful(case.tokens, case.code, case.cut, case.torn, case.lost)
               /\ FailureRaised(case.tokens, case.code, case.cut, case.torn, case.lost)
    <3>1. TurnInput(case.tokens, case.code, case.cut, case.torn, case.lost)
      BY <1>1, <2>1 DEF Taken, TakenData, TakenStream
    <3> QED
      BY <3>1, TurnAlwaysFaithful DEF TurnInput
  <2>2. Of("polls") => Concludes(case.rows)
    BY <1>1, StatusAlwaysConcludes DEF Taken, TakenData, TakenStream
  <2> QED
    BY <2>1, <2>2 DEF StreamsConclude
<1>2. Spec => []StreamsConclude
  BY <1>1, TakenInput, PTL
<1> QED
  BY <1>2, TurnAlwaysFaithful, StatusAlwaysConcludes

\* retrieval_service and graph_retrieval: whatever a question asks for, it reads its
\* tenant's completed documents in its scope and filter, and so do the neighbours
\* that any graph adds.
THEOREM SearchesStayInScope ==
  /\ \A requested, linked, registered \in Seq(Docs) : \A scope, filter :
       SearchScoped(scope, requested, linked, registered, filter)
  /\ \A seeds \in Seq(MentionKeys), limit \in Nat : \A mentions, relations, allowed :
       Mentioned(mentions) => GraphInScope(seeds, mentions, relations, allowed, limit)
  /\ Spec => []SearchStaysInScope
<1>1. ASSUME Taken PROVE SearchStaysInScope
  <2>1. Of("scope") =>
          SearchScoped(case.scope, case.requested, case.linked, case.registered, case.filter)
    BY <1>1, SearchAlwaysScoped DEF Taken, TakenData, TakenScope, ScopeInput
  <2>2. Of("graph") =>
          GraphInScope(case.seeds, case.mentions, case.relations, {1, 2}, case.limit)
    BY <1>1, GraphAlwaysInScope DEF Taken, TakenData, TakenScope, GraphInput
  <2> QED
    BY <2>1, <2>2 DEF SearchStaysInScope
<1>2. Spec => []SearchStaysInScope
  BY <1>1, TakenInput, PTL
<1> QED
  BY <1>2, SearchAlwaysScoped, GraphAlwaysInScope

\* retrieval_service, reranker, context_service and chat_service: for any chunks and
\* scores, from the search to the context no chunk is passed over for a worse one;
\* a fusion tells that of as many as 1900 chunks, of which the code takes 20.
THEOREM BestChunksAlwaysFirst ==
  /\ \A docs, queries, count : SearchInput(docs, queries, count) => RetrievalRanks(docs, queries, count)
  /\ \A doc, vector, keyword, count :
       FusionInput(doc, vector, keyword, count) => FusionRespects(doc, vector, keyword, count)
  /\ \A provider, candidates, results, max, top :
       RerankInput(candidates, results, max, top) => RerankKeeps(provider, candidates, results, max, top)
  /\ \A session, chunks, limit : ContextInput(session, chunks, limit) => ContextLongest(session, chunks, limit)
  /\ Spec => []BestChunksFirst
<1>1. \A docs, queries, count : SearchInput(docs, queries, count) => RetrievalRanks(docs, queries, count)
  BY RetrievalAlwaysRanks DEF SearchInput
<1>2. \A doc, vector, keyword, count :
        FusionInput(doc, vector, keyword, count) => FusionRespects(doc, vector, keyword, count)
  BY FusionAlwaysRespects DEF FusionInput
<1>3. \A provider, candidates, results, max, top :
        RerankInput(candidates, results, max, top) => RerankKeeps(provider, candidates, results, max, top)
  BY RerankAlwaysKeeps DEF RerankInput
<1>4. \A session, chunks, limit : ContextInput(session, chunks, limit) => ContextLongest(session, chunks, limit)
  BY ContextAlwaysLongest DEF ContextInput
<1>5. Taken => BestChunksFirst
  BY <1>1, <1>2, <1>3, <1>4 DEF Taken, TakenData, TakenRanking, BestChunksFirst
<1>6. Spec => []BestChunksFirst
  BY <1>5, TakenInput, PTL
<1> QED
  BY <1>1, <1>2, <1>3, <1>4, <1>6

\* ingestion_pipeline, embedding_service and chat_service: for a text, pages, texts
\* and a batch of any length, chunks cover the text at their offsets and pages, and
\* every vector and every batch answer is that of its own text or item.
THEOREM ResultsAlwaysLineUp ==
  /\ \A lengths, base, size, overlap :
       BlockInput(lengths, base, size, overlap) => TextCovered(lengths, base, size, overlap)
  /\ \A pages \in Seq(Nat) : PagesLineUp(pages)
  /\ \A X, cached : \A texts \in Seq(X) : VectorsMatch(texts, cached)
  /\ \A X : \A failed \in Seq(X) : BatchAligned(failed)
  /\ Spec => []ResultsLineUp
<1>1. \A lengths, base, size, overlap :
        BlockInput(lengths, base, size, overlap) => TextCovered(lengths, base, size, overlap)
  BY TextAlwaysCovered DEF BlockInput
<1>2. Taken => ResultsLineUp
  BY <1>1, PagesAlwaysLineUp, VectorsAlwaysMatch, BatchAlwaysAligned DEF Taken, TakenData, TakenRecords, ResultsLineUp
<1>3. Spec => []ResultsLineUp
  BY <1>2, TakenInput, PTL
<1> QED
  BY <1>1, <1>3, PagesAlwaysLineUp, VectorsAlwaysMatch, BatchAlwaysAligned
=============================================================================
