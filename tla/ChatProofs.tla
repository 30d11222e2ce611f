---------------------------- MODULE ChatProofs ----------------------------
(***************************************************************************)
(* Proofs about chat turns (module Chat): the five properties of           *)
(* ChatProperties hold in every reachable state, for every set of tenants, *)
(* documents, session ids, requests and batches.                           *)
(*                                                                         *)
(* Their inductive invariants share the types (TypeInv) and Told, which    *)
(* gives the shape of a turn's events at each step it may be at.  Gate is  *)
(* what failing a whole batch needs: while one item is being prepared, no  *)
(* item holds a permit or has stored a turn.  Moves abstracts the eighteen *)
(* actions of a turn to what they do to its step, session, events, storage *)
(* and permits, so that each invariant is proved over eleven forms.        *)
(***************************************************************************)
EXTENDS ChatProperties, FiniteSetTheorems, WellFoundedInduction, TLAPS

-----------------------------------------------------------------------------
(* Induction over the positions of a sequence, and the operator Kept.      *)

\* A set of naturals has a least element.
LEMMA Least ==
  ASSUME NEW T, T \subseteq Nat, T # {}
  PROVE  \E x \in T : \A y \in T : x <= y
<1>1. \E x \in T : \A y \in T : ~ (<<y, x>> \in OpToRel(<, Nat))
  BY WFMin, NatLessThanWellFounded
<1>2. \A x, y \in Nat : y < x => <<y, x>> \in OpToRel(<, Nat)
  BY DEF OpToRel
<1>3. PICK x \in T : \A y \in T : ~ (<<y, x>> \in OpToRel(<, Nat))
  BY <1>1
<1>4. ASSUME NEW y \in T PROVE x <= y
  <2>1. x \in Nat /\ y \in Nat /\ ~(y < x)
    BY <1>2, <1>3
  <2> QED
    BY <2>1
<1> QED
  BY <1>3, <1>4

\* A set that has 0, and with a number below n the next, has all up to n.
LEMMA UpTo ==
  ASSUME NEW n \in Nat, NEW G, 0 \in G, \A i \in 0 .. n - 1 : i \in G => i + 1 \in G
  PROVE  \A k \in 0 .. n : k \in G
<1> SUFFICES ASSUME NEW k \in 0 .. n, k \notin G PROVE FALSE
  OBVIOUS
<1> DEFINE B == {i \in 0 .. n : i \notin G}
<1>1. B \subseteq Nat /\ B # {}
  OBVIOUS
<1> HIDE DEF B
<1>2. PICK x \in B : \A y \in B : x <= y
  BY <1>1, Least
<1>3. x \in 0 .. n /\ x \notin G /\ x # 0
  BY DEF B
<1>4. x - 1 \in 0 .. n - 1 /\ x - 1 \in 0 .. n /\ ~(x <= x - 1) /\ x - 1 + 1 = x
  BY <1>3
<1>5. x - 1 \in G
  BY <1>2, <1>4 DEF B
<1> QED
  BY <1>3, <1>4, <1>5

\* Even and odd numbers.
LEMMA Parity ==
  ASSUME NEW i \in Nat
  PROVE  /\ i % 2 = 0 \/ i % 2 = 1
         /\ i % 2 = 0 => (i + 1) % 2 = 1
         /\ i % 2 = 1 => (i + 1) % 2 = 0 /\ i > 0
  OBVIOUS

LEMMA ParityOfSum ==
  ASSUME NEW i \in Nat, NEW j \in Nat, i % 2 = 1, j % 2 = 1
  PROVE  (i + j - 1) % 2 = 1
  OBVIOUS

LEMMA ParityOfMixedSum ==
  ASSUME NEW i \in Nat, NEW j \in Nat, i % 2 = 0, j % 2 = 0, i > 0
  PROVE  (i + j - 1) % 2 = 1
  OBVIOUS

LEMMA ParityOfDifference ==
  ASSUME NEW i \in Nat, NEW j \in Nat, i % 2 = 0, j % 2 = 0, j < i
  PROVE  (i - j + 1) % 2 = 1
  OBVIOUS

\* The function that Kept defines by recursion, as the solution of an equation.
KeptTo(seq, K, n, g) ==
  g = [i \in 0 .. n |-> IF i = 0 THEN <<>>
                        ELSE IF seq[i] \in K THEN Append(g[i - 1], seq[i]) ELSE g[i - 1]]

\* The equation has a solution.
LEMMA KeptExists ==
  ASSUME NEW seq, NEW K, NEW n \in Nat
  PROVE  \E g : KeptTo(seq, K, n, g)
<1> DEFINE G == {i \in 0 .. n : \E g : KeptTo(seq, K, i, g)}
<1>1. 0 \in G
  <2>1. KeptTo(seq, K, 0, [i \in 0 .. 0 |-> <<>>])
    BY DEF KeptTo
  <2> QED
    BY <2>1
<1>2. ASSUME NEW i \in 0 .. n - 1, i \in G PROVE i + 1 \in G
  <2>1. PICK g : KeptTo(seq, K, i, g)
    BY <1>2
  <2> DEFINE next == IF seq[i + 1] \in K THEN Append(g[i], seq[i + 1]) ELSE g[i]
             h == [j \in 0 .. i + 1 |-> IF j = i + 1 THEN next ELSE g[j]]
  <2>2. \A j \in 0 .. i : h[j] = g[j]
    OBVIOUS
  <2>3. h[i + 1] = next /\ i + 1 # 0 /\ i + 1 - 1 = i /\ i \in 0 .. i /\ h[i] = g[i]
    OBVIOUS
  <2>4. \A j \in 0 .. i : g[j] = IF j = 0 THEN <<>>
                                 ELSE IF seq[j] \in K THEN Append(g[j - 1], seq[j]) ELSE g[j - 1]
    BY <2>1 DEF KeptTo
  <2>5. \A j \in 0 .. i + 1 : h[j] = IF j = 0 THEN <<>>
                                     ELSE IF seq[j] \in K THEN Append(h[j - 1], seq[j]) ELSE h[j - 1]
    <3> SUFFICES ASSUME NEW j \in 0 .. i + 1
                 PROVE  h[j] = IF j = 0 THEN <<>>
                               ELSE IF seq[j] \in K THEN Append(h[j - 1], seq[j]) ELSE h[j - 1]
      OBVIOUS
    <3>1. CASE j = i + 1
      BY <2>3, <3>1
    <3>2. CASE j # i + 1
      <4>1. j \in 0 .. i /\ h[j] = g[j] /\ (j # 0 => j - 1 \in 0 .. i /\ h[j - 1] = g[j - 1])
        BY <3>2, <2>2
      <4> HIDE DEF h, next
      <4> QED
        BY <4>1, <2>4
    <3> QED
      BY <3>1, <3>2
  <2>6. KeptTo(seq, K, i + 1, h)
    <3>1. h = [j \in 0 .. i + 1 |-> h[j]]
      OBVIOUS
    <3> HIDE DEF h, next
    <3>2. h = [j \in 0 .. i + 1 |-> IF j = 0 THEN <<>>
                                    ELSE IF seq[j] \in K THEN Append(h[j - 1], seq[j]) ELSE h[j - 1]]
      BY <3>1, <2>5
    <3> QED
      BY <3>2 DEF KeptTo
  <2> HIDE DEF h
  <2> QED
    BY <2>6
<1> HIDE DEF G
<1>3. n \in G
  BY <1>1, <1>2, UpTo
<1> QED
  BY <1>3 DEF G

\* What Kept computes, step by step.
LEMMA KeptSteps ==
  ASSUME NEW S, NEW seq \in Seq(S), NEW K
  PROVE  \E c : /\ Kept(seq, K) = c[Len(seq)] /\ c[0] = <<>>
                /\ \A i \in 1 .. Len(seq) :
                     c[i] = IF seq[i] \in K THEN Append(c[i - 1], seq[i]) ELSE c[i - 1]
<1> DEFINE c == CHOOSE h : h = [i \in 0 .. Len(seq) |->
                   IF i = 0 THEN <<>>
                   ELSE IF seq[i] \in K THEN Append(h[i - 1], seq[i]) ELSE h[i - 1]]
<1>1. Kept(seq, K) = c[Len(seq)]
  BY Zenon DEF Kept
<1>2. \E g : KeptTo(seq, K, Len(seq), g)
  BY KeptExists
<1>3. KeptTo(seq, K, Len(seq), c)
  BY <1>2, Zenon DEF KeptTo
<1> HIDE DEF c
<1>4. \A i \in 0 .. Len(seq) :
        c[i] = IF i = 0 THEN <<>> ELSE IF seq[i] \in K THEN Append(c[i - 1], seq[i]) ELSE c[i - 1]
  BY <1>3 DEF KeptTo
<1>5. c[0] = <<>> /\ \A i \in 1 .. Len(seq) :
        c[i] = IF seq[i] \in K THEN Append(c[i - 1], seq[i]) ELSE c[i - 1]
  BY <1>4
<1> QED
  BY <1>1, <1>5

\* Kept drops nothing that is in K, adds nothing, and lets nothing else pass.
LEMMA KeptElements ==
  ASSUME NEW S, NEW seq \in Seq(S), NEW K
  PROVE  /\ Kept(seq, K) \in Seq(S)
         /\ ToSet(Kept(seq, K)) = ToSet(seq) \intersect K
<1>0. Len(seq) \in Nat /\ DOMAIN seq = 1 .. Len(seq)
  OBVIOUS
<1>1. PICK c : /\ Kept(seq, K) = c[Len(seq)] /\ c[0] = <<>>
               /\ \A i \in 1 .. Len(seq) :
                    c[i] = IF seq[i] \in K THEN Append(c[i - 1], seq[i]) ELSE c[i - 1]
  BY KeptSteps
<1> DEFINE G == {i \in 0 .. Len(seq) : c[i] \in Seq(S) /\ ToSet(c[i]) = {seq[j] : j \in 1 .. i} \intersect K}
<1>2. 0 \in G
  <2>1. c[0] \in Seq(S) /\ ToSet(c[0]) = {} /\ 0 \in 0 .. Len(seq)
    BY <1>0, <1>1 DEF ToSet
  <2>2. {seq[j] : j \in 1 .. 0} = {}
    OBVIOUS
  <2> QED
    BY <2>1, <2>2
<1>3. ASSUME NEW i \in 0 .. Len(seq) - 1, i \in G PROVE i + 1 \in G
  <2>1. /\ i + 1 \in 1 .. Len(seq) /\ i + 1 - 1 = i /\ seq[i + 1] \in S
        /\ c[i] \in Seq(S) /\ ToSet(c[i]) = {seq[j] : j \in 1 .. i} \intersect K
    BY <1>3
  <2>2. c[i + 1] = IF seq[i + 1] \in K THEN Append(c[i], seq[i + 1]) ELSE c[i]
    BY <1>1, <2>1
  <2>3. {seq[j] : j \in 1 .. i + 1} = {seq[j] : j \in 1 .. i} \union {seq[i + 1]}
    BY <2>1
  <2>4. ToSet(Append(c[i], seq[i + 1])) = ToSet(c[i]) \union {seq[i + 1]} /\ Append(c[i], seq[i + 1]) \in Seq(S)
    <3> PICK q : q = c[i]
      OBVIOUS
    <3>1. /\ Len(q) \in Nat /\ DOMAIN q = 1 .. Len(q) /\ DOMAIN Append(q, seq[i + 1]) = 1 .. Len(q) + 1
          /\ \A j \in 1 .. Len(q) : Append(q, seq[i + 1])[j] = q[j]
          /\ Append(q, seq[i + 1])[Len(q) + 1] = seq[i + 1] /\ Append(q, seq[i + 1]) \in Seq(S)
      BY <2>1
    <3> QED
      BY <3>1 DEF ToSet
  <2>5. c[i + 1] \in Seq(S) /\ ToSet(c[i + 1]) = {seq[j] : j \in 1 .. i + 1} \intersect K
    <3>1. CASE seq[i + 1] \in K
      BY <3>1, <2>1, <2>2, <2>3, <2>4
    <3>2. CASE seq[i + 1] \notin K
      BY <3>2, <2>1, <2>2, <2>3
    <3> QED
      BY <3>1, <3>2
  <2>6. i + 1 \in 0 .. Len(seq)
    BY <1>0
  <2> QED
    BY <2>5, <2>6
<1> HIDE DEF G
<1>4. Len(seq) \in G
  <2>1. \A k \in 0 .. Len(seq) : k \in G
    BY <1>0, <1>2, <1>3, UpTo
  <2> QED
    BY <1>0, <2>1
<1> QED
  <2>1. Kept(seq, K) \in Seq(S) /\ ToSet(Kept(seq, K)) = {seq[j] : j \in 1 .. Len(seq)} \intersect K
    BY <1>1, <1>4 DEF G
  <2>2. ToSet(seq) = {seq[j] : j \in 1 .. Len(seq)}
    BY <1>0 DEF ToSet
  <2> QED
    BY <2>1, <2>2

\* A sequence of whole turns has an even number of messages.
LEMMA WholeEven ==
  ASSUME NEW S, NEW seq \in Seq(S), Whole(seq)
  PROVE  Len(seq) \in Nat /\ DOMAIN seq = 1 .. Len(seq) /\ Len(seq) % 2 = 0
<1>1. Len(seq) \in Nat /\ DOMAIN seq = 1 .. Len(seq)
  OBVIOUS
<1>2. CASE Len(seq) % 2 = 1
  <2>1. Len(seq) \in 1 .. Len(seq)
    BY <1>1, <1>2, Parity
  <2> QED
    BY <2>1, <1>2, <1>1 DEF Whole
<1> QED
  BY <1>1, <1>2, Parity

\* A sequence of whole turns with one more.
LEMMA WholeLonger ==
  ASSUME NEW S, NEW seq \in Seq(S), Whole(seq), NEW a \in S, NEW b \in S,
         a.turn = b.turn, a.role = "user", b.role = "assistant"
  PROVE  Whole(Append(Append(seq, a), b)) /\ Append(Append(seq, a), b) \in Seq(S)
<1>1. Len(seq) % 2 = 0
  BY DEF Whole
<1>2. /\ Len(Append(Append(seq, a), b)) = Len(seq) + 2
      /\ \A i \in 1 .. Len(seq) : Append(Append(seq, a), b)[i] = seq[i]
      /\ Append(Append(seq, a), b)[Len(seq) + 1] = a /\ Append(Append(seq, a), b)[Len(seq) + 2] = b
      /\ Len(seq) \in Nat
  OBVIOUS
<1> DEFINE q == Append(Append(seq, a), b)
<1> HIDE DEF q
<1>3. ASSUME NEW i \in 1 .. Len(seq) + 2, i % 2 = 1
      PROVE  i < Len(seq) + 2 /\ q[i].turn = q[i + 1].turn /\ q[i].role = "user" /\ q[i + 1].role = "assistant"
  <2>1. CASE i \in 1 .. Len(seq)
    <3>1. i < Len(seq) /\ seq[i].turn = seq[i + 1].turn /\ seq[i].role = "user" /\ seq[i + 1].role = "assistant"
      BY <1>3, <2>1 DEF Whole
    <3> QED
      BY <3>1, <1>2, <2>1 DEF q
  <2>2. CASE i \notin 1 .. Len(seq)
    <3>1. i = Len(seq) + 1
      BY <2>2, <1>1, <1>2, <1>3
    <3> QED
      BY <3>1, <1>2 DEF q
  <2> QED
    BY <2>1, <2>2
<1> QED
  BY <1>2, <1>3 DEF Whole, q

\* Kept keeps turns whole when K takes a turn's messages together.
LEMMA KeptWhole ==
  ASSUME NEW S, NEW seq \in Seq(S), NEW K, Whole(seq),
         \A i \in 1 .. Len(seq) : i % 2 = 1 => (seq[i] \in K <=> seq[i + 1] \in K)
  PROVE  Whole(Kept(seq, K))
<1>0. Len(seq) \in Nat /\ Len(seq) % 2 = 0
  BY WholeEven
<1>1. PICK c : /\ Kept(seq, K) = c[Len(seq)] /\ c[0] = <<>>
               /\ \A i \in 1 .. Len(seq) :
                    c[i] = IF seq[i] \in K THEN Append(c[i - 1], seq[i]) ELSE c[i - 1]
  BY KeptSteps
<1> DEFINE Good(i) == c[i] \in Seq(S) /\ Whole(c[i])
           G == {i \in 0 .. Len(seq) : (i % 2 = 0 => Good(i)) /\ (i % 2 = 1 => Good(i - 1))}
<1>2. 0 \in G
  <2>1. c[0] \in Seq(S) /\ Len(c[0]) = 0
    BY <1>1
  <2>2. Good(0)
    BY <2>1 DEF Whole
  <2>3. 0 \in 0 .. Len(seq) /\ ~(0 % 2 = 1)
    BY <1>0
  <2> HIDE DEF Good
  <2> QED
    BY <2>2, <2>3
<1>3. ASSUME NEW i \in 0 .. Len(seq) - 1, i \in G PROVE i + 1 \in G
  <2>1. CASE i % 2 = 0
    <3>1. (i + 1) % 2 = 1 /\ i + 1 - 1 = i /\ i + 1 \in 0 .. Len(seq) /\ Good(i)
      BY <2>1, <1>0, <1>3, Parity
    <3> HIDE DEF Good
    <3> QED
      BY <3>1
  <2>2. CASE i % 2 = 1
    <3>1. (i + 1) % 2 = 0 /\ i \in 1 .. Len(seq) /\ i + 1 \in 1 .. Len(seq)
          /\ i + 1 - 1 = i /\ i + 1 \in 0 .. Len(seq)
      <4>1. i \in Nat /\ i > 0 /\ (i + 1) % 2 = 0
        BY <1>0, <2>2, Parity
      <4> QED
        BY <4>1, <1>0
    <3>2. c[i - 1] \in Seq(S) /\ Whole(c[i - 1])
      BY <2>2, <1>0, <1>3
    <3>3. /\ c[i] = IF seq[i] \in K THEN Append(c[i - 1], seq[i]) ELSE c[i - 1]
          /\ c[i + 1] = IF seq[i + 1] \in K THEN Append(c[i], seq[i + 1]) ELSE c[i]
          /\ seq[i] \in K <=> seq[i + 1] \in K
      BY <3>1, <2>2, <1>1
    <3>4. seq[i] \in S /\ seq[i + 1] \in S
      BY <3>1, <1>0
    <3>6. seq[i].turn = seq[i + 1].turn /\ seq[i].role = "user" /\ seq[i + 1].role = "assistant"
      BY <3>1, <2>2 DEF Whole
    <3>5. c[i + 1] \in Seq(S) /\ Whole(c[i + 1])
      <4>1. CASE seq[i] \in K
        BY <4>1, <3>2, <3>3, <3>4, <3>6, WholeLonger
      <4>2. CASE seq[i] \notin K
        BY <4>2, <3>2, <3>3
      <4> QED
        BY <4>1, <4>2
    <3>7. ~((i + 1) % 2 = 1)
      BY <3>1
    <3> QED
      BY <3>1, <3>5, <3>7
  <2> QED
    BY <1>0, <2>1, <2>2, Parity
<1> HIDE DEF G
<1>4. Len(seq) \in G
  <2>1. \A k \in 0 .. Len(seq) : k \in G
    BY <1>0, <1>2, <1>3, UpTo
  <2> QED
    BY <1>0, <2>1
<1> QED
  BY <1>0, <1>1, <1>4 DEF G

\* The newest messages are the sequence from a position on.
LEMMA NewestElements ==
  ASSUME NEW S, NEW seq \in Seq(S), NEW n \in Nat
  PROVE  /\ Newest(seq, n) \in Seq(S)
         /\ ToSet(Newest(seq, n)) \subseteq ToSet(seq)
         /\ \E m \in 1 .. Len(seq) + 1 :
              /\ m = IF Len(seq) > n THEN Len(seq) - n + 1 ELSE 1
              /\ Len(Newest(seq, n)) = Len(seq) - m + 1
              /\ \A i \in 1 .. Len(Newest(seq, n)) : Newest(seq, n)[i] = seq[m + i - 1]
<1> DEFINE m == IF Len(seq) > n THEN Len(seq) - n + 1 ELSE 1
           q == SubSeq(seq, m, Len(seq))
<1>1. Len(seq) \in Nat /\ DOMAIN seq = 1 .. Len(seq)
  OBVIOUS
<1>2. m \in 1 .. Len(seq) + 1
  BY <1>1
<1>3. /\ q \in Seq(S) /\ Len(q) = Len(seq) - m + 1 /\ DOMAIN q = 1 .. Len(q)
      /\ \A i \in 1 .. Len(q) : q[i] = seq[m + i - 1]
  <2> HIDE DEF m
  <2>1. q = [i \in 1 .. Len(seq) - m + 1 |-> seq[i + m - 1]]
    BY <1>1, <1>2
  <2>2. \A i \in 1 .. Len(seq) - m + 1 : i + m - 1 = m + i - 1 /\ m + i - 1 \in 1 .. Len(seq)
    BY <1>1, <1>2
  <2>3. Len(seq) - m + 1 \in Nat
    BY <1>1, <1>2
  <2>4. \A i \in 1 .. Len(seq) : seq[i] \in S
    BY <1>1
  <2> DEFINE p == Len(seq) - m + 1
  <2> HIDE DEF p
  <2>5. q = [i \in 1 .. p |-> seq[i + m - 1]] /\ p \in Nat /\ \A i \in 1 .. p : seq[i + m - 1] \in S
    BY <2>1, <2>2, <2>3, <2>4 DEF p
  <2> HIDE DEF q
  <2>6. q \in Seq(S) /\ Len(q) = p /\ DOMAIN q = 1 .. p /\ \A i \in 1 .. p : q[i] = seq[i + m - 1]
    BY <2>5
  <2> QED
    BY <2>6, <2>2 DEF p
<1>4. q = Newest(seq, n)
  BY DEF Newest
<1>5. m = IF Len(seq) > n THEN Len(seq) - n + 1 ELSE 1
  OBVIOUS
<1> HIDE DEF m, q
<1>6. ToSet(q) \subseteq ToSet(seq)
  <2>1. ASSUME NEW i \in 1 .. Len(q) PROVE q[i] \in ToSet(seq)
    <3>1. q[i] = seq[m + i - 1] /\ m \in Nat /\ m >= 1 /\ i \in Nat /\ i >= 1 /\ i <= Len(seq) - m + 1
      BY <1>1, <1>2, <1>3
    <3>2. m + i - 1 \in 1 .. Len(seq)
      BY <1>1, <3>1
    <3> QED
      BY <1>1, <3>1, <3>2 DEF ToSet
  <2> QED
    BY <1>3, <2>1 DEF ToSet
<1> QED
  BY <1>2, <1>3, <1>4, <1>5, <1>6

\* The newest messages begin with a question, if they are all there are or of an
\* even number.
LEMMA NewestWhole ==
  ASSUME NEW S, NEW seq \in Seq(S), Whole(seq), NEW n \in Nat, n % 2 = 0 \/ ~(Len(seq) > n)
  PROVE  Whole(Newest(seq, n))
<1> DEFINE q == Newest(seq, n)
<1>1. Len(seq) \in Nat /\ Len(seq) % 2 = 0 /\ DOMAIN seq = 1 .. Len(seq)
  BY WholeEven
<1>3. /\ q \in Seq(S) /\ Len(q) \in Nat
      /\ \E m \in 1 .. Len(seq) + 1 :
              /\ m = IF Len(seq) > n THEN Len(seq) - n + 1 ELSE 1
              /\ Len(q) = Len(seq) - m + 1
              /\ \A i \in 1 .. Len(q) : q[i] = seq[m + i - 1]
  <2>1. q \in Seq(S)
    BY NewestElements
  <2>2. Len(q) \in Nat
    <3> HIDE DEF q
    <3> QED
      BY <2>1
  <2> QED
    BY <2>1, <2>2, NewestElements
<1> HIDE DEF q
<1>4. PICK m \in 1 .. Len(seq) + 1 :
              /\ m = IF Len(seq) > n THEN Len(seq) - n + 1 ELSE 1
              /\ Len(q) = Len(seq) - m + 1
              /\ \A i \in 1 .. Len(q) : q[i] = seq[m + i - 1]
  BY <1>3
<1>2. m \in 1 .. Len(seq) + 1 /\ m % 2 = 1
  <2>1. CASE Len(seq) > n
    <3>1. (Len(seq) - n + 1) % 2 = 1
      BY <2>1, <1>1, ParityOfDifference
    <3> QED
      BY <2>1, <3>1, <1>1, <1>4
  <2>2. CASE ~(Len(seq) > n)
    BY <2>2, <1>1, <1>4
  <2> QED
    BY <2>1, <2>2
<1>5. ASSUME NEW i \in 1 .. Len(q), i % 2 = 1
      PROVE  i < Len(q) /\ q[i].turn = q[i + 1].turn /\ q[i].role = "user" /\ q[i + 1].role = "assistant"
  <2>1. m + i - 1 \in 1 .. Len(seq) /\ (m + i - 1) % 2 = 1
    <3>1. m \in Nat /\ Len(q) \in Nat /\ i \in Nat
      BY <1>1, <1>2, <1>3
    <3>2. (m + i - 1) % 2 = 1
      BY <3>1, <1>2, <1>5, ParityOfSum
    <3>3. m >= 1 /\ i >= 1 /\ i <= Len(seq) - m + 1 /\ Len(seq) \in Nat
      BY <1>1, <1>2, <1>4
    <3>4. m + i - 1 \in 1 .. Len(seq)
      BY <3>1, <3>3
    <3> QED
      BY <3>2, <3>4
  <2>2. /\ m + i - 1 < Len(seq) /\ seq[m + i - 1].turn = seq[m + i].turn
        /\ seq[m + i - 1].role = "user" /\ seq[m + i].role = "assistant"
    <3>1. m + i - 1 + 1 = m + i
      BY <1>1, <1>2, <1>4
    <3> QED
      BY <2>1, <3>1 DEF Whole
  <2>3. i < Len(q) /\ i + 1 \in 1 .. Len(q) /\ m + (i + 1) - 1 = m + i
    <3>1. m \in Nat /\ Len(q) \in Nat /\ i \in Nat
      BY <1>1, <1>2, <1>3
    <3>2. m + i - 1 < Len(seq) /\ Len(q) = Len(seq) - m + 1 /\ Len(seq) \in Nat /\ i >= 1
      BY <3>1, <2>2, <1>1, <1>4
    <3> QED
      BY <3>1, <3>2
  <2>4. q[i] = seq[m + i - 1] /\ q[i + 1] = seq[m + i]
    BY <2>3, <1>4
  <2> QED
    BY <2>2, <2>3, <2>4
<1> QED
  BY <1>5 DEF Whole, q

\* Cut to an odd number, they begin with the answer of an older turn.
LEMMA NewestCut ==
  ASSUME NEW S, NEW seq \in Seq(S), Whole(seq), NEW n \in Nat, n % 2 = 1, Len(seq) > n
  PROVE  Len(Newest(seq, n)) = n /\ WholeButFirst(Newest(seq, n))
<1> DEFINE q == Newest(seq, n)
           m == Len(seq) - n + 1
<1>1. Len(seq) \in Nat /\ Len(seq) % 2 = 0 /\ DOMAIN seq = 1 .. Len(seq)
  BY WholeEven
<1>2. m \in 2 .. Len(seq) /\ m % 2 = 0
  BY <1>1
<1>3. Len(q) = Len(seq) - m + 1 /\ \A i \in 1 .. Len(q) : q[i] = seq[m + i - 1]
  BY <1>1, NewestElements
<1> HIDE DEF q
<1>4. Len(q) = n /\ n >= 1
  BY <1>1, <1>3
<1>5. m - 1 \in 1 .. Len(seq) /\ (m - 1) % 2 = 1 /\ m - 1 + 1 = m /\ m + 1 - 1 = m
  BY <1>1, <1>2
<1> HIDE DEF m
<1>6. q[1].role = "assistant"
  <2>1. seq[m].role = "assistant"
    BY <1>5 DEF Whole
  <2>2. q[1] = seq[m]
    BY <1>3, <1>4, <1>5
  <2> QED
    BY <2>1, <2>2
<1>7. ASSUME NEW i \in 1 .. Len(q), i % 2 = 0
      PROVE  i < Len(q) /\ q[i].turn = q[i + 1].turn /\ q[i].role = "user" /\ q[i + 1].role = "assistant"
  <2>5. m \in Nat /\ m >= 2 /\ i \in Nat /\ i >= 1 /\ i <= Len(seq) - m + 1
    BY <1>1, <1>2, <1>3, <1>4
  <2>1. m + i - 1 \in 1 .. Len(seq) /\ (m + i - 1) % 2 = 1
    <3>1. (m + i - 1) % 2 = 1
      BY <2>5, <1>2, <1>7, ParityOfMixedSum
    <3> QED
      BY <1>1, <2>5, <3>1
  <2>2. /\ m + i - 1 < Len(seq) /\ seq[m + i - 1].turn = seq[m + i - 1 + 1].turn
        /\ seq[m + i - 1].role = "user" /\ seq[m + i - 1 + 1].role = "assistant"
    BY <2>1 DEF Whole
  <2>3. i < Len(q) /\ i + 1 \in 1 .. Len(q) /\ m + (i + 1) - 1 = m + i - 1 + 1
    <3>1. Len(q) = Len(seq) - m + 1
      BY <1>3
    <3>2. m + i - 1 < Len(seq)
      BY <2>2
    <3> QED
      BY <1>1, <2>5, <3>1, <3>2
  <2>4. q[i] = seq[m + i - 1] /\ q[i + 1] = seq[m + i - 1 + 1]
    BY <1>3, <2>3
  <2> QED
    BY <2>2, <2>3, <2>4
<1> QED
  BY <1>4, <1>6, <1>7 DEF WholeButFirst, q

\* However many are loaded, only the oldest may be without its question.
LEMMA NewestCutTo ==
  ASSUME NEW S, NEW seq \in Seq(S), Whole(seq), NEW n \in Nat
  PROVE  CutTo(Newest(seq, n), n)
<1>1. CASE n % 2 = 0 \/ ~(Len(seq) > n)
  BY <1>1, NewestWhole DEF CutTo
<1>2. CASE n % 2 = 1 /\ Len(seq) > n
  BY <1>2, NewestCut DEF CutTo
<1> QED
  BY <1>1, <1>2, Parity

-----------------------------------------------------------------------------
(* Types.                                                                  *)

Msg == [turn : Turns, role : Roles]
Seated == {"bind", "link", "scope", "history", "search", "generate", "store", "complete", "marker",
           "transform", "transforming", "embed", "generating"}
FeedbackRows == [id : 1..MaxFeedback, by : Tenants, session : SessionIds, about : Turns \union {None}]

Steps == Seated \union Preparing \union Over

\* The types, and where the turns that have no session yet are.
TablesInv ==
  /\ rows \subseteq Docs
  /\ owner \in [SessionIds -> Tenants \union {None}]
  /\ held \in [SessionIds -> SUBSET Tenants]
  /\ links \subseteq SessionIds \X Docs
  /\ messages \in [SessionIds -> Seq(Msg)]
  /\ feedback \subseteq FeedbackRows
LoadedInv ==
  /\ history \in [Turns -> Seq(Msg)]
  /\ scope \in [Turns -> SUBSET Docs]
  /\ sources \in [Turns -> SUBSET Docs]
  /\ stored \subseteq Turns
SeatInv ==
  /\ pc \in [Turns -> Steps]
  /\ sid \in [Turns -> SessionIds \union {None}]
  /\ \A t \in Turns : /\ pc[t] \in Seated => sid[t] \in SessionIds
                      /\ pc[t] \in {"insert", "select"} => Request[t].name \in Names
FormsInv ==
  /\ fpc \in [1..MaxFeedback -> [at : {"new", "message", "insert", "done"}, by : Tenants \union {None},
                                session : SessionIds \union {None}, about : Turns \union {None}]]
  /\ \A i \in 1..MaxFeedback :
       fpc[i].at # "new" => fpc[i].by \in Tenants /\ fpc[i].session \in SessionIds
TypeInv == TablesInv /\ LoadedInv /\ SeatInv /\ FormsInv

LEMMA RequestTypes ==
  ASSUME NEW t \in Turns
  PROVE  /\ Tenant(t) \in Tenants /\ Kind(t) \in Kinds /\ Request[t].docs \subseteq Docs
         /\ Request[t].name \in Names \union {None} /\ t # None /\ t \in SessionIds
         /\ None \notin SessionIds /\ None \notin Tenants /\ Limit(t) \in Nat
  BY ChatAssumption DEF RequestOK, Tenant, Kind, Limit, SessionIds

LEMMA TypeInit == Init => TypeInv
<1> SUFFICES ASSUME Init PROVE TypeInv
  OBVIOUS
<1>1. TablesInv
  BY DEF Init, TablesInv
<1>2. LoadedInv
  BY DEF Init, LoadedInv
<1>3. SeatInv
  BY DEF Init, SeatInv, Steps, Seated, Preparing, Over
<1>4. FormsInv
  BY DEF Init, FormsInv
<1> QED
  BY <1>1, <1>2, <1>3, <1>4 DEF TypeInv

LEMMA TablesStep == TypeInv /\ [Next]_vars => TablesInv'
<1> SUFFICES ASSUME TypeInv, [Next]_vars PROVE TablesInv'
  OBVIOUS
<1> USE DEF TypeInv, TablesInv
<1>1. CASE UNCHANGED <<tables, held>>
  BY <1>1 DEF tables
<1>2. ASSUME NEW t \in Turns, InsertSession(t) PROVE TablesInv'
  <2>1. Request[t].name \in SessionIds
    BY <1>2 DEF InsertSession, SeatInv, SessionIds
  <2>2. owner' \in [SessionIds -> Tenants \union {None}]
    BY <1>2, <2>1, RequestTypes DEF InsertSession, Take
  <2>3. held' \in [SessionIds -> SUBSET Tenants]
    <3>1. CASE UNCHANGED held
      BY <3>1
    <3>2. CASE held' = [held EXCEPT ![Request[t].name] = @ \union {Tenant(t)}]
      BY <2>1, <3>2, RequestTypes
    <3> QED
      BY <1>2, <3>1, <3>2 DEF InsertSession, Take
  <2> QED
    BY <1>2, <2>1, <2>2, <2>3 DEF InsertSession
<1>3. ASSUME NEW t \in Turns, CreateFresh(t) PROVE TablesInv'
  BY <1>3, RequestTypes DEF CreateFresh, Take
<1>4. ASSUME NEW t \in Turns, Link(t) PROVE TablesInv'
  <2>1. sid[t] \in SessionIds
    BY <1>4 DEF Link, SeatInv, Seated
  <2>2. links' \subseteq SessionIds \X Docs
    BY <1>4, <2>1, RequestTypes DEF Link
  <2> QED
    BY <1>4, <2>2 DEF Link
<1>5. ASSUME NEW t \in Turns, Store(t) PROVE TablesInv'
  <2>1. sid[t] \in SessionIds
    BY <1>5 DEF Store, SeatInv, Seated
  <2> DEFINE two == <<Message(t, "user"), Message(t, "assistant")>>
  <2>2. two \in Seq(Msg)
    BY DEF Message, Msg, Roles
  <2>3. messages' = [messages EXCEPT ![sid[t]] = @ \o two] \/ messages' = messages
    BY <1>5 DEF Store
  <2> HIDE DEF two
  <2>5. messages[sid[t]] \o two \in Seq(Msg)
    BY <2>1, <2>2
  <2>4. messages' \in [SessionIds -> Seq(Msg)]
    BY <2>1, <2>3, <2>5
  <2> QED
    BY <1>5, <2>4 DEF Store
<1>6. ASSUME NEW n \in Tenants, NEW s \in Names, DeleteSession(n, s) PROVE TablesInv'
  <2>1. s \in SessionIds /\ messages[s] \in Seq(Msg)
    BY DEF SessionIds
  <2>2. Kept(messages[s], ToSet(messages[s]) \ Removed(s)) \in Seq(Msg)
    BY <2>1, KeptElements
  <2>3. messages' \in [SessionIds -> Seq(Msg)]
    BY <1>6, <2>1, <2>2 DEF DeleteSession
  <2>4. feedback' \subseteq FeedbackRows
    BY <1>6 DEF DeleteSession, Cleared, FeedbackRows
  <2>5. links' \subseteq SessionIds \X Docs /\ owner' \in [SessionIds -> Tenants \union {None}]
    BY <1>6 DEF DeleteSession
  <2> QED
    BY <1>6, <2>3, <2>4, <2>5 DEF DeleteSession
<1>7. ASSUME NEW d \in Deletable, DeleteDocument(d) PROVE TablesInv'
  BY <1>7 DEF DeleteDocument
<1>8. ASSUME NEW i \in 1..MaxFeedback, FeedbackInsert(i) PROVE TablesInv'
  BY <1>8 DEF FeedbackInsert, FeedbackRows, FormsInv
<1>9. ASSUME NEW t \in Turns, Step(t) \/ Cancel(t) PROVE TablesInv'
  <2>1. UNCHANGED <<tables, held>> \/ InsertSession(t) \/ CreateFresh(t) \/ Link(t) \/ Store(t)
    BY <1>9
     DEF Step, AssertOwned, GetSession, SelectSession, BindCheck, LoadHistory, BeginTransform,
        EndTransform, ResolveScope, Search, Token, BeginGenerate, Generate, Respond, Marker, Cancel
  <2> QED
    BY <2>1, <1>1, <1>2, <1>3, <1>4, <1>5
<1>10. CASE EmbedBatch \/ UNCHANGED vars
  BY <1>1, <1>10 DEF EmbedBatch, vars
<1>11. ASSUME NEW i \in 1..MaxFeedback, NEW n \in Tenants, NEW s \in Names,
              FeedbackSession(i, n, s) \/ FeedbackMessage(i)
       PROVE  TablesInv'
  BY <1>1, <1>11 DEF FeedbackSession, FeedbackMessage
<1>12. ASSUME NEW i \in 1..MaxFeedback, FeedbackMessage(i) PROVE TablesInv'
  BY <1>1, <1>12 DEF FeedbackMessage
<1> QED
  BY <1>6, <1>7, <1>8, <1>9, <1>10, <1>11, <1>12 DEF Next

LEMMA LoadedStep == TypeInv /\ [Next]_vars => LoadedInv'
<1> SUFFICES ASSUME TypeInv, [Next]_vars PROVE LoadedInv'
  OBVIOUS
<1> USE DEF TypeInv, LoadedInv
<1>1. CASE UNCHANGED <<history, scope, sources, stored>>
  BY <1>1
<1>2. ASSUME NEW t \in Turns, LoadHistory(t) PROVE LoadedInv'
  <2>1. sid[t] \in SessionIds
    BY <1>2 DEF LoadHistory, SeatInv, Seated
  <2> DEFINE kept == HistoryOf(sid[t], Tenant(t))
  <2>2. kept \in Seq(Msg)
    BY <2>1, KeptElements DEF TablesInv, HistoryOf
  <2>3. Newest(kept, Limit(t)) \in Seq(Msg)
    BY <2>2, NewestElements, RequestTypes
  <2>4. history' = [history EXCEPT ![t] = Newest(kept, Limit(t))] \/ history' = history
    BY <1>2 DEF LoadHistory
  <2> HIDE DEF kept
  <2>5. history' \in [Turns -> Seq(Msg)]
    BY <2>3, <2>4
  <2> QED
    BY <1>2, <2>5 DEF LoadHistory
<1>3. ASSUME NEW t \in Turns, ResolveScope(t) PROVE LoadedInv'
  <2>1. Resolved(t) \subseteq Docs
    BY RequestTypes DEF Resolved, Owned, TablesInv
  <2>2. scope' = [scope EXCEPT ![t] = Resolved(t)] \/ scope' = scope
    BY <1>3 DEF ResolveScope
  <2> QED
    BY <1>3, <2>1, <2>2 DEF ResolveScope
<1>4. ASSUME NEW t \in Turns, Search(t) PROVE LoadedInv'
  BY <1>4 DEF Search
<1>5. ASSUME NEW t \in Turns, Store(t) PROVE LoadedInv'
  BY <1>5 DEF Store
<1>6. ASSUME NEW t \in Turns, Step(t) \/ Cancel(t) PROVE LoadedInv'
  <2>1. UNCHANGED <<history, scope, sources, stored>> \/ LoadHistory(t) \/ ResolveScope(t) \/ Search(t) \/ Store(t)
    BY <1>6 DEF Step, AssertOwned, GetSession, InsertSession, SelectSession, CreateFresh, BindCheck, Link,
       BeginTransform, EndTransform, Token, BeginGenerate, Generate, Respond, Marker, Cancel
  <2> QED
    BY <2>1, <1>1, <1>2, <1>3, <1>4, <1>5
<1>7. CASE EmbedBatch \/ UNCHANGED vars
  BY <1>1, <1>7 DEF EmbedBatch, vars, turnVars
<1>8. CASE UNCHANGED turnVars
  BY <1>1, <1>8 DEF turnVars
<1> QED
  BY <1>6, <1>7, <1>8 DEF Next, DeleteSession, DeleteDocument, FeedbackSession, FeedbackMessage, FeedbackInsert

-----------------------------------------------------------------------------
(* The events a turn's client is sent.                                     *)

\* The events of a turn: under way, complete, over, and over with the marker.
Errors == {"error", "failed", "llm_error", "scope_error", "not_found"}
Finals == Errors \union {"created", "conflict", "ok"}
Tokens(e) == \A i \in 1..Len(e) : e[i] = "token"
Completed(e) ==
  /\ Len(e) > 0 /\ e[Len(e)] \in Completes
  /\ \A i \in 1..Len(e) : i # Len(e) => e[i] = "token"
Ended(e) ==
  /\ Len(e) > 0 /\ e[Len(e)] \in Finals
  /\ \A i \in 1..Len(e) : i # Len(e) => e[i] = "token"
Marked(e) ==
  /\ Len(e) > 1 /\ e[Len(e)] = "done" /\ e[Len(e) - 1] \in Completes
  /\ \A i \in 1..Len(e) : i < Len(e) - 1 => e[i] = "token"
Events == {"token", "done"} \union Completes \union Finals

-----------------------------------------------------------------------------
(* What a step of a turn may be: the transitions of Step and Cancel.       *)

Keep == UNCHANGED <<sid, sent, stored, permits>>
\* The turn keeps its session, or takes one.
Sits(t) == UNCHANGED sid \/ \E s \in SessionIds : sid' = [sid EXCEPT ![t] = s]

Prepares(t) ==
  /\ pc[t] \in Preparing /\ UNCHANGED <<sent, stored, permits>>
  /\ \E to \in Preparing \union {"history", "scope"} :
       /\ Goto(t, to)
       /\ Kind(t) = "item" => to # "scope"
       /\ to \in {"insert", "select"} => Request[t].name \in Names /\ UNCHANGED sid
       /\ \/ UNCHANGED sid /\ (to \in Seated => pc[t] \in Seated)
          \/ \E s \in SessionIds : sid' = [sid EXCEPT ![t] = s]
Proceeds(t) ==
  /\ pc[t] \in {"history", "scope", "search", "generate"} /\ Keep
  /\ \E to \in {"transform", "scope", "history", "search", "generate", "store"} : Goto(t, to)
  /\ pc[t] = "history" => Gathered(t, Preparing)
Borrows(t) ==
  /\ pc[t] \in {"transform", "generate"} /\ permits > 0 /\ permits' = permits - 1
  /\ UNCHANGED <<sid, sent, stored>>
  /\ \E to \in {"transforming", "generating"} : Goto(t, to)
Returns(t) ==
  /\ pc[t] \in {"transforming", "generating"} /\ permits' = permits + 1
  /\ UNCHANGED <<sid, sent, stored>>
  /\ \E to \in {"embed", "store"} : Goto(t, to)
Concludes(t) ==
  /\ pc[t] \in Preparing \union {"history", "scope", "search", "generate", "generating"}
  /\ permits' = IF pc[t] = "generating" THEN permits + 1 ELSE permits
  /\ UNCHANGED stored
  /\ Sits(t) /\ (pc[t] \in Preparing \/ UNCHANGED sid)
  /\ \E e \in Finals : Answer(t, e)
Speaks(t) ==
  /\ pc[t] = "generate" /\ Send(t, "token") /\ UNCHANGED <<pc, sid, stored, permits>>
Saves(t) ==
  /\ pc[t] = "store" /\ Goto(t, "complete") /\ UNCHANGED <<sid, sent, permits>>
  /\ stored' \in {stored, stored \union {t}}
Responds(t) ==
  /\ pc[t] = "complete" /\ UNCHANGED <<sid, stored, permits>>
  /\ \/ Answer(t, "ok")
     \/ \E e \in Completes : /\ Goto(t, "marker") /\ Send(t, e)
                             /\ e = "complete_with_id" => t \in stored
Marks(t) == pc[t] = "marker" /\ Answer(t, "done") /\ UNCHANGED <<sid, stored, permits>>
Leaves(t) == Kind(t) = "stream" /\ pc[t] \in Streaming /\ Goto(t, "cancelled") /\ Keep
FailsAll(t) ==
  /\ Kind(t) = "item" /\ pc[t] \in Preparing
  /\ FailBatch /\ UNCHANGED <<sid, stored, permits>>

Moves(t) ==
  \/ Prepares(t) \/ Proceeds(t) \/ Borrows(t) \/ Returns(t) \/ Concludes(t) \/ Speaks(t)
  \/ Saves(t) \/ Responds(t) \/ Marks(t) \/ Leaves(t) \/ FailsAll(t)

LEMMA StepMoves ==
  ASSUME TypeInv, NEW t \in Turns, Step(t) \/ Cancel(t)
  PROVE  Moves(t)
<1> USE DEF TypeInv, SeatInv
<1>0. ASSUME Fail(t), UNCHANGED <<sid, stored, permits>>,
             pc[t] \in Preparing \union {"history", "scope", "search", "generate", "generating"}
      PROVE  FailsAll(t) \/ \E e \in Finals : Answer(t, e)
  BY <1>0 DEF Fail, FailsAll, Finals, Errors
<1>1. CASE AssertOwned(t)
  <2>1. Prepares(t) \/ Concludes(t)
    BY <1>1 DEF AssertOwned, Prepares, Concludes, Sits, Preparing, Seated, Finals, Errors, Goto, Answer
  <2> QED
    BY <2>1 DEF Moves
<1>2. CASE GetSession(t)
  <2>1. Prepares(t) \/ Concludes(t)
    BY <1>2, RequestTypes
    DEF GetSession, Prepares, Concludes, Enter, Sits, Preparing, Seated, Finals, Errors, Goto, Answer, Send, SessionIds
  <2> QED
    BY <2>1 DEF Moves
<1>3. CASE InsertSession(t)
  <2>1. Prepares(t)
    BY <1>3 DEF InsertSession, Prepares, Preparing, Seated
  <2> QED
    BY <2>1 DEF Moves
<1>4. CASE SelectSession(t)
  <2>1. Request[t].name \in SessionIds
    BY <1>4 DEF SelectSession, SessionIds
  <2>2. CASE owner[Request[t].name] = None
    <3>1. Fail(t) /\ UNCHANGED <<sid, stored, permits>> /\ pc[t] = "select"
      BY <1>4, <2>2, RequestTypes DEF SelectSession
    <3>2. FailsAll(t) \/ \E e \in Finals : Answer(t, e)
      BY <1>0, <3>1 DEF Preparing
    <3> QED
      BY <3>1, <3>2 DEF Moves, Concludes, Sits, Preparing
  <2>3. CASE owner[Request[t].name] # None
    <3>1. Prepares(t) \/ Concludes(t)
      BY <1>4, <2>1, <2>3, RequestTypes
      DEF SelectSession, Prepares, Concludes, Enter, Sits, Preparing, Seated, Finals, Errors, Goto, Answer, Send
    <3> QED
      BY <3>1 DEF Moves
  <2> QED
    BY <2>2, <2>3
<1>5. CASE CreateFresh(t)
  <2>1. Prepares(t) \/ Concludes(t)
    BY <1>5, RequestTypes
    DEF CreateFresh, Prepares, Concludes, Enter, Sits, Preparing, Seated, Finals, Errors, Goto, Answer, Send
  <2> QED
    BY <2>1 DEF Moves
<1>6. CASE BindCheck(t)
  <2>1. Prepares(t)
    BY <1>6 DEF BindCheck, Prepares, First, Preparing, Seated
  <2> QED
    BY <2>1 DEF Moves
<1>7. CASE Link(t)
  <2>1. CASE owner[sid[t]] = None
    <3>1. FailsAll(t) \/ \E e \in Finals : Answer(t, e)
      BY <1>7, <1>0, <2>1 DEF Link, Preparing
    <3> QED
      BY <1>7, <2>1, <3>1 DEF Link, Moves, Concludes, Sits, Preparing
  <2>2. CASE owner[sid[t]] # None
    <3>1. Prepares(t)
      BY <1>7, <2>2 DEF Link, Prepares, First, Preparing, Seated
    <3> QED
      BY <3>1 DEF Moves
  <2> QED
    BY <2>1, <2>2
<1>8. CASE LoadHistory(t)
  <2>1. Proceeds(t) \/ (Fail(t) /\ Kind(t) = "read") \/ Answer(t, "ok")
    BY <1>8 DEF LoadHistory, Proceeds, AfterHistory, Keep
  <2>2. CASE Fail(t) /\ Kind(t) = "read"
    <3>1. FailsAll(t) \/ \E e \in Finals : Answer(t, e)
      BY <1>8, <1>0, <2>2 DEF LoadHistory
    <3> QED
      BY <1>8, <2>2, <3>1 DEF LoadHistory, Moves, Concludes, Sits, FailsAll
  <2>3. CASE Answer(t, "ok")
    BY <1>8, <2>3 DEF LoadHistory, Moves, Concludes, Sits, Finals
  <2> QED
    BY <2>1, <2>2, <2>3 DEF Moves
<1>9. CASE BeginTransform(t)
  <2>1. Borrows(t)
    BY <1>9 DEF BeginTransform, Borrows
  <2> QED
    BY <2>1 DEF Moves
<1>10. CASE EndTransform(t)
  <2>1. Returns(t)
    BY <1>10 DEF EndTransform, Returns
  <2> QED
    BY <2>1 DEF Moves
<1>11. CASE ResolveScope(t)
  <2>1. Proceeds(t) \/ Concludes(t)
    BY <1>11 DEF ResolveScope, Proceeds, Concludes, AfterScope, Sits, Keep, Finals, Errors
  <2> QED
    BY <2>1 DEF Moves
<1>12. CASE Search(t)
  <2>1. Proceeds(t) \/ Fail(t)
    BY <1>12 DEF Search, Proceeds, Keep
  <2>2. CASE Fail(t)
    <3>1. FailsAll(t) \/ \E e \in Finals : Answer(t, e)
      BY <1>12, <1>0, <2>2 DEF Search
    <3> QED
      BY <1>12, <2>2, <3>1 DEF Search, Moves, Concludes, Sits
  <2> QED
    BY <2>1, <2>2 DEF Moves
<1>13. CASE Token(t)
  <2>1. Speaks(t)
    BY <1>13 DEF Token, Speaks
  <2> QED
    BY <2>1 DEF Moves
<1>14. CASE BeginGenerate(t)
  <2>1. Borrows(t)
    BY <1>14 DEF BeginGenerate, Borrows
  <2> QED
    BY <2>1 DEF Moves
<1>15. CASE Generate(t)
  <2>1. /\ pc[t] \in {"generate", "generating"} /\ UNCHANGED <<sid, stored>>
        /\ permits' = IF pc[t] = "generating" THEN permits + 1 ELSE permits
    BY <1>15 DEF Generate, Generating, Release
  <2>2. CASE Goto(t, "store") /\ UNCHANGED sent
    BY <2>1, <2>2 DEF Moves, Proceeds, Returns, Keep
  <2>3. CASE \E e \in Finals : Answer(t, e)
    BY <2>1, <2>3 DEF Moves, Concludes, Sits
  <2>4. CASE Fail(t)
    <3>1. \E e \in Finals : Answer(t, e)
      BY <2>1, <2>4 DEF Fail, Finals, Errors, Preparing
    <3> QED
      BY <3>1, <2>3
  <2> QED
    BY <1>15, <2>2, <2>3, <2>4 DEF Generate, Finals, Errors
<1>16. CASE Store(t)
  <2>1. Saves(t)
    BY <1>16 DEF Store, Saves
  <2> QED
    BY <2>1 DEF Moves
<1>17. CASE Respond(t)
  <2>1. Responds(t)
    BY <1>17 DEF Respond, Responds, Completes
  <2> QED
    BY <2>1 DEF Moves
<1>18. CASE Marker(t)
  <2>1. Marks(t)
    BY <1>18 DEF Marker, Marks
  <2> QED
    BY <2>1 DEF Moves
<1>19. CASE Cancel(t)
  <2>1. Leaves(t)
    BY <1>19 DEF Cancel, Leaves, Keep
  <2> QED
    BY <2>1 DEF Moves
<1> QED
  BY <1>1, <1>2, <1>3, <1>4, <1>5, <1>6, <1>7, <1>8, <1>9, <1>10, <1>11, <1>12, <1>13, <1>14, <1>15, <1>16,
     <1>17, <1>18, <1>19 DEF Step

LEMMA SeatStep == TypeInv /\ [Next]_vars => SeatInv'
<1> SUFFICES ASSUME TypeInv, [Next]_vars PROVE SeatInv'
  OBVIOUS
<1> USE DEF TypeInv, SeatInv
<1>1. CASE UNCHANGED <<pc, sid>>
  BY <1>1
\* a turn moves on without a change of its session
<1>2. ASSUME NEW t \in Turns, NEW to \in Steps, Goto(t, to), UNCHANGED sid, to \in Seated => pc[t] \in Seated,
             to \in {"insert", "select"} => Request[t].name \in Names
      PROVE  SeatInv'
  BY <1>2 DEF Goto
\* a turn takes a session
<1>3. ASSUME NEW t \in Turns, NEW s \in SessionIds, NEW to \in Steps, Goto(t, to), sid' = [sid EXCEPT ![t] = s],
             to \notin {"insert", "select"}
      PROVE  SeatInv'
  BY <1>3 DEF Goto
\* items move on together
<1>4. ASSUME NEW B \in SUBSET Turns, NEW to \in Steps, pc' = [t \in Turns |-> IF t \in B THEN to ELSE pc[t]],
             UNCHANGED sid, \A t \in B : to \in Seated => pc[t] \in Seated, to \notin {"insert", "select"}
      PROVE  SeatInv'
  BY <1>4
<1>5. ASSUME NEW t \in Turns, Moves(t) PROVE SeatInv'
  <2>1. CASE Prepares(t)
    <3>1. PICK to \in Preparing \union {"history", "scope"} :
            /\ Goto(t, to)
            /\ to \in {"insert", "select"} => Request[t].name \in Names /\ UNCHANGED sid
            /\ \/ UNCHANGED sid /\ (to \in Seated => pc[t] \in Seated)
               \/ \E s \in SessionIds : sid' = [sid EXCEPT ![t] = s]
      BY <2>1 DEF Prepares
    <3>2. to \in Steps
      BY DEF Steps, Seated
    <3>3. CASE UNCHANGED sid /\ (to \in Seated => pc[t] \in Seated)
      BY <3>1, <3>2, <3>3, <1>2
    <3>4. CASE to \notin {"insert", "select"} /\ \E s \in SessionIds : sid' = [sid EXCEPT ![t] = s]
      BY <3>1, <3>2, <3>4, <1>3
    <3>5. CASE to \in {"insert", "select"}
      BY <3>1, <3>2, <3>5, <1>2 DEF Seated
    <3> QED
      BY <3>1, <3>3, <3>4, <3>5
  <2>2. CASE Proceeds(t) \/ Borrows(t) \/ Returns(t) \/ Saves(t) \/ Responds(t) \/ Marks(t) \/ Leaves(t)
    <3>1. \/ \E to \in Seated : Goto(t, to) /\ UNCHANGED sid /\ pc[t] \in Seated /\ to \notin {"insert", "select"}
          \/ \E to \in Over : Goto(t, to) /\ UNCHANGED sid
      BY <2>2 DEF Proceeds, Borrows, Returns, Saves, Responds, Marks, Leaves, Keep, Seated, Over, Answer, Goto
    <3> QED
      BY <3>1, <1>2 DEF Steps, Seated, Over
  <2>3. CASE Concludes(t)
    <3>1. Goto(t, "done") /\ Sits(t)
      BY <2>3 DEF Concludes, Answer
    <3>2. "done" \in Steps /\ "done" \notin Seated
      BY DEF Steps, Seated, Over
    <3> QED
      BY <3>1, <3>2, <1>2, <1>3 DEF Sits
  <2>4. CASE Speaks(t)
    BY <2>4, <1>1 DEF Speaks
  <2>5. CASE FailsAll(t)
    <3>1. "done" \in Steps /\ "done" \notin Seated /\ Items \in SUBSET Turns
      BY DEF Steps, Over, Seated, Items
    <3> QED
      BY <2>5, <3>1, <1>4 DEF FailBatch, FailsAll
  <2> QED
    BY <1>5, <2>1, <2>2, <2>3, <2>4, <2>5 DEF Moves
<1>6. CASE EmbedBatch
  <2> DEFINE B == {t \in Items : pc[t] = "embed"}
  <2>1. B \in SUBSET Turns /\ \A t \in B : pc[t] \in Seated
    BY DEF Items, Seated
  <2>2. "done" \in Steps /\ "scope" \in Steps
    BY DEF Steps, Over, Seated
  <2>3. /\ UNCHANGED sid
        /\ \/ pc' = [t \in Turns |-> IF t \in B THEN "scope" ELSE pc[t]]
           \/ pc' = [t \in Turns |-> IF t \in B THEN "done" ELSE pc[t]]
    BY <1>6 DEF EmbedBatch
  <2> HIDE DEF B
  <2> QED
    BY <2>1, <2>2, <2>3, <1>4 DEF Seated
<1>7. CASE UNCHANGED turnVars
  BY <1>1, <1>7 DEF turnVars
<1> QED
  BY <1>5, <1>6, <1>7, StepMoves
  DEF Next, DeleteSession, DeleteDocument, FeedbackSession, FeedbackMessage, FeedbackInsert, vars

LEMMA FormsStep == TypeInv /\ [Next]_vars => FormsInv'
<1> SUFFICES ASSUME TypeInv, [Next]_vars PROVE FormsInv'
  OBVIOUS
<1> USE DEF TypeInv, FormsInv
<1>1. CASE UNCHANGED fpc
  BY <1>1
<1>2. ASSUME NEW i \in 1..MaxFeedback, NEW n \in Tenants, NEW s \in Names, FeedbackSession(i, n, s) PROVE FormsInv'
  <2>1. PICK about \in stored \union {None} :
          fpc' = [fpc EXCEPT ![i] =
                 [at |-> IF owner[s] # n THEN "done"
                         ELSE IF about = None THEN "insert" ELSE "message",
                  by |-> n, session |-> s, about |-> about]]
    BY <1>2 DEF FeedbackSession
  <2> QED
    BY <2>1 DEF LoadedInv, SessionIds
<1>3. ASSUME NEW i \in 1..MaxFeedback, FeedbackMessage(i) PROVE FormsInv'
  BY <1>3 DEF FeedbackMessage
<1>4. ASSUME NEW i \in 1..MaxFeedback, FeedbackInsert(i) PROVE FormsInv'
  BY <1>4 DEF FeedbackInsert
<1>5. ASSUME NEW t \in Turns, Step(t) \/ Cancel(t) PROVE FormsInv'
  BY <1>1, <1>5 DEF Step, AssertOwned, GetSession, InsertSession, SelectSession, CreateFresh, BindCheck, Link,
     LoadHistory, BeginTransform, EndTransform, ResolveScope, Search, Token, BeginGenerate, Generate, Store,
     Respond, Marker, Cancel
<1> QED
  BY <1>1, <1>2, <1>3, <1>4, <1>5 DEF Next, EmbedBatch, DeleteSession, DeleteDocument, vars

LEMMA TypeStep == TypeInv /\ [Next]_vars => TypeInv'
  BY TablesStep, LoadedStep, SeatStep, FormsStep DEF TypeInv

-----------------------------------------------------------------------------
(* The gate between preparing a batch and working on it.                   *)

\* While an item of the batch is being prepared, no item has begun its work.
Gate ==
  (\E t \in Items : pc[t] \in Preparing)
    => \A u \in Items : pc[u] \in Preparing \union {"history", "done"} /\ u \notin stored

LEMMA GateInit == Init => Gate
<1> SUFFICES ASSUME Init PROVE Gate
  OBVIOUS
<1>1. \A u \in Turns : u \in Items => pc[u] \in {"new", "session"}
  BY DEF Init, Items
<1> QED
  BY <1>1 DEF Init, Gate, Items, Preparing

LEMMA GateStep == TypeInv /\ Gate /\ [Next]_vars => Gate'
<1> SUFFICES ASSUME TypeInv, Gate, [Next]_vars PROVE Gate'
  OBVIOUS
<1> USE DEF TypeInv, SeatInv
<1>1. CASE UNCHANGED <<pc, stored>>
  BY <1>1 DEF Gate, Items
\* one turn moves on: an item leaves Preparing only for history, or for good
<1>2. ASSUME NEW t \in Turns, NEW to, Goto(t, to), pc[t] \notin Over, to # "off",
             stored' \subseteq stored \union {t},
             Kind(t) = "item" /\ pc[t] \in Preparing =>
               to \in Preparing \union {"history", "done"} /\ UNCHANGED stored,
             Kind(t) = "item" /\ pc[t] \notin Preparing =>
               to \notin Preparing /\ (pc[t] = "history" => \A u \in Items : pc[u] \notin Preparing)
      PROVE  Gate'
  <2>1. /\ pc'[t] = to /\ \A u \in Turns : u # t => pc'[u] = pc[u]
        /\ Items' = Items
    BY <1>2 DEF Goto, Items, Over
  <2>2. SUFFICES ASSUME NEW v \in Items, pc'[v] \in Preparing, NEW u \in Items
                 PROVE  pc'[u] \in Preparing \union {"history", "done"} /\ u \notin stored'
    BY <2>1 DEF Gate
  <2>3. v \in Turns /\ u \in Turns /\ Kind(u) = "item" /\ Kind(v) = "item"
    BY DEF Items
  <2>4. pc[v] \in Preparing
    BY <1>2, <2>1, <2>2, <2>3
  <2>5. \A w \in Items : pc[w] \in Preparing \union {"history", "done"} /\ w \notin stored
    BY <2>4 DEF Gate
  <2>6. CASE u = t
    BY <1>2, <2>1, <2>2, <2>3, <2>4, <2>5, <2>6 DEF Over
  <2>7. CASE u # t
    BY <1>2, <2>1, <2>3, <2>5, <2>7
  <2> QED
    BY <2>6, <2>7
<1>3. ASSUME NEW t \in Turns, Moves(t) PROVE Gate'
  <2>1. CASE Prepares(t)
    <3>1. PICK to \in Preparing \union {"history", "scope"} :
            Goto(t, to) /\ (Kind(t) = "item" => to # "scope") /\ pc[t] \in Preparing /\ UNCHANGED stored
      BY <2>1 DEF Prepares
    <3> QED
      BY <3>1, <1>2 DEF Preparing, Over
  <2>2. CASE Proceeds(t)
    <3>1. PICK to \in {"transform", "scope", "history", "search", "generate", "store"} : Goto(t, to)
      BY <2>2 DEF Proceeds
    <3>2. /\ UNCHANGED stored /\ pc[t] \in {"history", "scope", "search", "generate"}
          /\ Kind(t) = "item" /\ pc[t] = "history" => \A u \in Items : pc[u] \notin Preparing
      BY <2>2 DEF Proceeds, Keep, Gathered
    <3>3. pc[t] \notin Over /\ pc[t] \notin Preparing /\ to # "off" /\ to \notin Preparing
      BY <3>2 DEF Preparing, Over
    <3> QED
      BY <3>1, <3>2, <3>3, <1>2
  <2>3. CASE Borrows(t) \/ Returns(t) \/ Saves(t) \/ Responds(t) \/ Marks(t)
    <3>1. PICK to \in {"transforming", "generating", "embed", "store", "complete", "marker", "done"} :
            Goto(t, to) /\ stored' \subseteq stored \union {t}
      BY <2>3 DEF Borrows, Returns, Saves, Responds, Marks, Answer
    <3>2. pc[t] \in {"transform", "generate", "transforming", "generating", "store", "complete", "marker"}
      BY <2>3 DEF Borrows, Returns, Saves, Responds, Marks
    <3>3. pc[t] \notin Over /\ pc[t] # "history" /\ pc[t] \notin Preparing /\ to # "off" /\ to \notin Preparing
      BY <3>2 DEF Preparing, Over
    <3> QED
      BY <3>1, <3>3, <1>2
  <2>4. CASE Concludes(t)
    <3>1. Goto(t, "done") /\ UNCHANGED stored
      BY <2>4 DEF Concludes, Answer
    <3>2. pc[t] \notin Over /\ "done" \notin Preparing
      BY <2>4 DEF Concludes, Preparing, Over
    <3>3. CASE Kind(t) = "item" /\ pc[t] \notin Preparing
      <4>1. Items' = Items /\ pc'[t] = "done" /\ \A u \in Turns : u # t => pc'[u] = pc[u]
        BY <3>1, <3>2 DEF Items, Goto, Over
      <4> QED
        BY <3>1, <3>2, <4>1 DEF Gate, Items
    <3>4. CASE ~(Kind(t) = "item" /\ pc[t] \notin Preparing)
      BY <3>1, <3>2, <3>4, <1>2
    <3> QED
      BY <3>3, <3>4
  <2>5. CASE Leaves(t)
    <3>1. Kind(t) = "stream" /\ Goto(t, "cancelled") /\ UNCHANGED stored /\ pc[t] \notin Over
      BY <2>5 DEF Leaves, Keep, Streaming, Over
    <3> QED
      BY <3>1, <1>2
  <2>6. CASE Speaks(t)
    BY <2>6, <1>1 DEF Speaks
  <2>7. CASE FailsAll(t)
    <3>1. \A u \in Items : pc'[u] = "done" /\ "done" \notin Preparing
      BY <2>7 DEF FailsAll, FailBatch, Preparing, Items
    <3>2. Items' \subseteq Items
      BY <2>7 DEF FailsAll, FailBatch, Items
    <3> QED
      BY <3>1, <3>2 DEF Gate
  <2> QED
    BY <1>3, <2>1, <2>2, <2>3, <2>4, <2>5, <2>6, <2>7 DEF Moves
<1>4. CASE EmbedBatch
  <2>1. \A u \in Items : pc[u] \in {"embed", "done"}
    BY <1>4 DEF EmbedBatch
  <2>2. \A u \in Items : pc'[u] \in {"scope", "done"} 
    BY <1>4, <2>1 DEF EmbedBatch, Items
  <2>3. Items' \subseteq Items
    BY <1>4 DEF EmbedBatch, Items
  <2> QED
    BY <2>2, <2>3 DEF Gate, Preparing
<1>5. CASE UNCHANGED turnVars
  BY <1>1, <1>5 DEF turnVars
<1> QED
  BY <1>3, <1>4, <1>5, StepMoves
  DEF Next, DeleteSession, DeleteDocument, FeedbackSession, FeedbackMessage, FeedbackInsert, vars

-----------------------------------------------------------------------------
(* The permits of the batch semaphore.                                     *)

Working == {t \in Turns : pc[t] \in {"transforming", "generating"}}
PermitsInv == permits \in Nat /\ permits + Cardinality(Working) = LlmLimit

LEMMA WorkingFinite == TypeInv => IsFiniteSet(Working)
  BY FS_Subset, ChatAssumption DEF Working

LEMMA PermitsInit == Init => PermitsInv
<1> SUFFICES ASSUME Init PROVE PermitsInv
  OBVIOUS
<1>1. Working = {}
  BY DEF Init, Working
<1> QED
  BY <1>1, FS_EmptySet, ChatAssumption DEF Init, PermitsInv

LEMMA PermitsStep == TypeInv /\ Gate /\ PermitsInv /\ [Next]_vars => PermitsInv'
<1> SUFFICES ASSUME TypeInv, Gate, PermitsInv, [Next]_vars PROVE PermitsInv'
  OBVIOUS
<1> USE DEF TypeInv, SeatInv
<1>0. IsFiniteSet(Working) /\ Cardinality(Working) \in Nat
  BY WorkingFinite, FS_CardinalityType
<1>1. CASE Working' = Working /\ permits' = permits
  BY <1>1 DEF PermitsInv
<1>2. ASSUME NEW t \in Turns, t \notin Working, Working' = Working \union {t}, permits > 0, permits' = permits - 1
      PROVE  PermitsInv'
  <2>1. Cardinality(Working') = Cardinality(Working) + 1
    BY <1>0, <1>2, FS_AddElement
  <2> QED
    BY <1>0, <1>2, <2>1 DEF PermitsInv
<1>3. ASSUME NEW t \in Turns, t \in Working, Working' = Working \ {t}, permits' = permits + 1
      PROVE  PermitsInv'
  <2>1. Cardinality(Working') = Cardinality(Working) - 1
    BY <1>0, <1>3, FS_RemoveElement
  <2> QED
    BY <1>0, <1>3, <2>1 DEF PermitsInv
<1>4. ASSUME NEW t \in Turns, NEW to, Goto(t, to)
      PROVE  Working' = IF to \in {"transforming", "generating"} THEN Working \union {t} ELSE Working \ {t}
  BY <1>4 DEF Goto, Working
<1>5. ASSUME NEW t \in Turns, Moves(t) PROVE PermitsInv'
  <2>1. CASE Prepares(t) \/ Proceeds(t) \/ Saves(t) \/ Responds(t) \/ Marks(t) \/ Leaves(t)
             \/ (Concludes(t) /\ pc[t] # "generating")
    <3>1. /\ permits' = permits /\ t \notin Working
          /\ \E to : Goto(t, to) /\ to \notin {"transforming", "generating"}
      BY <2>1 DEF Prepares, Proceeds, Saves, Responds, Marks, Leaves, Concludes, Answer, Keep,
          Preparing, Streaming, Working
    <3> QED
      BY <3>1, <1>1, <1>4
  <2>2. CASE Borrows(t)
    <3>1. t \notin Working /\ permits > 0 /\ permits' = permits - 1 /\ Working' = Working \union {t}
      BY <2>2, <1>4 DEF Borrows, Working
    <3> QED
      BY <3>1, <1>2
  <2>3. CASE Returns(t) \/ (Concludes(t) /\ pc[t] = "generating")
    <3>1. t \in Working /\ permits' = permits + 1
      BY <2>3 DEF Returns, Concludes, Working
    <3>2. \E to : Goto(t, to) /\ to \notin {"transforming", "generating"}
      BY <2>3 DEF Returns, Concludes, Answer
    <3>3. Working' = Working \ {t}
      BY <3>2, <1>4
    <3> QED
      BY <3>1, <3>3, <1>3
  <2>4. CASE Speaks(t)
    BY <2>4, <1>1 DEF Speaks, Working
  <2>5. CASE FailsAll(t)
    <3>1. \A u \in Items : u \notin Working
      <4>1. t \in Items
        BY <2>5 DEF FailsAll, Items, Preparing
      <4>2. \A u \in Items : pc[u] \in Preparing \union {"history", "done"}
        BY <2>5, <4>1 DEF FailsAll, Gate
      <4> QED
        BY <4>2 DEF Working, Preparing
    <3>2. Working' = Working /\ permits' = permits
      BY <2>5, <3>1 DEF FailsAll, FailBatch, Working
    <3> QED
      BY <3>2, <1>1
  <2> QED
    BY <1>5, <2>1, <2>2, <2>3, <2>4, <2>5 DEF Moves
<1>6. CASE EmbedBatch
  <2>1. \A u \in Turns : (pc[u] = pc'[u]) \/ (pc[u] = "embed" /\ pc'[u] \in {"scope", "done"})
    BY <1>6 DEF EmbedBatch
  <2>2. Working' = Working /\ permits' = permits
    BY <1>6, <2>1 DEF EmbedBatch, Working
  <2> QED
    BY <2>2, <1>1
<1>7. CASE UNCHANGED turnVars
  BY <1>1, <1>7 DEF turnVars, Working
<1> QED
  BY <1>5, <1>6, <1>7, StepMoves
  DEF Next, DeleteSession, DeleteDocument, FeedbackSession, FeedbackMessage, FeedbackInsert, vars

\* Every permit is free or with an item at work, in every state: no step of an
\* item gives back a permit twice or keeps one.
THEOREM PermitsAlwaysKept == Spec => []PermitsKept
<1>1. Init => TypeInv /\ Gate /\ PermitsInv
  BY TypeInit, GateInit, PermitsInit
<1>2. TypeInv /\ Gate /\ PermitsInv /\ [Next]_vars => (TypeInv /\ Gate /\ PermitsInv)'
  BY TypeStep, GateStep, PermitsStep
<1>3. TypeInv /\ PermitsInv => PermitsKept
  <2> SUFFICES ASSUME TypeInv, PermitsInv PROVE PermitsKept
    OBVIOUS
  <2>1. Cardinality(Working) \in Nat /\ LlmLimit \in Nat
    BY WorkingFinite, FS_CardinalityType, ChatAssumption
  <2>2. permits \in 0 .. LlmLimit
    BY <2>1 DEF PermitsInv
  <2>3. TypeOK
    BY <2>2 DEF TypeInv, TablesInv, LoadedInv, SeatInv, TypeOK, Msg
  <2> QED
    BY <2>3 DEF PermitsKept, PermitsInv, Working
<1> QED
  BY <1>1, <1>2, <1>3, PTL DEF Spec

-----------------------------------------------------------------------------
(* What a turn's client has been told.                                     *)

LEMMA Appended ==
  ASSUME NEW e \in Seq(Events), NEW x \in Events
  PROVE  /\ Append(e, x) \in Seq(Events)
         /\ Len(e) \in Nat
         /\ Len(Append(e, x)) = Len(e) + 1
         /\ Append(e, x)[Len(e) + 1] = x
         /\ \A i \in 1..Len(e) : Append(e, x)[i] = e[i]
         /\ ToSet(Append(e, x)) = ToSet(e) \union {x}
<1>1. /\ Append(e, x) \in Seq(Events) /\ Len(e) \in Nat /\ Len(Append(e, x)) = Len(e) + 1
      /\ Append(e, x)[Len(e) + 1] = x
      /\ \A i \in 1..Len(e) : Append(e, x)[i] = e[i]
      /\ DOMAIN e = 1..Len(e) /\ DOMAIN Append(e, x) = 1..Len(e) + 1
  OBVIOUS
<1> QED
  BY <1>1 DEF ToSet

\* How the events of a turn grow.
LEMMA TokensLonger ==
  ASSUME NEW e \in Seq(Events), Tokens(e)
  PROVE  /\ Tokens(Append(e, "token"))
         /\ \A x \in Finals : Ended(Append(e, x)) /\ x \in Events
         /\ \A x \in Completes : Completed(Append(e, x)) /\ x \in Events
<1>1. "token" \in Events /\ Finals \subseteq Events /\ Completes \subseteq Events
  BY DEF Events
<1>2. Tokens(Append(e, "token"))
  BY <1>1, Appended DEF Tokens
<1>3. ASSUME NEW x \in Finals PROVE Ended(Append(e, x))
  <2> DEFINE f == Append(e, x)
  <2>1. Len(e) \in Nat /\ Len(f) = Len(e) + 1 /\ f[Len(e) + 1] = x /\ \A i \in 1..Len(e) : f[i] = "token"
    BY <1>1, Appended DEF Tokens
  <2> HIDE DEF f
  <2> QED
    BY <2>1 DEF Ended, f
<1>4. ASSUME NEW x \in Completes PROVE Completed(Append(e, x))
  <2> DEFINE f == Append(e, x)
  <2>1. Len(e) \in Nat /\ Len(f) = Len(e) + 1 /\ f[Len(e) + 1] = x /\ \A i \in 1..Len(e) : f[i] = "token"
    BY <1>1, Appended DEF Tokens
  <2> HIDE DEF f
  <2> QED
    BY <2>1 DEF Completed, f
<1> QED
  BY <1>1, <1>2, <1>3, <1>4

LEMMA CompletedLonger ==
  ASSUME NEW e \in Seq(Events), Completed(e)
  PROVE  Marked(Append(e, "done"))
<1> DEFINE f == Append(e, "done")
<1>1. /\ Len(e) \in Nat /\ Len(f) = Len(e) + 1 /\ f[Len(e) + 1] = "done"
      /\ \A i \in 1..Len(e) : f[i] = e[i]
  BY Appended DEF Events
<1>2. Len(e) > 0 /\ e[Len(e)] \in Completes /\ \A i \in 1..Len(e) : i # Len(e) => e[i] = "token"
  BY DEF Completed
<1> HIDE DEF f
<1> QED
  BY <1>1, <1>2 DEF Marked, f

ToldOf(e, at, saved) ==
  /\ e \in Seq(Events)
  /\ saved => at \in {"complete", "marker", "done", "cancelled"}
  /\ "complete_with_id" \in ToSet(e) => saved
  /\ at = "done" => /\ Ended(e) \/ Marked(e)
                    /\ saved => Marked(e) \/ e[Len(e)] = "ok"
  /\ at = "marker" => Completed(e)
  /\ at = "cancelled" => Tokens(e) \/ Completed(e)
  /\ at \notin {"done", "marker", "cancelled"} => Tokens(e)
Told == sent \in [Turns -> Seq(Events)] /\ \A t \in Turns : ToldOf(sent[t], pc[t], t \in stored)

LEMMA ToldInit == Init => Told
<1> SUFFICES ASSUME Init PROVE Told
  OBVIOUS
<1>1. <<>> \in Seq(Events) /\ Tokens(<<>>) /\ ToSet(<<>>) = {}
  BY DEF Tokens, ToSet
<1>2. \A t \in Turns : sent[t] = <<>> /\ t \notin stored /\ pc[t] \notin {"done", "marker", "cancelled"}
  BY DEF Init
<1> QED
  BY <1>1, <1>2 DEF Init, Told, ToldOf

LEMMA ToldStep == TypeInv /\ Gate /\ Told /\ [Next]_vars => Told'
<1> SUFFICES ASSUME TypeInv, Gate, Told, [Next]_vars PROVE Told'
  OBVIOUS
<1> USE DEF TypeInv, SeatInv
<1>1. CASE UNCHANGED <<pc, sent, stored>>
  BY <1>1 DEF Told, ToldOf
\* one turn moves on
<1>2. ASSUME NEW t \in Turns, NEW to, Goto(t, to), NEW e, sent' = [sent EXCEPT ![t] = e],
             stored' \in {stored, stored \union {t}},
             ToldOf(e, to, t \in stored')
      PROVE  Told'
  <2>1. /\ sent'[t] = e /\ pc'[t] = to
        /\ \A u \in Turns : u # t => sent'[u] = sent[u] /\ pc'[u] = pc[u] /\ (u \in stored' <=> u \in stored)
    BY <1>2 DEF Goto, Told
  <2>2. sent' \in [Turns -> Seq(Events)]
    BY <1>2 DEF Told, ToldOf
  <2>3. ASSUME NEW u \in Turns PROVE ToldOf(sent'[u], pc'[u], u \in stored')
    <3>1. CASE u = t
      BY <3>1, <2>1, <1>2
    <3>2. CASE u # t
      <4>1. ToldOf(sent[u], pc[u], u \in stored)
        BY DEF Told
      <4> QED
        BY <4>1, <3>2, <2>1 DEF ToldOf
    <3> QED
      BY <3>1, <3>2
  <2> QED
    BY <2>2, <2>3 DEF Told
\* the events stay, and the turn is not at an end
<1>3. ASSUME NEW t \in Turns, NEW to, Goto(t, to), UNCHANGED <<sent, stored>>, t \notin stored,
             pc[t] \notin {"done", "marker", "cancelled"}, to \notin {"done", "marker"}
      PROVE  Told'
  <2>1. sent' = [sent EXCEPT ![t] = sent[t]] /\ t \notin stored'
    BY <1>3 DEF Told
  <2>2. ToldOf(sent[t], to, t \in stored')
    BY <1>3 DEF Told, ToldOf
  <2> QED
    BY <2>1, <2>2, <1>2, <1>3
<1>4. ASSUME NEW t \in Turns, Moves(t) PROVE Told'
  <2>0. /\ ToldOf(sent[t], pc[t], t \in stored) /\ sent[t] \in Seq(Events)
        /\ sent = [u \in Turns |-> sent[u]]
    BY DEF Told
  <2>1. CASE Prepares(t) \/ Proceeds(t) \/ Borrows(t) \/ Returns(t)
    <3>1. /\ UNCHANGED <<sent, stored>> /\ \E to \in Steps : Goto(t, to) /\ to \notin {"done", "marker"}
          /\ pc[t] \notin {"complete", "done", "marker", "cancelled"}
      BY <2>1 DEF Prepares, Proceeds, Borrows, Returns, Keep, Preparing, Steps, Seated
    <3>2. t \notin stored
      BY <3>1, <2>0 DEF ToldOf
    <3> QED
      BY <3>1, <3>2, <1>3
  <2>2. CASE Concludes(t)
    <3>1. PICK x \in Finals : Answer(t, x)
      BY <2>2 DEF Concludes
    <3>2. pc[t] \notin {"complete", "done", "marker", "cancelled"} /\ UNCHANGED stored
      BY <2>2 DEF Concludes, Preparing
    <3>3. t \notin stored /\ Tokens(sent[t]) /\ "complete_with_id" \notin ToSet(sent[t])
      BY <3>2, <2>0 DEF ToldOf
    <3>4. Ended(Append(sent[t], x)) /\ x \in Events
      BY <3>3, <2>0, TokensLonger
    <3>5. /\ Append(sent[t], x) \in Seq(Events)
          /\ "complete_with_id" \notin ToSet(Append(sent[t], x))
      BY <3>3, <3>4, <2>0, Appended DEF Finals, Errors
    <3>6. ToldOf(Append(sent[t], x), "done", t \in stored')
      BY <3>2, <3>3, <3>4, <3>5 DEF ToldOf
    <3>7. Goto(t, "done") /\ sent' = [sent EXCEPT ![t] = Append(sent[t], x)]
      BY <3>1 DEF Answer, Send
    <3> QED
      BY <3>2, <3>3, <3>6, <3>7, <1>2
  <2>3. CASE Speaks(t)
    <3>1. /\ pc[t] = "generate" /\ UNCHANGED <<pc, stored>>
          /\ sent' = [sent EXCEPT ![t] = Append(sent[t], "token")]
      BY <2>3 DEF Speaks, Send
    <3>2. t \notin stored /\ Tokens(sent[t]) /\ "complete_with_id" \notin ToSet(sent[t])
      BY <3>1, <2>0 DEF ToldOf
    <3>3. /\ Tokens(Append(sent[t], "token")) /\ Append(sent[t], "token") \in Seq(Events)
          /\ "complete_with_id" \notin ToSet(Append(sent[t], "token"))
      BY <3>2, <2>0, TokensLonger, Appended DEF Events
    <3>4. ToldOf(Append(sent[t], "token"), "generate", t \in stored') /\ Goto(t, "generate")
      BY <3>1, <3>2, <3>3 DEF ToldOf, Goto
    <3> QED
      BY <3>1, <3>2, <3>4, <1>2
  <2>4. CASE Saves(t)
    <3>1. Goto(t, "complete") /\ sent' = [sent EXCEPT ![t] = sent[t]] /\ stored' \in {stored, stored \union {t}}
          /\ pc[t] = "store"
      BY <2>0, <2>4 DEF Saves
    <3>2. ToldOf(sent[t], "complete", t \in stored')
      BY <3>1, <2>0 DEF ToldOf
    <3> QED
      BY <3>1, <3>2, <1>2
  <2>5. CASE Responds(t)
    <3>1. pc[t] = "complete" /\ UNCHANGED stored /\ Tokens(sent[t])
      BY <2>5, <2>0 DEF Responds, ToldOf
    <3>2. CASE Answer(t, "ok")
      <4>1. "ok" \in Finals /\ "ok" # "complete_with_id"
        BY DEF Finals
      <4>2. Ended(Append(sent[t], "ok")) /\ "ok" \in Events
        BY <4>1, <3>1, <2>0, TokensLonger
      <4>3. /\ Append(sent[t], "ok") \in Seq(Events)
            /\ ToSet(Append(sent[t], "ok")) = ToSet(sent[t]) \union {"ok"}
            /\ Append(sent[t], "ok")[Len(Append(sent[t], "ok"))] = "ok"
        BY <4>2, <2>0, Appended
      <4>4. ToldOf(Append(sent[t], "ok"), "done", t \in stored')
        BY <4>1, <4>2, <4>3, <3>1, <2>0 DEF ToldOf
      <4>5. Goto(t, "done") /\ sent' = [sent EXCEPT ![t] = Append(sent[t], "ok")]
        BY <3>2 DEF Answer, Send
      <4> QED
        BY <3>1, <4>4, <4>5, <1>2
    <3>3. ASSUME NEW x \in Completes, Goto(t, "marker"), Send(t, x), x = "complete_with_id" => t \in stored
          PROVE  Told'
      <4>1. Completed(Append(sent[t], x)) /\ x \in Events
        BY <3>1, <2>0, TokensLonger
      <4>2. /\ Append(sent[t], x) \in Seq(Events)
            /\ ToSet(Append(sent[t], x)) = ToSet(sent[t]) \union {x}
        BY <4>1, <2>0, Appended
      <4>3. ToldOf(Append(sent[t], x), "marker", t \in stored')
        BY <4>1, <4>2, <3>1, <3>3, <2>0 DEF ToldOf
      <4> QED
        BY <3>1, <3>3, <4>3, <1>2 DEF Send
    <3> QED
      BY <2>5, <3>2, <3>3 DEF Responds
  <2>6. CASE Marks(t)
    <3>1. pc[t] = "marker" /\ UNCHANGED stored /\ Completed(sent[t])
      BY <2>6, <2>0 DEF Marks, ToldOf
    <3>2. Marked(Append(sent[t], "done")) /\ "done" \in Events
      BY <3>1, <2>0, CompletedLonger DEF Events
    <3>3. /\ Append(sent[t], "done") \in Seq(Events)
          /\ ToSet(Append(sent[t], "done")) = ToSet(sent[t]) \union {"done"}
      BY <3>2, <2>0, Appended
    <3>4. ToldOf(Append(sent[t], "done"), "done", t \in stored')
      BY <3>1, <3>2, <3>3, <2>0 DEF ToldOf
    <3>5. Goto(t, "done") /\ sent' = [sent EXCEPT ![t] = Append(sent[t], "done")]
      BY <2>6 DEF Marks, Answer, Send
    <3> QED
      BY <3>1, <3>4, <3>5, <1>2
  <2>7. CASE Leaves(t)
    <3>1. Goto(t, "cancelled") /\ UNCHANGED <<sent, stored>> /\ pc[t] \notin {"done", "cancelled"}
      BY <2>7 DEF Leaves, Keep, Streaming
    <3>2. sent' = [sent EXCEPT ![t] = sent[t]]
      BY <3>1, <2>0
    <3>3. ToldOf(sent[t], "cancelled", t \in stored')
      BY <3>1, <2>0 DEF ToldOf
    <3> QED
      BY <3>1, <3>2, <3>3, <1>2
  <2>8. CASE FailsAll(t)
    <3>1. t \in Items /\ UNCHANGED stored
      BY <2>8 DEF FailsAll, Items, Preparing
    <3>2. \A u \in Items : u \notin stored
      BY <2>8, <3>1 DEF FailsAll, Gate
    <3>3. ToldOf(<<"failed">>, "done", FALSE)
      <4>1. /\ <<"failed">> \in Seq(Events) /\ Len(<<"failed">>) = 1 /\ <<"failed">>[1] = "failed"
            /\ ToSet(<<"failed">>) = {"failed"}
        BY DEF Events, Finals, Errors, ToSet
      <4>2. Ended(<<"failed">>)
        BY <4>1 DEF Ended, Finals, Errors
      <4> QED
        BY <4>1, <4>2 DEF ToldOf
    <3>4. \A u \in Turns : /\ u \in Items => pc'[u] = "done" /\ sent'[u] = <<"failed">>
                           /\ u \notin Items => pc'[u] = pc[u] /\ sent'[u] = sent[u]
      BY <2>8 DEF FailsAll, FailBatch
    <3>5. sent' = [u \in Turns |-> sent'[u]]
      BY <2>8 DEF FailsAll, FailBatch
    <3>6. ASSUME NEW u \in Turns PROVE ToldOf(sent'[u], pc'[u], u \in stored')
      <4>1. CASE u \in Items
        BY <4>1, <3>1, <3>2, <3>3, <3>4 DEF ToldOf
      <4>2. CASE u \notin Items
        BY <4>2, <3>1, <3>4 DEF Told, ToldOf
      <4> QED
        BY <4>1, <4>2
    <3> QED
      BY <3>5, <3>6 DEF Told, ToldOf
  <2> QED
    BY <1>4, <2>1, <2>2, <2>3, <2>4, <2>5, <2>6, <2>7, <2>8 DEF Moves
<1>5. CASE EmbedBatch
  <2>1. UNCHANGED stored
    BY <1>5 DEF EmbedBatch
  <2>2. ASSUME NEW u \in Turns
        PROVE  \/ pc'[u] = pc[u] /\ sent'[u] = sent[u]
               \/ pc[u] = "embed" /\ pc'[u] = "scope" /\ sent'[u] = sent[u]
               \/ pc[u] = "embed" /\ pc'[u] = "done" /\ sent'[u] = Append(sent[u], "failed")
    BY <1>5 DEF EmbedBatch
  <2>3. ASSUME NEW u \in Turns PROVE ToldOf(sent'[u], pc'[u], u \in stored')
    <3>1. ToldOf(sent[u], pc[u], u \in stored)
      BY DEF Told
    <3>2. CASE pc'[u] = pc[u] /\ sent'[u] = sent[u]
      BY <2>1, <3>1, <3>2
    <3>3. CASE pc[u] = "embed"
      <4>1. /\ sent[u] \in Seq(Events) /\ Tokens(sent[u]) /\ u \notin stored
            /\ "complete_with_id" \notin ToSet(sent[u])
        BY <3>1, <3>3 DEF ToldOf
      <4>2. "failed" \in Finals /\ "failed" # "complete_with_id"
        BY DEF Finals, Errors
      <4>3. Ended(Append(sent[u], "failed")) /\ "failed" \in Events
        BY <4>1, <4>2, TokensLonger
      <4>4. /\ Append(sent[u], "failed") \in Seq(Events)
            /\ "complete_with_id" \notin ToSet(Append(sent[u], "failed"))
        BY <4>1, <4>2, <4>3, Appended
      <4> QED
        BY <4>1, <4>3, <4>4, <3>3, <2>1, <2>2 DEF ToldOf
    <3> QED
      BY <2>2, <3>2, <3>3
  <2>4. sent' = [u \in Turns |-> sent'[u]]
    BY <1>5 DEF EmbedBatch, Told
  <2> QED
    BY <2>3, <2>4 DEF Told, ToldOf
<1>6. CASE UNCHANGED turnVars
  BY <1>1, <1>6 DEF turnVars
<1> QED
  BY <1>4, <1>5, <1>6, StepMoves
  DEF Next, DeleteSession, DeleteDocument, FeedbackSession, FeedbackMessage, FeedbackInsert, vars

\* From the shape of a turn's events to what its client may take from them.
LEMMA ToldMeans ==
  ASSUME NEW e, NEW at \in Steps, NEW saved \in BOOLEAN, ToldOf(e, at, saved)
  PROVE  /\ "complete_with_id" \in ToSet(e) => saved
         /\ ToSet(e) \intersect Errors # {} => ~saved
         /\ \A i \in 1..Len(e) :
              /\ e[i] \in {"error", "failed", "not_found", "done"} => i = Len(e)
              /\ e[i] \in Completes => i = Len(e) \/ e[i + 1] = "done"
              /\ e[i] = "done" => i > 1 /\ e[i - 1] \in Completes
<1>0. e \in Seq(Events) /\ Len(e) \in Nat /\ DOMAIN e = 1..Len(e)
  BY DEF ToldOf
<1>1. Tokens(e) \/ Completed(e) \/ Ended(e) \/ Marked(e)
  BY DEF ToldOf
<1>2. \A i \in 1..Len(e) :
        /\ e[i] \in {"error", "failed", "not_found", "done"} => i = Len(e)
        /\ e[i] \in Completes => i = Len(e) \/ e[i + 1] = "done"
        /\ e[i] = "done" => i > 1 /\ e[i - 1] \in Completes
  <2>1. CASE Tokens(e)
    BY <1>0, <2>1 DEF Tokens, Completes
  <2>2. CASE Completed(e)
    BY <1>0, <2>2 DEF Completed, Completes
  <2>3. CASE Ended(e)
    BY <1>0, <2>3 DEF Ended, Completes, Finals, Errors
  <2>4. CASE Marked(e)
    <3> SUFFICES ASSUME NEW i \in 1..Len(e)
                 PROVE  /\ e[i] \in {"error", "failed", "not_found", "done"} => i = Len(e)
                        /\ e[i] \in Completes => i = Len(e) \/ e[i + 1] = "done"
                        /\ e[i] = "done" => i > 1 /\ e[i - 1] \in Completes
      OBVIOUS
    <3>0. i \in Nat /\ i <= Len(e) /\ Len(e) \in Nat
      BY <1>0
    <3>1. i < Len(e) - 1 \/ i = Len(e) - 1 \/ i = Len(e)
      BY <3>0
    <3>2. CASE i < Len(e) - 1
      BY <3>0, <3>2, <2>4 DEF Marked, Completes
    <3>3. CASE i = Len(e) - 1
      <4>1. i + 1 = Len(e)
        BY <3>0, <3>3
      <4> QED
        BY <4>1, <3>3, <2>4 DEF Marked, Completes
    <3>4. CASE i = Len(e)
      BY <3>0, <3>4, <2>4 DEF Marked, Completes
    <3> QED
      BY <3>1, <3>2, <3>3, <3>4
  <2> QED
    BY <1>1, <2>1, <2>2, <2>3, <2>4
<1>3. ASSUME saved PROVE \A i \in 1..Len(e) : e[i] \notin Errors
  <2>1. Tokens(e) \/ Completed(e) \/ Marked(e) \/ (Ended(e) /\ e[Len(e)] = "ok")
    BY <1>3 DEF ToldOf
  <2>2. CASE Tokens(e)
    BY <1>0, <2>2 DEF Tokens, Errors
  <2>3. CASE Completed(e)
    BY <1>0, <2>3 DEF Completed, Completes, Errors
  <2>4. CASE Ended(e) /\ e[Len(e)] = "ok"
    BY <1>0, <2>4 DEF Ended, Errors
  <2>5. CASE Marked(e)
    <3> SUFFICES ASSUME NEW i \in 1..Len(e) PROVE e[i] \notin Errors
      OBVIOUS
    <3>0. i \in Nat /\ i <= Len(e) /\ Len(e) \in Nat
      BY <1>0
    <3>1. i < Len(e) - 1 \/ i = Len(e) - 1 \/ i = Len(e)
      BY <3>0
    <3> QED
      BY <3>1, <2>5 DEF Marked, Completes, Errors
  <2> QED
    BY <2>1, <2>2, <2>3, <2>4, <2>5
<1> QED
  BY <1>0, <1>2, <1>3 DEF ToldOf, ToSet

\* A client is told of its turn what was done with it: a message id only of a
\* stored answer, an error only of a turn that stored nothing, and on a stream
\* nothing after the event that ends it.
THEOREM ClientsToldTrue == Spec => []TellsWhatWasStored
<1>1. Init => TypeInv /\ Gate /\ Told
  BY TypeInit, GateInit, ToldInit
<1>2. TypeInv /\ Gate /\ Told /\ [Next]_vars => (TypeInv /\ Gate /\ Told)'
  BY TypeStep, GateStep, ToldStep
<1>3. TypeInv /\ Told => TellsWhatWasStored
  <2> SUFFICES ASSUME TypeInv, Told PROVE TellsWhatWasStored
    OBVIOUS
  <2>1. ASSUME NEW t \in Turns
        PROVE  /\ "complete_with_id" \in ToSet(sent[t]) => t \in stored
               /\ ToSet(sent[t]) \intersect Errors # {} => t \notin stored
               /\ \A i \in 1..Len(sent[t]) :
                    /\ sent[t][i] \in {"error", "failed", "not_found", "done"} => i = Len(sent[t])
                    /\ sent[t][i] \in Completes => i = Len(sent[t]) \/ sent[t][i + 1] = "done"
                    /\ sent[t][i] = "done" => i > 1 /\ sent[t][i - 1] \in Completes
    <3>1. ToldOf(sent[t], pc[t], t \in stored) /\ pc[t] \in Steps /\ (t \in stored) \in BOOLEAN
      BY DEF Told, TypeInv, SeatInv
    <3> QED
      BY <3>1, ToldMeans, Zenon
  <2>2. ToldAsStored
    BY <2>1 DEF ToldAsStored, Errors
  <2>3. StreamContract
    BY <2>1 DEF StreamContract
  <2> QED
    BY <2>2, <2>3 DEF TellsWhatWasStored
<1> QED
  BY <1>1, <1>2, <1>3, PTL DEF Spec

-----------------------------------------------------------------------------
(* The messages, the histories that are made of them, and feedback.        *)

\* A turn that has stored its messages keeps its session.
LEMMA StoredStay == TypeInv /\ Told /\ [Next]_vars => stored \subseteq stored' /\ \A u \in stored : sid'[u] = sid[u]
<1> SUFFICES ASSUME TypeInv, Told, [Next]_vars
             PROVE  stored \subseteq stored' /\ \A u \in stored : sid'[u] = sid[u]
  OBVIOUS
<1>1. ASSUME NEW t \in Turns, Moves(t) PROVE stored \subseteq stored' /\ \A u \in stored : sid'[u] = sid[u]
  <2>1. CASE Prepares(t) \/ Concludes(t)
    <3>1. /\ UNCHANGED stored
          /\ \/ UNCHANGED sid
             \/ (pc[t] \in Preparing /\ \E s \in SessionIds : sid' = [sid EXCEPT ![t] = s])
      BY <2>1 DEF Prepares, Concludes, Sits
    <3>2. pc[t] \in Preparing => t \notin stored
      BY DEF Told, ToldOf, Preparing
    <3> QED
      BY <3>1, <3>2 DEF TypeInv, SeatInv, LoadedInv
  <2>2. CASE ~(Prepares(t) \/ Concludes(t))
    <3>1. UNCHANGED sid /\ stored \subseteq stored'
      BY <1>1, <2>2 DEF Moves, Proceeds, Borrows, Returns, Speaks, Saves, Responds, Marks, Leaves, FailsAll, Keep
    <3> QED
      BY <3>1
  <2> QED
    BY <2>1, <2>2
<1>2. CASE EmbedBatch \/ UNCHANGED turnVars
  BY <1>2 DEF EmbedBatch, turnVars
<1> QED
  BY <1>1, <1>2, StepMoves
  DEF Next, DeleteSession, DeleteDocument, FeedbackSession, FeedbackMessage, FeedbackInsert, vars

WholeInv == \A s \in SessionIds : Whole(messages[s])
\* A message is of a stored turn, and in the session of its turn.
PlacedInv == \A s \in SessionIds : \A m \in ToSet(messages[s]) : m.turn \in stored /\ sid[m.turn] = s
MessagesInv == WholeInv /\ PlacedInv

LEMMA TurnAppended ==
  ASSUME NEW seq \in Seq(Msg), NEW t \in Turns
  PROVE  /\ seq \o <<Message(t, "user"), Message(t, "assistant")>> \in Seq(Msg)
         /\ Whole(seq) => Whole(seq \o <<Message(t, "user"), Message(t, "assistant")>>)
         /\ ToSet(seq \o <<Message(t, "user"), Message(t, "assistant")>>)
              = ToSet(seq) \union {Message(t, "user"), Message(t, "assistant")}
<1> DEFINE a == Message(t, "user")
           b == Message(t, "assistant")
           q == seq \o <<a, b>>
<1>1. a \in Msg /\ b \in Msg /\ a.turn = b.turn /\ a.role = "user" /\ b.role = "assistant"
  BY DEF Message, Msg, Roles
<1> HIDE DEF a, b
<1>2. <<a, b>> \in Seq(Msg) /\ Len(<<a, b>>) = 2
  BY <1>1
<1>3. /\ q \in Seq(Msg) /\ Len(q) = Len(seq) + 2 /\ Len(seq) \in Nat
      /\ \A i \in 1..Len(seq) : q[i] = seq[i]
      /\ q[Len(seq) + 1] = a /\ q[Len(seq) + 2] = b
  BY <1>1, <1>2
<1>4. q = Append(Append(seq, a), b)
  BY <1>1, <1>3
<1>5. Whole(seq) => Whole(q)
  BY <1>1, <1>4, WholeLonger
<1>6. ToSet(q) = ToSet(seq) \union {a, b}
  <2>1. DOMAIN q = 1..Len(seq) + 2 /\ DOMAIN seq = 1..Len(seq)
    BY <1>3
  <2> HIDE DEF q
  <2> QED
    BY <1>3, <2>1 DEF ToSet
<1> QED
  BY <1>3, <1>5, <1>6 DEF a, b

LEMMA MessagesInit == Init => MessagesInv
<1> SUFFICES ASSUME Init PROVE MessagesInv
  OBVIOUS
<1>1. Whole(<<>>) /\ ToSet(<<>>) = {}
  BY DEF Whole, ToSet
<1> QED
  BY <1>1 DEF Init, MessagesInv, WholeInv, PlacedInv

LEMMA MessagesStep == TypeInv /\ Told /\ MessagesInv /\ [Next]_vars => MessagesInv'
<1> SUFFICES ASSUME TypeInv, Told, MessagesInv, [Next]_vars PROVE MessagesInv'
  OBVIOUS
<1>0. stored \subseteq stored' /\ \A u \in stored : sid'[u] = sid[u]
  BY StoredStay
<1>1. CASE UNCHANGED messages
  BY <1>0, <1>1 DEF MessagesInv, WholeInv, PlacedInv
<1>2. ASSUME NEW t \in Turns, Store(t) PROVE MessagesInv'
  <2> DEFINE s == sid[t]
             two == <<Message(t, "user"), Message(t, "assistant")>>
  <2>1. s \in SessionIds /\ messages[s] \in Seq(Msg) /\ DOMAIN messages = SessionIds
    BY <1>2 DEF Store, TypeInv, SeatInv, Seated, TablesInv
  <2>2. CASE UNCHANGED messages
    BY <2>2, <1>1
  <2>3. CASE messages' = [messages EXCEPT ![s] = @ \o two] /\ stored' = stored \union {t}
    <3>1. /\ messages'[s] = messages[s] \o two
          /\ \A r \in SessionIds : r # s => messages'[r] = messages[r]
      BY <2>1, <2>3
    <3>2. /\ Whole(messages'[s])
          /\ ToSet(messages'[s]) = ToSet(messages[s]) \union {Message(t, "user"), Message(t, "assistant")}
      BY <2>1, <3>1, TurnAppended DEF MessagesInv, WholeInv
    <3>3. sid'[t] = s /\ t \in stored' /\ Message(t, "user").turn = t /\ Message(t, "assistant").turn = t
      BY <1>2, <2>3 DEF Store, Message
    <3> HIDE DEF s, two
    <3>4. WholeInv'
      BY <3>1, <3>2 DEF MessagesInv, WholeInv
    <3>5. PlacedInv'
      <4> SUFFICES ASSUME NEW r \in SessionIds, NEW m \in ToSet(messages'[r])
                   PROVE  m.turn \in stored' /\ sid'[m.turn] = r
        BY DEF PlacedInv
      <4>1. CASE m \in ToSet(messages[r])
        BY <1>0, <4>1 DEF MessagesInv, PlacedInv
      <4>2. CASE m \notin ToSet(messages[r])
        BY <3>1, <3>2, <3>3, <4>2
      <4> QED
        BY <4>1, <4>2
    <3> QED
      BY <3>4, <3>5 DEF MessagesInv
  <2> QED
    BY <1>2, <2>2, <2>3 DEF Store
<1>3. ASSUME NEW n \in Tenants, NEW s \in Names, DeleteSession(n, s) PROVE MessagesInv'
  <2>1. s \in SessionIds /\ messages[s] \in Seq(Msg) /\ DOMAIN messages = SessionIds
    BY DEF TypeInv, TablesInv, SessionIds
  <2> DEFINE K == ToSet(messages[s]) \ Removed(s)
  <2>2. messages'[s] = Kept(messages[s], K) /\ \A r \in SessionIds : r # s => messages'[r] = messages[r]
    BY <1>3, <2>1 DEF DeleteSession
  <2>3. Whole(messages[s])
    BY <2>1 DEF MessagesInv, WholeInv
  <2>4. ASSUME NEW i \in 1..Len(messages[s]), i % 2 = 1
        PROVE  messages[s][i] \in K <=> messages[s][i + 1] \in K
    <3>1. i < Len(messages[s]) /\ messages[s][i].turn = messages[s][i + 1].turn
      BY <2>3, <2>4 DEF Whole
    <3>2. Len(messages[s]) \in Nat /\ DOMAIN messages[s] = 1..Len(messages[s])
      BY <2>1
    <3>3. i + 1 \in 1..Len(messages[s])
      BY <3>1, <3>2
    <3>4. messages[s][i] \in ToSet(messages[s]) /\ messages[s][i + 1] \in ToSet(messages[s])
      BY <3>2, <3>3 DEF ToSet
    <3> QED
      BY <3>1, <3>4 DEF Removed
  <2> HIDE DEF K
  <2>5. Whole(Kept(messages[s], K)) /\ ToSet(Kept(messages[s], K)) \subseteq ToSet(messages[s])
    BY <2>1, <2>3, <2>4, KeptWhole, KeptElements
  <2>6. UNCHANGED <<sid, stored>>
    BY <1>3 DEF DeleteSession, turnVars
  <2> QED
    BY <2>2, <2>5, <2>6 DEF MessagesInv, WholeInv, PlacedInv
<1>4. ASSUME NEW t \in Turns, Step(t) \/ Cancel(t) PROVE MessagesInv'
  <2>1. UNCHANGED messages \/ Store(t)
    BY <1>4 DEF Step, tables, AssertOwned, GetSession, InsertSession, SelectSession, CreateFresh, BindCheck, Link,
       LoadHistory, BeginTransform, EndTransform, ResolveScope, Search, Token, BeginGenerate, Generate,
       Respond, Marker, Cancel
  <2> QED
    BY <2>1, <1>1, <1>2
<1> QED
  BY <1>1, <1>3, <1>4
  DEF Next, EmbedBatch, DeleteDocument, FeedbackSession, FeedbackMessage, FeedbackInsert, vars, tables

\* What a turn loads: its tenant's messages, whole turns but for the oldest.
LEMMA Loads ==
  ASSUME TypeInv, MessagesInv, NEW t \in Turns, sid[t] \in SessionIds
  PROVE  LET h == Newest(HistoryOf(sid[t], Tenant(t)), Limit(t)) IN
         /\ h \in Seq(Msg)
         /\ \A m \in ToSet(h) : Tenant(m.turn) = Tenant(t)
         /\ CutTo(h, Limit(t))
<1> DEFINE seq == messages[sid[t]]
           K == {m \in ToSet(seq) : Tenant(m.turn) = Tenant(t)}
           kept == Kept(seq, K)
<1>1. seq \in Seq(Msg) /\ Whole(seq) /\ Limit(t) \in Nat
  BY RequestTypes DEF TypeInv, TablesInv, MessagesInv, WholeInv
<1>2. kept = HistoryOf(sid[t], Tenant(t))
  BY DEF HistoryOf
<1>3. ASSUME NEW i \in 1..Len(seq), i % 2 = 1 PROVE seq[i] \in K <=> seq[i + 1] \in K
  <2>1. i < Len(seq) /\ seq[i].turn = seq[i + 1].turn
    BY <1>1, <1>3 DEF Whole
  <2>2. Len(seq) \in Nat /\ DOMAIN seq = 1..Len(seq)
    BY <1>1
  <2>3. i + 1 \in 1..Len(seq)
    BY <2>1, <2>2
  <2>4. seq[i] \in ToSet(seq) /\ seq[i + 1] \in ToSet(seq)
    BY <2>2, <2>3 DEF ToSet
  <2> QED
    BY <2>1, <2>4
<1>4. \A m \in K : Tenant(m.turn) = Tenant(t)
  OBVIOUS
<1> HIDE DEF seq, K
<1>5. kept \in Seq(Msg) /\ ToSet(kept) \subseteq K /\ Whole(kept)
  BY <1>1, <1>3, KeptElements, KeptWhole
<1> HIDE DEF kept
<1>6. /\ Newest(kept, Limit(t)) \in Seq(Msg)
      /\ ToSet(Newest(kept, Limit(t))) \subseteq ToSet(kept)
      /\ CutTo(Newest(kept, Limit(t)), Limit(t))
  BY <1>1, <1>5, NewestElements, NewestCutTo
<1> QED
  BY <1>2, <1>4, <1>5, <1>6

LEMMA ApartInit == Init => HistoryIsOwn /\ SourcesAreOwn /\ (\A t \in Turns : CutTo(history[t], Limit(t)))
<1> SUFFICES ASSUME Init PROVE HistoryIsOwn /\ SourcesAreOwn /\ (\A t \in Turns : CutTo(history[t], Limit(t)))
  OBVIOUS
<1>1. \A t \in Turns : Len(history[t]) = 0 /\ sources[t] = {}
  BY DEF Init
<1> QED
  BY <1>1 DEF HistoryIsOwn, SourcesAreOwn, CutTo, Whole

\* One turn's history is that of its tenant, and cut to its limit.
LEMMA HistoryStep ==
  ASSUME TypeInv, MessagesInv, [Next]_vars
  PROVE  /\ HistoryIsOwn => HistoryIsOwn'
         /\ (\A t \in Turns : CutTo(history[t], Limit(t))) => \A t \in Turns : CutTo(history'[t], Limit(t))
<1>1. CASE UNCHANGED history
  BY <1>1 DEF HistoryIsOwn
<1>2. ASSUME NEW t \in Turns, LoadHistory(t), history' # history
      PROVE  /\ HistoryIsOwn => HistoryIsOwn'
             /\ (\A u \in Turns : CutTo(history[u], Limit(u))) => \A u \in Turns : CutTo(history'[u], Limit(u))
  <2> DEFINE h == Newest(HistoryOf(sid[t], Tenant(t)), Limit(t))
  <2>1. sid[t] \in SessionIds
    BY <1>2 DEF LoadHistory, TypeInv, SeatInv, Seated
  <2>2. /\ h \in Seq(Msg)
        /\ \A m \in ToSet(h) : Tenant(m.turn) = Tenant(t)
        /\ CutTo(h, Limit(t))
    BY <2>1, Loads
  <2>3. history' = [history EXCEPT ![t] = h]
    BY <1>2 DEF LoadHistory
  <2> HIDE DEF h
  <2>4. history'[t] = h /\ \A u \in Turns : u # t => history'[u] = history[u]
    BY <2>3 DEF TypeInv, LoadedInv
  <2>5. \A i \in 1..Len(h) : Tenant(h[i].turn) = Tenant(t)
    BY <2>2 DEF ToSet
  <2> QED
    BY <2>2, <2>4, <2>5 DEF HistoryIsOwn
<1>3. ASSUME NEW t \in Turns, Step(t) \/ Cancel(t) PROVE UNCHANGED history \/ LoadHistory(t)
  BY <1>3 DEF Step, AssertOwned, GetSession, InsertSession, SelectSession, CreateFresh, BindCheck, Link,
     BeginTransform, EndTransform, ResolveScope, Search, Token, BeginGenerate, Generate, Store,
     Respond, Marker, Cancel
<1>4. UNCHANGED history \/ \E t \in Turns : LoadHistory(t)
  BY <1>3 DEF Next, EmbedBatch, DeleteSession, DeleteDocument,
     FeedbackSession, FeedbackMessage, FeedbackInsert, vars, turnVars
<1> QED
  BY <1>1, <1>2, <1>4

LEMMA SourcesStep == TypeInv /\ SourcesAreOwn /\ [Next]_vars => SourcesAreOwn'
<1> SUFFICES ASSUME TypeInv, SourcesAreOwn, [Next]_vars PROVE SourcesAreOwn'
  OBVIOUS
<1>1. CASE UNCHANGED sources
  BY <1>1 DEF SourcesAreOwn
<1>2. ASSUME NEW t \in Turns, Search(t) PROVE SourcesAreOwn'
  <2>1. sources' = [sources EXCEPT ![t] = scope[t] \intersect Owned(Tenant(t))] \/ sources' = sources
    BY <1>2 DEF Search
  <2>2. \A u \in Turns : sources'[u] = sources[u] \/ (u = t /\ sources'[u] \subseteq Owned(Tenant(u)))
    BY <2>1 DEF TypeInv, LoadedInv
  <2>3. \A u \in Turns : \A d \in Owned(Tenant(u)) : DocOwner[d] = Tenant(u)
    BY DEF Owned
  <2> QED
    BY <2>2, <2>3 DEF SourcesAreOwn
<1>3. ASSUME NEW t \in Turns, Step(t) \/ Cancel(t) PROVE UNCHANGED sources \/ Search(t)
  BY <1>3 DEF Step, AssertOwned, GetSession, InsertSession, SelectSession, CreateFresh, BindCheck, Link,
     LoadHistory, BeginTransform, EndTransform, ResolveScope, Token, BeginGenerate, Generate, Store,
     Respond, Marker, Cancel
<1> QED
  BY <1>1, <1>2, <1>3
  DEF Next, EmbedBatch, DeleteSession, DeleteDocument, FeedbackSession, FeedbackMessage, FeedbackInsert, vars, turnVars

-----------------------------------------------------------------------------
(* Feedback.                                                               *)

\* What a feedback request has checked when it inserts still holds: the message
\* it names is of its tenant, and can only be in its session.
CheckedInv ==
  \A i \in 1..MaxFeedback :
    /\ fpc[i].about # None => fpc[i].about \in stored
    /\ fpc[i].at = "insert" /\ fpc[i].about # None =>
         Tenant(fpc[i].about) = fpc[i].by /\ sid[fpc[i].about] = fpc[i].session
FeedbackInv == FeedbackLinked /\ CheckedInv

LEMMA FeedbackInit == Init => FeedbackInv
  BY DEF Init, FeedbackInv, FeedbackLinked, CheckedInv

LEMMA CheckedStep == TypeInv /\ Told /\ MessagesInv /\ CheckedInv /\ [Next]_vars => CheckedInv'
<1> SUFFICES ASSUME TypeInv, Told, MessagesInv, CheckedInv, [Next]_vars PROVE CheckedInv'
  OBVIOUS
<1>0. stored \subseteq stored' /\ \A u \in stored : sid'[u] = sid[u]
  BY StoredStay
<1>1. CASE UNCHANGED fpc
  BY <1>0, <1>1 DEF CheckedInv
<1>2. ASSUME NEW i \in 1..MaxFeedback, UNCHANGED turnVars,
             \A j \in 1..MaxFeedback : j # i => fpc'[j] = fpc[j],
             fpc'[i].about # None => fpc'[i].about \in stored,
             fpc'[i].at = "insert" /\ fpc'[i].about # None =>
               Tenant(fpc'[i].about) = fpc'[i].by /\ sid[fpc'[i].about] = fpc'[i].session
      PROVE  CheckedInv'
  BY <1>2 DEF CheckedInv, turnVars
<1>3. ASSUME NEW i \in 1..MaxFeedback, NEW n \in Tenants, NEW s \in Names, FeedbackSession(i, n, s) PROVE CheckedInv'
  <2>1. PICK about \in stored \union {None} :
          fpc' = [fpc EXCEPT ![i] =
                 [at |-> IF owner[s] # n THEN "done"
                         ELSE IF about = None THEN "insert" ELSE "message",
                  by |-> n, session |-> s, about |-> about]]
    BY <1>3 DEF FeedbackSession
  <2>2. UNCHANGED turnVars
    BY <1>3 DEF FeedbackSession
  <2>3. fpc'[i].about = about /\ (about # None => fpc'[i].at # "insert")
        /\ \A j \in 1..MaxFeedback : j # i => fpc'[j] = fpc[j]
    BY <2>1 DEF TypeInv, FormsInv
  <2> QED
    BY <2>2, <2>3, <1>2
<1>4. ASSUME NEW i \in 1..MaxFeedback, FeedbackMessage(i) PROVE CheckedInv'
  <2>1. /\ fpc'[i].about = fpc[i].about /\ fpc'[i].by = fpc[i].by /\ fpc'[i].session = fpc[i].session
        /\ fpc'[i].at = IF ValidMessage(fpc[i]) THEN "insert" ELSE "done"
        /\ \A j \in 1..MaxFeedback : j # i => fpc'[j] = fpc[j]
    BY <1>4 DEF FeedbackMessage, TypeInv, FormsInv
  <2>2. fpc[i].session \in SessionIds
    BY <1>4 DEF FeedbackMessage, TypeInv, FormsInv
  <2>3. ASSUME ValidMessage(fpc[i]) PROVE Tenant(fpc[i].about) = fpc[i].by /\ sid[fpc[i].about] = fpc[i].session
    <3>1. /\ Tenant(fpc[i].about) = fpc[i].by
          /\ Message(fpc[i].about, "assistant") \in ToSet(messages[fpc[i].session])
      BY <2>3 DEF ValidMessage
    <3>2. Message(fpc[i].about, "assistant").turn = fpc[i].about
      BY DEF Message
    <3> QED
      BY <2>2, <3>1, <3>2 DEF MessagesInv, PlacedInv
  <2>4. UNCHANGED turnVars /\ (fpc[i].about # None => fpc[i].about \in stored)
    BY <1>4 DEF FeedbackMessage, CheckedInv
  <2> QED
    BY <2>1, <2>3, <2>4, <1>2
<1>5. ASSUME NEW i \in 1..MaxFeedback, FeedbackInsert(i) PROVE CheckedInv'
  <2>1. /\ fpc'[i].about = fpc[i].about /\ fpc'[i].at = "done"
        /\ \A j \in 1..MaxFeedback : j # i => fpc'[j] = fpc[j]
    BY <1>5 DEF FeedbackInsert, TypeInv, FormsInv
  <2>2. UNCHANGED turnVars /\ (fpc[i].about # None => fpc[i].about \in stored)
    BY <1>5 DEF FeedbackInsert, CheckedInv
  <2> QED
    BY <2>1, <2>2, <1>2
<1>6. ASSUME NEW t \in Turns, Step(t) \/ Cancel(t) PROVE UNCHANGED fpc
  BY <1>6 DEF Step, AssertOwned, GetSession, InsertSession, SelectSession, CreateFresh, BindCheck, Link,
     LoadHistory, BeginTransform, EndTransform, ResolveScope, Search, Token, BeginGenerate, Generate, Store,
     Respond, Marker, Cancel
<1> QED
  BY <1>1, <1>3, <1>4, <1>5, <1>6 DEF Next, EmbedBatch, DeleteSession, DeleteDocument, vars

LEMMA LinkedStep ==
  TypeInv /\ MessagesInv /\ CheckedInv /\ FeedbackLinked /\ [Next]_vars => FeedbackLinked'
<1> SUFFICES ASSUME TypeInv, MessagesInv, CheckedInv, FeedbackLinked, [Next]_vars PROVE FeedbackLinked'
  OBVIOUS
<1> USE DEF TypeInv, TablesInv
<1>0. \A f \in feedback : f.session \in SessionIds
  BY DEF FeedbackRows
\* messages are only added
<1>1. ASSUME UNCHANGED feedback, \A s \in SessionIds : ToSet(messages[s]) \subseteq ToSet(messages'[s])
      PROVE  FeedbackLinked'
  BY <1>0, <1>1 DEF FeedbackLinked
<1>2. CASE UNCHANGED <<feedback, messages>>
  BY <1>2, <1>1
<1>3. ASSUME NEW t \in Turns, Store(t) PROVE FeedbackLinked'
  <2>1. sid[t] \in SessionIds /\ messages[sid[t]] \in Seq(Msg) /\ UNCHANGED feedback
    BY <1>3 DEF Store, SeatInv, Seated
  <2> DEFINE q == messages[sid[t]] \o <<Message(t, "user"), Message(t, "assistant")>>
  <2>2. ToSet(messages[sid[t]]) \subseteq ToSet(q)
    BY <2>1, TurnAppended
  <2>3. messages' = [messages EXCEPT ![sid[t]] = q] \/ messages' = messages
    BY <1>3 DEF Store
  <2> HIDE DEF q
  <2>4. \A s \in SessionIds : messages'[s] = messages[s] \/ (s = sid[t] /\ messages'[s] = q)
    BY <2>1, <2>3
  <2>5. \A s \in SessionIds : ToSet(messages[s]) \subseteq ToSet(messages'[s])
    BY <2>2, <2>4
  <2> QED
    BY <2>1, <2>5, <1>1
<1>4. ASSUME NEW n \in Tenants, NEW s \in Names, DeleteSession(n, s) PROVE FeedbackLinked'
  <2>1. s \in SessionIds /\ messages[s] \in Seq(Msg)
    BY DEF SessionIds
  <2>2. /\ messages'[s] = Kept(messages[s], ToSet(messages[s]) \ Removed(s))
        /\ \A r \in SessionIds : r # s => messages'[r] = messages[r]
    BY <1>4, <2>1 DEF DeleteSession
  <2>3. ToSet(messages'[s]) = ToSet(messages[s]) \ Removed(s)
    BY <2>1, <2>2, KeptElements
  <2>4. SUFFICES ASSUME NEW g \in feedback', g.about # None
                 PROVE  Tenant(g.about) = g.by /\ Message(g.about, "assistant") \in ToSet(messages'[g.session])
    BY DEF FeedbackLinked
  <2> DEFINE gone == {m.turn : m \in Removed(s)}
  <2>5. PICK f \in feedback : g = IF f.about \in gone THEN [f EXCEPT !.about = None] ELSE f
    BY <1>4 DEF DeleteSession, Cleared
  <2>6. f \in FeedbackRows
    OBVIOUS
  <2>7. g = f /\ f.about \notin gone
    <3>1. CASE f.about \in gone
      <4>1. g = [f EXCEPT !.about = None]
        BY <2>5, <3>1
      <4>2. g.about = None
        BY <4>1, <2>6 DEF FeedbackRows
      <4> QED
        BY <4>2, <2>4
    <3>2. CASE f.about \notin gone
      BY <2>5, <3>2
    <3> QED
      BY <3>1, <3>2
  <2>8. /\ Tenant(f.about) = f.by /\ f.session \in SessionIds
        /\ Message(f.about, "assistant") \in ToSet(messages[f.session])
    BY <2>4, <2>7, <1>0 DEF FeedbackLinked
  <2>9. Message(f.about, "assistant").turn = f.about
    BY DEF Message
  <2>10. CASE f.session = s
    BY <2>3, <2>7, <2>8, <2>9, <2>10
  <2>11. CASE f.session # s
    BY <2>2, <2>7, <2>8, <2>11
  <2> QED
    BY <2>10, <2>11
<1>5. ASSUME NEW i \in 1..MaxFeedback, FeedbackInsert(i) PROVE FeedbackLinked'
  <2> DEFINE f == fpc[i]
             row == [id |-> i, by |-> f.by, session |-> f.session, about |-> f.about]
  <2>1. UNCHANGED messages /\ f.at = "insert" /\ f.session \in SessionIds
    BY <1>5 DEF FeedbackInsert, FormsInv
  <2>2. CASE UNCHANGED feedback
    BY <2>1, <2>2, <1>2
  <2>3. CASE feedback' = feedback \union {row} /\ (f.about = None \/ MessageExists(f.about))
    <3>1. ASSUME f.about # None
          PROVE  Tenant(f.about) = f.by /\ Message(f.about, "assistant") \in ToSet(messages[f.session])
      <4>1. PICK s \in SessionIds : Message(f.about, "assistant") \in ToSet(messages[s])
        BY <2>3, <3>1 DEF MessageExists
      <4>2. Message(f.about, "assistant").turn = f.about
        BY DEF Message
      <4>3. sid[f.about] = s
        BY <4>1, <4>2 DEF MessagesInv, PlacedInv
      <4>4. Tenant(f.about) = f.by /\ sid[f.about] = f.session
        BY <2>1, <3>1 DEF CheckedInv
      <4> QED
        BY <4>1, <4>3, <4>4
    <3>2. row.about = f.about /\ row.by = f.by /\ row.session = f.session
      OBVIOUS
    <3> HIDE DEF row, f
    <3> QED
      BY <2>1, <2>3, <3>1, <3>2 DEF FeedbackLinked
  <2> QED
    BY <1>5, <2>2, <2>3 DEF FeedbackInsert
<1>6. ASSUME NEW t \in Turns, Step(t) \/ Cancel(t) PROVE UNCHANGED <<feedback, messages>> \/ Store(t)
  BY <1>6 DEF Step, tables, AssertOwned, GetSession, InsertSession, SelectSession, CreateFresh, BindCheck, Link,
     LoadHistory, BeginTransform, EndTransform, ResolveScope, Search, Token, BeginGenerate, Generate,
     Respond, Marker, Cancel
<1> QED
  BY <1>2, <1>3, <1>4, <1>5, <1>6
  DEF Next, EmbedBatch, DeleteDocument, FeedbackSession, FeedbackMessage, vars, tables

-----------------------------------------------------------------------------
(* Who has held a session id.                                              *)

HeldInv ==
  /\ \A s \in SessionIds : owner[s] # None => owner[s] \in held[s]
  /\ \A t \in Turns :
       pc[t] = "fresh" /\ Request[t].name # None => held[Request[t].name] \ {Tenant(t)} # {}
  /\ FreshOnlyForForeign

LEMMA HeldInit == Init => HeldInv
<1> SUFFICES ASSUME Init PROVE HeldInv
  OBVIOUS
<1>1. \A t \in Turns : sid[t] = None /\ pc[t] # "fresh" /\ t # None
  BY RequestTypes DEF Init
<1>2. \A s \in SessionIds : owner[s] = None
  BY DEF Init
<1> QED
  BY <1>1, <1>2 DEF HeldInv, FreshOnlyForForeign

LEMMA HeldStep == TypeInv /\ HeldInv /\ [Next]_vars => HeldInv'
<1> SUFFICES ASSUME TypeInv, HeldInv, [Next]_vars PROVE HeldInv'
  OBVIOUS
<1> USE DEF TypeInv, TablesInv, SeatInv
<1> DEFINE Foreign(t) == Request[t].name # None => held[Request[t].name] \ {Tenant(t)} # {}
           Grows == \A s \in SessionIds : held[s] \subseteq held'[s] /\ (owner'[s] # None => owner'[s] \in held'[s])
\* the step lets held grow, and leads to a fresh session only where it may
<1>1. ASSUME Grows,
             \A t \in Turns : pc'[t] = "fresh" => pc[t] = "fresh" \/ Foreign(t),
             \A t \in Turns : sid'[t] = t => sid[t] = t \/ Foreign(t)
      PROVE  HeldInv'
  <2>1. \A t \in Turns : Request[t].name # None => Request[t].name \in SessionIds
    BY RequestTypes DEF SessionIds
  <2>2. ASSUME NEW t \in Turns, Request[t].name # None, pc'[t] = "fresh" \/ sid'[t] = t
        PROVE  held'[Request[t].name] \ {Tenant(t)} # {}
    <3>1. held[Request[t].name] \ {Tenant(t)} # {}
      BY <1>1, <2>2 DEF HeldInv, FreshOnlyForForeign
    <3>2. held[Request[t].name] \subseteq held'[Request[t].name]
      BY <1>1, <2>1, <2>2
    <3> QED
      BY <3>1, <3>2
  <2> QED
    BY <1>1, <2>2 DEF HeldInv, FreshOnlyForForeign
<1>2. ASSUME UNCHANGED <<owner, held>> PROVE Grows
  BY <1>2 DEF HeldInv
<1>3. ASSUME NEW s \in SessionIds, NEW n \in Tenants, Take(s, n) PROVE Grows
  <2>1. held'[s] = held[s] \union {n} /\ owner'[s] = n
        /\ \A r \in SessionIds : r # s => held'[r] = held[r] /\ owner'[r] = owner[r]
    BY <1>3 DEF Take
  <2> QED
    BY <2>1 DEF HeldInv
<1> HIDE DEF Grows
<1>4. ASSUME NEW t \in Turns, GetSession(t) PROVE HeldInv'
  <2>1. Grows
    BY <1>4, <1>2 DEF GetSession, tables
  <2>2. \A u \in Turns : pc'[u] = "fresh" => pc[u] = "fresh" \/ Foreign(u)
    BY <1>4, RequestTypes DEF GetSession, Enter, Goto, Answer
  <2>3. \A u \in Turns : sid'[u] = u => sid[u] = u \/ Foreign(u)
    <3>1. sid' = sid \/ (sid' = [sid EXCEPT ![t] = Request[t].name] /\ Request[t].name \in Names)
      <4>1. CASE Request[t].name = None
        BY <1>4, <4>1 DEF GetSession
      <4>2. CASE Request[t].name # None
        <5>1. Request[t].name \in Names
          BY <4>2, RequestTypes
        <5>2. sid' = sid \/ Enter(t, Request[t].name)
          BY <1>4, <4>2 DEF GetSession
        <5> QED
          BY <5>1, <5>2 DEF Enter
      <4> QED
        BY <4>1, <4>2
    <3> QED
      BY <3>1, ChatAssumption
  <2> QED
    BY <2>1, <2>2, <2>3, <1>1
<1>5. ASSUME NEW t \in Turns, SelectSession(t) PROVE HeldInv'
  <2>0. Request[t].name \in Names /\ Request[t].name \in SessionIds
    BY <1>5 DEF SelectSession, SessionIds
  <2>1. Grows
    BY <1>5, <1>2 DEF SelectSession, tables
  <2>2. \A u \in Turns : pc'[u] = "fresh" => pc[u] = "fresh" \/ Foreign(u)
    <3>1. CASE owner[Request[t].name] \in {None, Tenant(t)}
      <4>1. \A u \in Turns : pc'[u] # "fresh" \/ pc[u] = "fresh"
        BY <1>5, <3>1, RequestTypes DEF SelectSession, Enter, Fail, FailBatch, Goto, Answer
      <4> QED
        BY <4>1
    <3>2. CASE owner[Request[t].name] \notin {None, Tenant(t)}
      <4>1. Goto(t, "fresh")
        BY <1>5, <3>2 DEF SelectSession
      <4>2. Foreign(t)
        BY <2>0, <3>2 DEF HeldInv
      <4> QED
        BY <4>1, <4>2 DEF Goto
    <3> QED
      BY <3>1, <3>2
  <2>3. \A u \in Turns : sid'[u] = u => sid[u] = u \/ Foreign(u)
    <3>1. sid' = sid \/ sid' = [sid EXCEPT ![t] = Request[t].name]
      BY <1>5 DEF SelectSession, Enter
    <3> QED
      BY <2>0, <3>1, ChatAssumption
  <2> QED
    BY <2>1, <2>2, <2>3, <1>1
<1>6. ASSUME NEW t \in Turns, CreateFresh(t) PROVE HeldInv'
  <2>1. Grows
    BY <1>6, <1>3, RequestTypes DEF CreateFresh
  <2>2. Foreign(t)
    BY <1>6 DEF CreateFresh, HeldInv
  <2>3. /\ \A u \in Turns : pc'[u] = "fresh" => pc[u] = "fresh"
        /\ sid' = [sid EXCEPT ![t] = t]
    BY <1>6 DEF CreateFresh, Enter, Goto, Answer
  <2> QED
    BY <2>1, <2>2, <2>3, <1>1
\* every other step of a turn
<1>7. ASSUME NEW t \in Turns, Step(t) \/ Cancel(t), ~GetSession(t), ~SelectSession(t), ~CreateFresh(t) PROVE HeldInv'
  <2>1. Grows
    <3>1. CASE InsertSession(t)
      <4>1. Request[t].name \in SessionIds
        BY <3>1 DEF InsertSession, SessionIds
      <4> QED
        BY <3>1, <4>1, <1>2, <1>3, RequestTypes DEF InsertSession
    <3>2. CASE ~InsertSession(t)
      <4>1. UNCHANGED <<owner, held>>
        BY <1>7, <3>2 DEF Step, tables, AssertOwned, BindCheck, Link,
           LoadHistory, BeginTransform, EndTransform, ResolveScope, Search, Token, BeginGenerate, Generate, Store,
           Respond, Marker, Cancel
      <4> QED
        BY <4>1, <1>2
    <3> QED
      BY <3>1, <3>2
  <2>2. UNCHANGED sid
    BY <1>7 DEF Step, AssertOwned, InsertSession, BindCheck, Link,
       LoadHistory, BeginTransform, EndTransform, ResolveScope, Search, Token, BeginGenerate, Generate, Store,
       Respond, Marker, Cancel
  <2>3. \/ FailBatch \/ UNCHANGED pc \/ \E to : Goto(t, to) /\ to # "fresh"
    BY <1>7 DEF Step, AssertOwned, InsertSession, BindCheck, Link, First, AfterHistory, AfterScope, Fail, Answer,
       LoadHistory, BeginTransform, EndTransform, ResolveScope, Search, Token, BeginGenerate, Generate, Store,
       Respond, Marker, Cancel
  <2>4. \A u \in Turns : pc'[u] = "fresh" => pc[u] = "fresh"
    BY <2>3 DEF FailBatch, Goto
  <2> QED
    BY <2>1, <2>2, <2>4, <1>1
<1>8. CASE EmbedBatch
  <2>1. Grows
    BY <1>8, <1>2 DEF EmbedBatch, tables
  <2>2. UNCHANGED sid /\ \A u \in Turns : pc'[u] = "fresh" => pc[u] = "fresh"
    BY <1>8 DEF EmbedBatch
  <2> QED
    BY <2>1, <2>2, <1>1
<1>9. ASSUME NEW n \in Tenants, NEW s \in Names, DeleteSession(n, s) PROVE HeldInv'
  <2>1. held' = held /\ owner' = [owner EXCEPT ![s] = None] /\ UNCHANGED <<pc, sid>>
    BY <1>9 DEF DeleteSession, turnVars
  <2>2. Grows
    BY <2>1 DEF HeldInv, Grows
  <2> QED
    BY <2>1, <2>2, <1>1
<1>10. CASE UNCHANGED <<owner, held, pc, sid>>
  BY <1>10, <1>1, <1>2
<1> QED
  BY <1>4, <1>5, <1>6, <1>7, <1>8, <1>9, <1>10
  DEF Next, DeleteDocument, FeedbackSession, FeedbackMessage, FeedbackInsert, vars, tables, turnVars

-----------------------------------------------------------------------------
(* The properties, in every reachable state.                               *)

CommonInv == TypeInv /\ Gate /\ Told /\ MessagesInv

LEMMA CommonInit == Init => CommonInv
  BY TypeInit, GateInit, ToldInit, MessagesInit DEF CommonInv

LEMMA CommonStep == CommonInv /\ [Next]_vars => CommonInv'
  BY TypeStep, GateStep, ToldStep, MessagesStep DEF CommonInv

\* Whatever windows requests ask for, a turn is in a session's messages whole or not
\* at all, and in what another turn has loaded of them, but for the oldest message
\* of a load cut to an odd number.
THEOREM TurnsStayWhole == Spec => []TurnsAreWhole
<1> DEFINE Loaded == \A t \in Turns : CutTo(history[t], Limit(t))
<1>1. Init => CommonInv /\ Loaded
  BY CommonInit, ApartInit
<1>2. CommonInv /\ Loaded /\ [Next]_vars => (CommonInv /\ Loaded)'
  <2> SUFFICES ASSUME CommonInv, Loaded, [Next]_vars PROVE (CommonInv /\ Loaded)'
    OBVIOUS
  <2>1. CommonInv'
    BY CommonStep
  <2>2. Loaded'
    BY HistoryStep DEF CommonInv
  <2> QED
    BY <2>1, <2>2
<1>3. CommonInv /\ Loaded => TurnsAreWhole
  BY DEF CommonInv, MessagesInv, WholeInv, TurnsAreWhole
<1> HIDE DEF Loaded
<1> QED
  BY <1>1, <1>2, <1>3, PTL DEF Spec

\* No turn is shown another tenant's message or answered from another tenant's
\* document, and no feedback refers to another tenant's or session's message.
THEOREM TenantsStayApart == Spec => []TenantsApart
<1> DEFINE Inv == CommonInv /\ HistoryIsOwn /\ SourcesAreOwn /\ FeedbackInv
<1>1. Init => Inv
  BY CommonInit, ApartInit, FeedbackInit
<1>2. Inv /\ [Next]_vars => Inv'
  <2> SUFFICES ASSUME Inv, [Next]_vars PROVE Inv'
    OBVIOUS
  <2>1. CommonInv'
    BY CommonStep
  <2>2. HistoryIsOwn' /\ SourcesAreOwn'
    BY HistoryStep, SourcesStep DEF CommonInv
  <2>3. FeedbackInv'
    BY CheckedStep, LinkedStep DEF CommonInv, FeedbackInv
  <2> QED
    BY <2>1, <2>2, <2>3
<1>3. Inv => TenantsApart
  BY DEF FeedbackInv, TenantsApart
<1> HIDE DEF Inv
<1> QED
  BY <1>1, <1>2, <1>3, PTL DEF Spec

\* Whatever the order of the requests that first use a session id, a turn gets a
\* fresh session only if another tenant has held the id it asked for.
THEOREM ConvergeOnSession == Spec => []FreshOnlyForForeign
<1>1. Init => TypeInv /\ HeldInv
  BY TypeInit, HeldInit
<1>2. TypeInv /\ HeldInv /\ [Next]_vars => (TypeInv /\ HeldInv)'
  BY TypeStep, HeldStep
<1>3. HeldInv => FreshOnlyForForeign
  BY DEF HeldInv
<1> QED
  BY <1>1, <1>2, <1>3, PTL DEF Spec
=============================================================================
