-------------------------------- MODULE Lists --------------------------------
(***************************************************************************)
(* What the algorithms do with lists: cut, pick, sort, join and add up.    *)
(* An order is a set of pairs, the first of which comes before the second. *)
(***************************************************************************)
EXTENDS Integers, Sequences, FiniteSets, SequencesExt

Least2(m, n) == IF m < n THEN m ELSE n
Take(s, n) == SubSeq(s, 1, Least2(n, Len(s)))

\* The elements of a finite set as a strict total order has them.
InOrder(T, ahead) ==
  [n \in 1 .. Cardinality(T) |-> CHOOSE x \in T : Cardinality({y \in T : <<y, x>> \in ahead}) = n - 1]

\* The elements at some of the places of a list.
Upwards(T) == {p \in T \X T : p[1] < p[2]}
At(s, T) == LET places == InOrder(T, Upwards(T)) IN [n \in 1 .. Cardinality(T) |-> s[places[n]]]

\* The first of the elements that have the same key.
FirstOf(s, key) == At(s, {i \in DOMAIN s : \A j \in 1 .. i - 1 : key[j] # key[i]})

\* Python's stable sort: `ahead` orders the places, those it does not stay as they are.
Pairs(s) == (DOMAIN s) \X (DOMAIN s)
Stable(T, ahead) == {p \in T \X T : p \in ahead \/ (p[1] < p[2] /\ <<p[2], p[1]>> \notin ahead)}
Ordered(s, ahead) ==
  LET places == InOrder(DOMAIN s, Stable(DOMAIN s, ahead)) IN [n \in 1 .. Len(s) |-> s[places[n]]]

\* The lists of a list, one after another.
Joined(lists) ==
  LET joined[i \in 0 .. Len(lists)] == IF i = 0 THEN <<>> ELSE joined[i - 1] \o lists[i]
  IN joined[Len(lists)]

\* The sum of the first i numbers, and of all.
Sums(s) ==
  LET sum[i \in 0 .. Len(s)] == IF i = 0 THEN 0 ELSE sum[i - 1] + s[i]
  IN sum
Sum(s) == Sums(s)[Len(s)]
=============================================================================
