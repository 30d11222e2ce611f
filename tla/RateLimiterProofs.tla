-------------------------- MODULE RateLimiterProofs --------------------------
(* The rate promise of the limiter, for any callers, rate and capacity.      *)
EXTENDS RateLimiter, TLAPS

\* Refilling lazily, at the next turn of some caller, gives what refilling at
\* every tick would have given.
LazyRefill ==
  /\ tokens \in Nat /\ idle \in Nat
  /\ budget = Refilled

USE UnitsAssumption

\* A bucket with natural contents refills to natural contents.
LEMMA RefilledNat ==
  ASSUME tokens \in Nat, idle \in Nat
  PROVE  Refilled \in Nat /\ idle * Rate \in Nat
<1>1. idle * Rate \in Nat
  OBVIOUS
<1> QED
  BY <1>1 DEF Refilled, Least

\* In any stretch of n ticks at most Capacity + n * Rate units are handed out.
THEOREM RateCorrect == Spec => []RateKept
<1>1. Init => LazyRefill
  BY DEF Init, LazyRefill, Refilled, Least
<1>2. LazyRefill /\ [Next]_vars => LazyRefill'
  <2> SUFFICES ASSUME LazyRefill, [Next]_vars PROVE LazyRefill'
    OBVIOUS
  <2>1. CASE Tick
    <3>1. budget' = Least(Capacity, Refilled + Rate) /\ tokens' = tokens
      BY <2>1 DEF Tick, LazyRefill
    <3>2. idle * Rate \in Nat /\ (idle + 1) * Rate = idle * Rate + Rate
      BY DEF LazyRefill
    <3>3. CASE tokens + idle * Rate < Capacity
      <4>1. idle' = idle + 1
        BY <2>1, <3>3 DEF Tick
      <4>2. Refilled' = Least(Capacity, tokens + (idle * Rate + Rate))
        BY <3>1, <3>2, <4>1 DEF Refilled, Least
      <4>3. Refilled = tokens + idle * Rate
        BY <3>2, <3>3 DEF Refilled, Least, LazyRefill
      <4>4. budget' = Refilled'
        BY <3>1, <3>2, <4>2, <4>3 DEF LazyRefill, Least
      <4> QED
        BY <3>1, <4>1, <4>4 DEF LazyRefill
    <3>4. CASE ~(tokens + idle * Rate < Capacity)
      <4>1. idle' = idle
        BY <2>1, <3>4 DEF Tick
      <4>2. Refilled = Capacity
        BY <3>2, <3>4 DEF Refilled, Least, LazyRefill
      <4>3. Refilled' = Refilled
        BY <3>1, <4>1 DEF Refilled
      <4>4. budget' = Capacity
        BY <3>1, <4>2 DEF Least
      <4> QED
        BY <3>1, <4>1, <4>2, <4>3, <4>4 DEF LazyRefill
    <3> QED
      BY <3>3, <3>4
  <2>2. ASSUME NEW c \in Callers, Attempt(c) PROVE LazyRefill'
    <3>1. Refilled \in Nat /\ Refilled <= Capacity
      BY RefilledNat DEF LazyRefill, Refilled, Least
    <3>2. /\ idle' = 0
          /\ \/ tokens' = Refilled - Token /\ budget' = budget - Token /\ Refilled >= Token
             \/ tokens' = Refilled /\ budget' = budget
      BY <2>2 DEF Attempt
    <3>3. tokens' \in Nat /\ tokens' <= Capacity /\ budget' = tokens'
      BY <3>1, <3>2 DEF LazyRefill
    <3>4. Refilled' = tokens'
      <4>1. Refilled' = Least(Capacity, tokens' + idle' * Rate)
        BY DEF Refilled, Least
      <4>2. idle' * Rate = 0
        BY <3>2
      <4> QED
        BY <3>3, <4>1, <4>2 DEF Least
    <3> QED
      BY <3>2, <3>3, <3>4 DEF LazyRefill
  <2>3. ASSUME NEW c \in Callers, Call(c) \/ Wake(c) PROVE LazyRefill'
    BY <2>3 DEF Call, Wake, LazyRefill, Refilled
  <2>4. CASE UNCHANGED vars
    BY <2>4 DEF vars, LazyRefill, Refilled
  <2> QED
    BY <2>1, <2>2, <2>3, <2>4 DEF Next, Caller
<1>3. LazyRefill => RateKept
  BY RefilledNat DEF LazyRefill, RateKept
<1> QED
  BY <1>1, <1>2, <1>3, PTL DEF Spec

\* The bucket never overflows or goes negative, and nobody is told to sleep for
\* a negative time.
THEOREM TypeCorrect == Spec => []TypeOK
<1>1. Init => TypeOK
  BY DEF Init, TypeOK
<1>2. TypeOK /\ [Next]_vars => TypeOK'
  <2> SUFFICES ASSUME TypeOK, [Next]_vars PROVE TypeOK'
    OBVIOUS
  <2>1. CASE Tick
    <3>1. sleep' \in [Callers -> Nat] /\ idle' \in Nat
      BY <2>1 DEF Tick, TypeOK
    <3>2. budget' \in Int /\ budget' <= Capacity
      BY <2>1 DEF Tick, TypeOK, Least
    <3> QED
      BY <2>1, <3>1, <3>2 DEF Tick, TypeOK
  <2>2. ASSUME NEW c \in Callers, Attempt(c) PROVE TypeOK'
    <3>1. Refilled \in 0 .. Capacity
      BY RefilledNat DEF TypeOK, Refilled, Least
    <3>2. ASSUME Refilled < Token PROVE CeilDiv(Token - Refilled, Rate) \in Nat
      <4>1. Token - Refilled + Rate - 1 \in Nat
        BY <3>1, <3>2
      <4> QED
        BY <4>1 DEF CeilDiv
    <3>3. tokens' \in 0 .. Capacity /\ idle' \in Nat /\ budget' \in Int /\ budget' <= Capacity
      BY <2>2, <3>1 DEF Attempt, TypeOK
    <3>4. sleep' \in [Callers -> Nat]
      BY <2>2, <3>1, <3>2 DEF Attempt, TypeOK
    <3>5. pc' \in [Callers -> {"new", "try", "sleep", "done"}]
      BY <2>2 DEF Attempt, TypeOK
    <3> QED
      BY <3>3, <3>4, <3>5 DEF TypeOK
  <2>3. ASSUME NEW c \in Callers, Call(c) \/ Wake(c) PROVE TypeOK'
    BY <2>3 DEF Call, Wake, TypeOK
  <2>4. CASE UNCHANGED vars
    BY <2>4 DEF vars, TypeOK
  <2> QED
    BY <2>1, <2>2, <2>3, <2>4 DEF Next, Caller
<1> QED
  BY <1>1, <1>2, PTL DEF Spec
=============================================================================
