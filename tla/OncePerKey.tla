------------------------------ MODULE OncePerKey ------------------------------
(***************************************************************************)
(* What an Idempotency-Key promises (documentation/content/                *)
(* api-reference.md, "Idempotency keys"): requests with the same key run   *)
(* one at a time, none runs once a response is stored, the stored response *)
(* stays the same until the key's time is over, and only the request that  *)
(* holds the key lets it go.                                               *)
(***************************************************************************)
EXTENDS Naturals

CONSTANTS Requests, None

VARIABLES
  holder,   \* the request whose claim is under the key, alive or not
  stored,   \* the request whose response is stored
  working,  \* the requests at work under the key
  period    \* the key's lifetimes so far

once == <<holder, stored, working, period>>

Init == holder = None /\ stored = None /\ working = {} /\ period = 0

\* A request gets the key, and works under it unless it is not told: nobody holds
\* the key or is at work, and nothing is stored.
Acquire(r) ==
  /\ holder = None /\ stored = None /\ working = {}
  /\ holder' = r
  /\ working' \in {{}, {r}}
  /\ UNCHANGED <<stored, period>>

\* The holder's response is stored; the holder may still be at work.
Store(r) ==
  /\ holder = r /\ r \in working
  /\ holder' = None /\ stored' = r
  /\ working' \in {working, working \ {r}}
  /\ UNCHANGED period

\* A transient result: the holder, alive and no other, lets the key go.
Release(r) ==
  /\ holder = r /\ r \in working
  /\ holder' = None
  /\ working' = working \ {r}
  /\ UNCHANGED <<stored, period>>

\* A request ends, or dies, and leaves what is under the key there.
Leave(r) ==
  /\ r \in working
  /\ working' = working \ {r}
  /\ UNCHANGED <<holder, stored, period>>

\* The key's time is over; it outlasts every request at work.
Forget ==
  /\ working = {}
  /\ holder' = None /\ stored' = None
  /\ period' = period + 1
  /\ UNCHANGED working

Next == Forget \/ \E r \in Requests : Acquire(r) \/ Store(r) \/ Release(r) \/ Leave(r)

Spec == Init /\ [][Next]_once
=============================================================================
