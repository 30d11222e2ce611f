----------------------------- MODULE Idempotency -----------------------------
(***************************************************************************)
(* Requests that carry the same Idempotency-Key (one tenant, one route)    *)
(* around the key's record in Redis: backend/services/idempotency.py, and  *)
(* the way POST /upload and POST /sessions use it.  One action is one      *)
(* Redis command; the handler's own work is the step Run.  A command may   *)
(* raise RedisError, and a write that raises was carried out or was not.   *)
(***************************************************************************)
EXTENDS Naturals

CONSTANTS
  Bodies,     \* logical request bodies, told apart by their fingerprint
  Clients,    \* senders of each body
  None,
  MaxExpiries \* bound on TTL expiries of the record

Requests == Bodies \X Clients
Fingerprint(r) == r[1]

VARIABLES
  record,  \* the value under the Redis key, or None
  pc,      \* where each request is
  reply,   \* what each client was sent
  period,  \* TTL periods of the key so far
  ran      \* the requests that created something, with their period

vars == <<record, pc, reply, period, ran>>

\* The record of a claim or of a response.  `by` names the request that wrote
\* it: in a response it stands for the body (its document or session id), in a
\* claim it is for the properties only, no step reads it.
Claim(r) == [status |-> "in_progress", fingerprint |-> Fingerprint(r), by |-> r]
Response(r) == [status |-> "completed", fingerprint |-> Fingerprint(r), by |-> r]
Records == [status : {"in_progress", "completed"}, fingerprint : Bodies, by : Requests]

ASSUME NoneAssumption == None \notin Requests \union Records

\* Steps at which a request holds the claim.
Holding == {"run", "complete", "abort", "delete"}
\* "lost": its client was sent a 5xx because a command of the lease raised.
Steps == Holding \union {"new", "claim", "wait", "done", "crashed", "lost"}

\* A client gets the response of some request, an error, or a 409.
Replies == [kind : {"none", "response", "mismatch", "in_progress", "error"},
            of : Requests \union {None}]
NoReply == [kind |-> "none", of |-> None]
Own(r) == [kind |-> "response", of |-> r]
Refusal(kind) == [kind |-> kind, of |-> None]

Init ==
  /\ record = None
  /\ pc = [r \in Requests |-> "new"]
  /\ reply = [r \in Requests |-> NoReply]
  /\ period = 0
  /\ ran = {}

Goto(r, to) == pc' = [pc EXCEPT ![r] = to]
Answer(r, a) == Goto(r, "done") /\ reply' = [reply EXCEPT ![r] = a]

-----------------------------------------------------------------------------
(* begin_idempotency.                                                      *)

\* Slip: the record's fingerprint is not compared.
EvaluateAnyBody(r, waiting) ==
  IF record.status = "completed"
  THEN Answer(r, Own(record.by))
  ELSE Goto(r, waiting) /\ UNCHANGED reply

\* _evaluate_existing: replay, mismatch, or wait.
EvaluateExisting(r, waiting) ==
  IF record.fingerprint # Fingerprint(r)
  THEN Answer(r, Refusal("mismatch"))
  ELSE IF record.status = "completed"
       THEN Answer(r, Own(record.by))
       ELSE Goto(r, waiting) /\ UNCHANGED reply

\* The first GET.
ReadRecord(r) ==
  /\ pc[r] = "new"
  /\ IF record = None THEN Goto(r, "claim") /\ UNCHANGED reply
                      ELSE EvaluateExisting(r, "claim")
  /\ UNCHANGED <<record, period, ran>>

\* _try_claim_in_progress: SET NX.
TryClaim(r) ==
  /\ pc[r] = "claim"
  /\ IF record = None THEN record' = Claim(r) /\ Goto(r, "run")
                      ELSE Goto(r, "wait") /\ UNCHANGED record
  /\ UNCHANGED <<reply, period, ran>>

\* One turn of the polling loop.
Poll(r) ==
  /\ pc[r] = "wait"
  /\ IF record = None THEN Goto(r, "claim") /\ UNCHANGED reply
                      ELSE EvaluateExisting(r, "wait")
  /\ UNCHANGED <<record, period, ran>>

\* IDEMPOTENCY_WAIT_TIMEOUT_SECONDS are over.
GiveUp(r) ==
  /\ pc[r] = "wait"
  /\ Answer(r, Refusal("in_progress"))
  /\ UNCHANGED <<record, period, ran>>

\* A GET raises: 503, and the key is as it was.
ReadError(r) ==
  /\ pc[r] \in {"new", "wait"}
  /\ Answer(r, Refusal("error"))
  /\ UNCHANGED <<record, period, ran>>

\* The request ends with an error after a write of its lease raised.
Lose(r) == Goto(r, "lost") /\ reply' = [reply EXCEPT ![r] = Refusal("error")]

\* The SET NX raises: 503.  If it was carried out, the claim stays.
ClaimError(r) ==
  /\ pc[r] = "claim"
  /\ (record = None /\ record' = Claim(r)) \/ UNCHANGED record
  /\ Lose(r)
  /\ UNCHANGED <<period, ran>>

-----------------------------------------------------------------------------
(* The handler, and the lease it holds.                                    *)

\* The handler accepts the request, or meets a result worth replaying, or a
\* transient one (is_transient_idempotency_http) or an unexpected error.  The
\* error may come after the document was created and its job pushed.
Run(r) ==
  /\ pc[r] = "run"
  /\ Goto(r, "complete") \/ Goto(r, "abort")
  /\ ran' = ran \union {<<r, period>>} \/ UNCHANGED ran
  /\ UNCHANGED <<record, reply, period>>

\* Slip: the response is not stored and the key is let go.
CompleteUnstored(r) ==
  /\ pc[r] = "complete"
  /\ record' = None
  /\ Answer(r, Own(r))
  /\ UNCHANGED <<period, ran>>

\* IdempotencyLease.complete: SET, whatever the key holds.
Complete(r) ==
  /\ pc[r] = "complete"
  /\ record' = Response(r)
  /\ Answer(r, Own(r))
  /\ UNCHANGED <<period, ran>>

\* The SET of complete raises.  Behind an accepted request the handler aborts;
\* behind an HTTP error the exception leaves the handler, lease and all.
CompleteError(r) ==
  /\ pc[r] = "complete"
  /\ record' = Response(r) \/ UNCHANGED record
  /\ Lose(r) \/ (Goto(r, "abort") /\ UNCHANGED reply)
  /\ UNCHANGED <<period, ran>>

\* Slip: a transient result keeps the claim.
AbortForgets(r) ==
  /\ pc[r] = "abort"
  /\ Answer(r, Refusal("error"))
  /\ UNCHANGED <<record, period, ran>>

\* Slip: the abort deletes whatever it reads, a stored response too.
AbortAnyRecord(r) ==
  /\ pc[r] = "abort"
  /\ IF record # None THEN Goto(r, "delete") /\ UNCHANGED reply
                      ELSE Answer(r, Refusal("error"))
  /\ UNCHANGED <<record, period, ran>>

\* IdempotencyLease.abort: GET, then DELETE if the record is still a claim.
AbortRead(r) ==
  /\ pc[r] = "abort"
  /\ IF record # None /\ record.status = "in_progress"
     THEN Goto(r, "delete") /\ UNCHANGED reply
     ELSE Answer(r, Refusal("error"))
  /\ UNCHANGED <<record, period, ran>>

AbortDelete(r) ==
  /\ pc[r] = "delete"
  /\ record' = None
  /\ Answer(r, Refusal("error"))
  /\ UNCHANGED <<period, ran>>

\* A command of abort raises; it is logged, and the error is sent all the same.
AbortError(r) ==
  /\ pc[r] \in {"abort", "delete"}
  /\ (pc[r] = "delete" /\ record' = None) \/ UNCHANGED record
  /\ Lose(r)
  /\ UNCHANGED <<period, ran>>

\* The process dies, or the client leaves and the handler is cancelled
\* (CancelledError is no Exception): the claim stays.
Crash(r) ==
  /\ pc[r] \in Holding
  /\ Goto(r, "crashed")
  /\ UNCHANGED <<record, reply, period, ran>>

\* The record's TTL ends.  IDEMPOTENCY_TTL_SECONDS (a day) outlasts every
\* handler, so no living request holds the claim then.
Expire ==
  /\ period < MaxExpiries
  /\ record # None
  /\ \A r \in Requests : pc[r] \notin Holding
  /\ record' = None
  /\ period' = period + 1
  /\ UNCHANGED <<pc, reply, ran>>

Next ==
  \/ \E r \in Requests :
       \/ ReadRecord(r) \/ TryClaim(r) \/ Poll(r) \/ GiveUp(r)
       \/ Run(r) \/ Complete(r) \/ AbortRead(r) \/ AbortDelete(r) \/ Crash(r)
       \/ ReadError(r) \/ ClaimError(r) \/ CompleteError(r) \/ AbortError(r)
  \/ Expire

Spec == Init /\ [][Next]_vars

-----------------------------------------------------------------------------
TypeOK ==
  /\ record \in Records \union {None}
  /\ pc \in [Requests -> Steps]
  /\ reply \in [Requests -> Replies]
  /\ period \in Nat
  /\ ran \subseteq Requests \X Nat

\* Requests with the same key run one at a time (the handler's work is not
\* atomic: everything the others do falls between its steps).
OneAtATime ==
  \A r, s \in Requests : pc[r] \in Holding /\ pc[s] \in Holding => r = s

\* One document or session per key and TTL period, however many requests are
\* sent, wait, fail or are retried.  The one exception is an acceptance that ends
\* in an error: its client is told so and the key is free again.
Failed(r) == reply[r].kind = "error"
OneAcceptance ==
  \A a, b \in ran : a[2] = b[2] /\ ~Failed(a[1]) /\ ~Failed(b[1]) => a = b

\* A client is only ever sent a response to its own body.
ReplaysOwnBody ==
  \A r \in Requests :
    reply[r].kind = "response" => Fingerprint(reply[r].of) = Fingerprint(r)

\* A claim belongs to a request that is still at work, or to one that crashed
\* or lost Redis: a transient result always gives the key back.
ClaimHasHolder ==
  record # None /\ record.status = "in_progress" =>
    \E r \in Requests : /\ pc[r] \in Holding \union {"crashed", "lost"}
                        /\ Fingerprint(r) = record.fingerprint

\* The requests that hold the claim and are alive.
AtWork == {r \in Requests : pc[r] \in Holding}

\* The promise the record implements.
Abstract == INSTANCE OncePerKey WITH
  Requests <- Requests,
  holder <- IF record # None /\ record.status = "in_progress" THEN record.by ELSE None,
  stored <- IF record # None /\ record.status = "completed" THEN record.by ELSE None,
  working <- AtWork,
  period <- period

\* The Redis record keeps the promise of an Idempotency-Key.
KeepsPromise == Abstract!Spec
=============================================================================
