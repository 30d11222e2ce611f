-------------------------- MODULE IdempotencyProofs --------------------------
(***************************************************************************)
(* The promise of an Idempotency-Key, for any bodies, any number of        *)
(* clients and any number of TTL periods: the Redis record implements      *)
(* OncePerKey.                                                             *)
(***************************************************************************)
EXTENDS Idempotency, TLAPS

\* Where a request is while a claim of its own may be under the key.
Keeping == Holding \union {"crashed", "lost"}

\* Whoever holds the claim finds its own claim under the key, or, if it aborts
\* because storing its response raised, that response; and a claim under the
\* key belongs to somebody who holds it, crashed with it or lost Redis.
ClaimOwned ==
  /\ \A r \in Requests : pc[r] \in Holding =>
       record = Claim(r) \/ (pc[r] = "abort" /\ record = Response(r))
  /\ record # None =>
       /\ record.fingerprint = Fingerprint(record.by)
       /\ record.status = "in_progress" => pc[record.by] \in Keeping

\* Whoever was sent an answer is at its end, with an error if it lost Redis.
AnsweredIsDone ==
  \A r \in Requests : /\ reply[r].kind # "none" => pc[r] \in {"done", "lost"}
                      /\ pc[r] = "lost" => reply[r].kind = "error"

\* Where a request is after it created something, until its claim is settled.
Created == {"complete", "abort", "delete", "crashed", "lost"}

\* An acceptance of this period failed, or is the one the record speaks of.
AcceptedRecorded ==
  \A a \in ran :
    /\ a[2] <= period
    /\ a[2] = period /\ ~Failed(a[1]) =>
         /\ record # None /\ record.by = a[1]
         /\ record.status = "in_progress" => pc[a[1]] \in Created

KeyInv == /\ TypeOK /\ ClaimOwned /\ AnsweredIsDone /\ AcceptedRecorded
          /\ ReplaysOwnBody /\ OneAcceptance

USE NoneAssumption

\* What a claim and a response look like.
LEMMA RecordShape ==
  ASSUME NEW r \in Requests
  PROVE  /\ Claim(r) \in Records /\ Response(r) \in Records
         /\ Claim(r).by = r /\ Claim(r).status = "in_progress"
         /\ Response(r).by = r /\ Response(r).status = "completed"
         /\ Claim(r).fingerprint = Fingerprint(r)
         /\ Response(r).fingerprint = Fingerprint(r)
BY DEF Claim, Response, Records, Requests, Fingerprint

\* A fresh key satisfies the invariant.
LEMMA InitKey == Init => KeyInv
BY DEF Init, KeyInv, TypeOK, ClaimOwned, AcceptedRecorded, ReplaysOwnBody,
   OneAcceptance, AnsweredIsDone, Steps, Holding, NoReply, Replies

\* A step that leaves the record alone, and does not leave it without its
\* owner, preserves the invariant.
LEMMA QuietStep ==
  ASSUME KeyInv, NEW r \in Requests, NEW to \in Steps,
         pc' = [pc EXCEPT ![r] = to],
         pc[r] \notin {"done", "lost"},
         to \in Holding => record = Claim(r),
         pc[r] \in Keeping => to \in Keeping \/ record = Response(r),
         \/ UNCHANGED reply /\ to # "lost" /\ (pc[r] \in Created => to \in Created)
         \/ \E a \in Replies :
              /\ to \in {"done", "lost"}
              /\ reply' = [reply EXCEPT ![r] = a]
              /\ to = "lost" \/ pc[r] \in Created => a.kind = "error"
              /\ a.kind = "response" => Fingerprint(a.of) = Fingerprint(r),
         UNCHANGED <<record, period, ran>>
  PROVE  KeyInv'
<1> USE DEF KeyInv
<1>1. TypeOK'
  BY DEF TypeOK
<1>2. ClaimOwned'
  <2>1. \A q \in Requests : pc'[q] \in Holding =>
          record = Claim(q) \/ (pc'[q] = "abort" /\ record = Response(q))
    BY DEF TypeOK, ClaimOwned
  <2>2. record # None /\ record.status = "in_progress" => record # Response(r)
    BY RecordShape
  <2>3. record # None /\ record.status = "in_progress" => pc'[record.by] \in Keeping
    BY <2>2 DEF TypeOK, ClaimOwned, Records
  <2> QED
    BY <2>1, <2>3 DEF ClaimOwned
<1>3. AnsweredIsDone'
  BY DEF TypeOK, AnsweredIsDone
<1>4. ~Failed(r) /\ \A q \in Requests : Failed(q) => Failed(q)'
  BY DEF TypeOK, AnsweredIsDone, Failed
<1>5. \A a \in ran : a[1] \in Requests
  BY DEF TypeOK
<1>6. AcceptedRecorded'
  <2> SUFFICES ASSUME NEW a \in ran, a[2] = period, ~Failed(a[1])',
                      record # None, record.by = a[1], record.status = "in_progress",
                      pc[a[1]] \in Created
               PROVE  pc'[a[1]] \in Created
    BY <1>4, <1>5 DEF TypeOK, AcceptedRecorded
  <2>1. CASE a[1] # r
    BY <1>5, <2>1 DEF TypeOK
  <2>2. CASE a[1] = r
    BY <2>2 DEF TypeOK, Failed
  <2> QED
    BY <2>1, <2>2
<1>7. ReplaysOwnBody'
  BY DEF TypeOK, ReplaysOwnBody
<1>8. OneAcceptance'
  BY <1>4, <1>5 DEF OneAcceptance
<1> QED
  BY <1>1, <1>2, <1>3, <1>6, <1>7, <1>8

\* What a request is sent when it meets a record.
LEMMA Evaluation ==
  ASSUME KeyInv, NEW r \in Requests, NEW waiting \in {"claim", "wait"},
         pc[r] \in {"new", "wait"}, record # None, EvaluateExisting(r, waiting),
         UNCHANGED <<record, period, ran>>
  PROVE  KeyInv'
<1>1. record \in Records /\ record.by \in Requests /\ record.fingerprint = Fingerprint(record.by)
  BY DEF KeyInv, TypeOK, ClaimOwned, Records
<1>2. CASE record.fingerprint # Fingerprint(r)
  <2>1. Refusal("mismatch") \in Replies /\ Refusal("mismatch").kind # "response"
    BY DEF Refusal, Replies
  <2> QED
    BY <1>2, <2>1, QuietStep DEF EvaluateExisting, Answer, Goto, Steps, Holding, Keeping, Created
<1>3. CASE record.fingerprint = Fingerprint(r) /\ record.status = "completed"
  <2>1. Own(record.by) \in Replies /\ Own(record.by).of = record.by
    BY <1>1 DEF Own, Replies
  <2>2. pc' = [pc EXCEPT ![r] = "done"] /\ reply' = [reply EXCEPT ![r] = Own(record.by)]
    BY <1>3 DEF EvaluateExisting, Answer, Goto
  <2>3. "done" \in Steps /\ "done" \notin Holding
        /\ pc[r] \notin Keeping
    BY DEF Steps, Holding, Keeping
  <2>4. pc[r] \notin Created /\ pc[r] \notin {"done", "lost"}
    BY DEF Created
  <2>5. \E a \in Replies : /\ reply' = [reply EXCEPT ![r] = a]
                           /\ a.kind = "response" => Fingerprint(a.of) = Fingerprint(r)
    BY <1>1, <1>3, <2>1, <2>2
  <2> QED
    BY <2>2, <2>3, <2>4, <2>5, QuietStep
<1>4. CASE record.fingerprint = Fingerprint(r) /\ record.status # "completed"
  <2>1. pc' = [pc EXCEPT ![r] = waiting] /\ UNCHANGED reply
    BY <1>4 DEF EvaluateExisting, Goto
  <2>2. /\ waiting \in Steps /\ waiting \notin Holding
        /\ pc[r] \notin Keeping
    BY DEF Steps, Holding, Keeping
  <2>3. pc[r] \notin Created /\ pc[r] \notin {"done", "lost"} /\ waiting # "lost"
    BY DEF Created
  <2> QED
    BY <2>1, <2>2, <2>3, QuietStep
<1> QED
  BY <1>2, <1>3, <1>4

\* The claim is taken, whether or not its request is told.
LEMMA TakeStep ==
  ASSUME KeyInv, NEW r \in Requests, NEW to \in {"run", "lost"},
         pc[r] = "claim", pc' = [pc EXCEPT ![r] = to],
         record = None, record' = Claim(r),
         \/ to = "run" /\ UNCHANGED reply
         \/ to = "lost" /\ reply' = [reply EXCEPT ![r] = Refusal("error")],
         UNCHANGED <<period, ran>>
  PROVE  KeyInv'
<1> USE DEF KeyInv
<1>1. Refusal("error") \in Replies /\ Refusal("error").kind = "error"
  BY DEF Refusal, Replies
<1>2. TypeOK'
  BY <1>1, RecordShape DEF TypeOK, Steps, Holding
<1>3. \A q \in Requests : q # r => pc[q] \notin Holding
  BY RecordShape DEF ClaimOwned
<1>4. ClaimOwned'
  BY <1>3, RecordShape DEF TypeOK, ClaimOwned, Holding, Keeping
<1>5. \A q \in Requests : Failed(q) => Failed(q)'
  BY <1>1 DEF TypeOK, Failed
<1>6. \A a \in ran : a[1] \in Requests
  BY DEF TypeOK
<1>7. AcceptedRecorded' /\ OneAcceptance'
  BY <1>5, <1>6 DEF AcceptedRecorded, OneAcceptance
<1>8. ReplaysOwnBody' /\ AnsweredIsDone'
  BY <1>1 DEF ReplaysOwnBody, AnsweredIsDone, TypeOK
<1> QED
  BY <1>2, <1>4, <1>7, <1>8

\* A handler works on its request: whoever created something in this period
\* before has failed.
LEMMA RunStep ==
  ASSUME KeyInv, NEW r \in Requests, Run(r)
  PROVE  KeyInv'
<1> USE DEF KeyInv
<1>1. PICK to \in {"complete", "abort"} : pc' = [pc EXCEPT ![r] = to]
  BY DEF Run, Goto
<1>2. CASE UNCHANGED ran
  <2>1. pc[r] = "run" /\ record = Claim(r) /\ UNCHANGED <<record, reply, period>>
    BY DEF Run, ClaimOwned, Holding
  <2> QED
    BY <1>1, <1>2, <2>1, QuietStep DEF Steps, Holding, Keeping, Created
<1>3. CASE ran' = ran \union {<<r, period>>}
  <2>1. pc[r] = "run" /\ UNCHANGED <<record, reply, period>>
    BY DEF Run
  <2>2. record = Claim(r) /\ record.by = r /\ record.status = "in_progress" /\ record # None
    BY <2>1, RecordShape DEF ClaimOwned, Holding
  <2>3. \A a \in ran : a[2] = period => Failed(a[1])
    BY <2>1, <2>2 DEF AcceptedRecorded, Created
  <2>4. period \in Nat /\ <<r, period>>[1] = r /\ <<r, period>>[2] = period
    BY DEF TypeOK
  <2>5. TypeOK'
    BY <1>1, <1>3, <2>1, <2>4 DEF TypeOK, Steps, Holding
  <2>6. ClaimOwned' /\ AnsweredIsDone'
    BY <1>1, <2>1, <2>2 DEF TypeOK, ClaimOwned, AnsweredIsDone, Holding, Keeping
  <2>7. AcceptedRecorded'
    BY <1>1, <1>3, <2>1, <2>2, <2>3, <2>4 DEF TypeOK, AcceptedRecorded, Failed, Created
  <2>8. OneAcceptance'
    BY <1>3, <2>1, <2>3, <2>4 DEF OneAcceptance, Failed
  <2>9. ReplaysOwnBody'
    BY <2>1 DEF ReplaysOwnBody
  <2> QED
    BY <2>5, <2>6, <2>7, <2>8, <2>9
<1> QED
  BY <1>2, <1>3 DEF Run

\* The response is stored, whether or not its request is told.
LEMMA StoreStep ==
  ASSUME KeyInv, NEW r \in Requests, NEW to \in {"done", "lost", "abort"},
         pc[r] = "complete", pc' = [pc EXCEPT ![r] = to], record' = Response(r),
         \/ to = "abort" /\ UNCHANGED reply
         \/ to = "lost" /\ reply' = [reply EXCEPT ![r] = Refusal("error")]
         \/ to = "done" /\ reply' = [reply EXCEPT ![r] = Own(r)],
         UNCHANGED <<period, ran>>
  PROVE  KeyInv'
<1> USE DEF KeyInv
<1>1. record = Claim(r) /\ record # None /\ record.by = r
  BY RecordShape DEF ClaimOwned, Holding
<1>2. \A q \in Requests : q # r => pc[q] \notin Holding
  <2>1. \A q \in Requests : q # r => record # Claim(q) /\ record # Response(q)
    BY <1>1, RecordShape
  <2> QED
    BY <2>1 DEF ClaimOwned
<1>3. /\ Own(r) \in Replies /\ Own(r).of = r /\ Own(r).kind = "response"
      /\ Refusal("error") \in Replies /\ Refusal("error").kind = "error"
  BY DEF Own, Refusal, Replies
<1>4. TypeOK'
  BY <1>3, RecordShape DEF TypeOK, Steps, Holding
<1>5. ClaimOwned'
  BY <1>2, RecordShape DEF TypeOK, ClaimOwned, Holding
<1>6. \A q \in Requests : Failed(q) => Failed(q)'
  BY <1>3 DEF TypeOK, AnsweredIsDone, Failed
<1>7. \A a \in ran : a[1] \in Requests
  BY DEF TypeOK
<1>8. AcceptedRecorded' /\ OneAcceptance'
  BY <1>1, <1>6, <1>7, RecordShape DEF AcceptedRecorded, OneAcceptance
<1>9. ReplaysOwnBody' /\ AnsweredIsDone'
  BY <1>3 DEF TypeOK, ReplaysOwnBody, AnsweredIsDone
<1> QED
  BY <1>4, <1>5, <1>8, <1>9

\* The claim is given back, whether or not its request is told.
LEMMA ReleaseStep ==
  ASSUME KeyInv, NEW r \in Requests, NEW to \in {"done", "lost"},
         pc[r] = "delete", pc' = [pc EXCEPT ![r] = to], record' = None,
         reply' = [reply EXCEPT ![r] = Refusal("error")], UNCHANGED <<period, ran>>
  PROVE  KeyInv'
<1> USE DEF KeyInv
<1>1. record = Claim(r) /\ record.by = r /\ record.status = "in_progress"
  BY RecordShape DEF ClaimOwned, Holding
<1>2. \A q \in Requests : q # r => pc[q] \notin Holding
  <2>1. \A q \in Requests : q # r => record # Claim(q) /\ record # Response(q)
    BY <1>1, RecordShape
  <2> QED
    BY <2>1 DEF ClaimOwned
<1>3. \A a \in ran : a[2] = period /\ ~Failed(a[1]) => a[1] = r
  BY <1>1 DEF AcceptedRecorded
<1>4. Refusal("error") \in Replies /\ Refusal("error").kind = "error"
  BY DEF Refusal, Replies
<1>5. TypeOK'
  BY <1>4 DEF TypeOK, Steps
<1>6. ClaimOwned'
  BY <1>2 DEF TypeOK, ClaimOwned, Holding
<1>7. \A q \in Requests : Failed(q)' <=> q = r \/ Failed(q)
  BY <1>4 DEF TypeOK, Failed
<1>8. \A a \in ran : a[1] \in Requests
  BY DEF TypeOK
<1>9. AcceptedRecorded' /\ OneAcceptance'
  BY <1>3, <1>7, <1>8 DEF AcceptedRecorded, OneAcceptance
<1>10. ReplaysOwnBody' /\ AnsweredIsDone'
  BY <1>4 DEF TypeOK, ReplaysOwnBody, AnsweredIsDone
<1> QED
  BY <1>5, <1>6, <1>9, <1>10

\* A command that raises: carried out, it is the step it would have been;
\* otherwise it leaves the record alone.
LEMMA ErrorStep ==
  ASSUME KeyInv, NEW r \in Requests,
         ReadError(r) \/ ClaimError(r) \/ CompleteError(r) \/ AbortError(r)
  PROVE  KeyInv'
<1>1. Refusal("error") \in Replies /\ Refusal("error").kind = "error"
  BY DEF Refusal, Replies
<1>2. CASE ReadError(r)
  BY <1>1, <1>2, QuietStep DEF ReadError, Answer, Goto, Steps, Holding, Keeping
<1>3. CASE ClaimError(r)
  <2>1. CASE UNCHANGED record
    BY <1>1, <1>3, <2>1, QuietStep DEF ClaimError, Lose, Goto, Steps, Holding, Keeping
  <2>2. CASE record = None /\ record' = Claim(r)
    BY <1>3, <2>2, TakeStep DEF ClaimError, Lose, Goto
  <2> QED
    BY <1>3, <2>1, <2>2 DEF ClaimError
<1>4. CASE CompleteError(r)
  <2>1. pc[r] = "complete" /\ record = Claim(r)
    BY <1>4 DEF CompleteError, KeyInv, ClaimOwned, Holding
  <2>2. CASE UNCHANGED record
    BY <1>1, <1>4, <2>1, <2>2, QuietStep
    DEF CompleteError, Lose, Goto, Steps, Holding, Keeping, Created
  <2>3. CASE record' = Response(r)
    BY <1>4, <2>1, <2>3, StoreStep DEF CompleteError, Lose, Goto
  <2> QED
    BY <1>4, <2>2, <2>3 DEF CompleteError
<1>5. CASE AbortError(r)
  <2>1. CASE UNCHANGED record
    BY <1>1, <1>5, <2>1, QuietStep DEF AbortError, Lose, Goto, Steps, Holding, Keeping
  <2>2. CASE pc[r] = "delete" /\ record' = None
    BY <1>5, <2>2, ReleaseStep DEF AbortError, Lose, Goto
  <2> QED
    BY <1>5, <2>1, <2>2 DEF AbortError
<1> QED
  BY <1>2, <1>3, <1>4, <1>5

\* The end of a TTL period.
LEMMA ExpireStep == KeyInv /\ Expire => KeyInv'
<1> SUFFICES ASSUME KeyInv, Expire PROVE KeyInv'
  OBVIOUS
<1> USE DEF KeyInv, Expire
<1>1. TypeOK' /\ ClaimOwned' /\ AnsweredIsDone'
  BY DEF TypeOK, ClaimOwned, AnsweredIsDone
<1>2. \A a \in ran : a[2] \in Nat
  BY DEF TypeOK
<1>3. AcceptedRecorded'
  BY <1>2 DEF TypeOK, AcceptedRecorded
<1>4. ReplaysOwnBody' /\ OneAcceptance'
  BY DEF ReplaysOwnBody, OneAcceptance, Failed
<1> QED
  BY <1>1, <1>3, <1>4

\* Every step preserves the invariant.
LEMMA KeyStep == KeyInv /\ [Next]_vars => KeyInv'
<1> SUFFICES ASSUME KeyInv, [Next]_vars PROVE KeyInv'
  OBVIOUS
<1>1. ASSUME NEW r \in Requests, ReadRecord(r) \/ Poll(r) PROVE KeyInv'
  <2>1. CASE record = None
    BY <1>1, <2>1, QuietStep DEF ReadRecord, Poll, Goto, Steps, Holding, Keeping, Created
  <2>2. CASE record # None
    BY <1>1, <2>2, Evaluation DEF ReadRecord, Poll
  <2> QED
    BY <2>1, <2>2
<1>2. ASSUME NEW r \in Requests, GiveUp(r) PROVE KeyInv'
  <2>1. Refusal("in_progress") \in Replies /\ Refusal("in_progress").kind # "response"
    BY DEF Refusal, Replies
  <2> QED
    BY <1>2, <2>1, QuietStep DEF GiveUp, Answer, Goto, Steps, Holding, Keeping, Created
<1>3. ASSUME NEW r \in Requests, TryClaim(r) PROVE KeyInv'
  <2>1. CASE record # None
    BY <1>3, <2>1, QuietStep DEF TryClaim, Goto, Steps, Holding, Keeping, Created
  <2>2. CASE record = None
    BY <1>3, <2>2, TakeStep DEF TryClaim, Goto
  <2> QED
    BY <2>1, <2>2
<1>4. ASSUME NEW r \in Requests, AbortRead(r) PROVE KeyInv'
  <2>1. pc[r] = "abort" /\ (record = Claim(r) \/ record = Response(r))
    BY <1>4 DEF AbortRead, KeyInv, ClaimOwned, Holding
  <2>2. CASE record = Claim(r)
    BY <1>4, <2>1, <2>2, RecordShape, QuietStep
    DEF AbortRead, Goto, Steps, Holding, Keeping, Created
  <2>3. CASE record = Response(r)
    <3>1. Refusal("error") \in Replies /\ Refusal("error").kind = "error"
      BY DEF Refusal, Replies
    <3>2. record.status = "completed"
      BY <2>3, RecordShape
    <3> QED
      BY <1>4, <2>1, <2>3, <3>1, <3>2, QuietStep
      DEF AbortRead, Answer, Goto, Steps, Holding, Keeping
  <2> QED
    BY <2>1, <2>2, <2>3
<1>5. ASSUME NEW r \in Requests, Crash(r) PROVE KeyInv'
  BY <1>5, QuietStep DEF Crash, Goto, Steps, Holding, Keeping, Created
<1>6. ASSUME NEW r \in Requests, Complete(r) PROVE KeyInv'
  BY <1>6, StoreStep DEF Complete, Answer, Goto
<1>7. ASSUME NEW r \in Requests, AbortDelete(r) PROVE KeyInv'
  BY <1>7, ReleaseStep DEF AbortDelete, Answer, Goto
<1>8. CASE UNCHANGED vars
  BY <1>8 DEF vars, KeyInv, TypeOK, ClaimOwned, AcceptedRecorded, ReplaysOwnBody,
     OneAcceptance, AnsweredIsDone, Failed
<1> QED
  BY <1>1, <1>2, <1>3, <1>4, <1>5, <1>6, <1>7, <1>8, RunStep, ErrorStep, ExpireStep DEF Next

-----------------------------------------------------------------------------
\* Requests with one key run one at a time, whatever crashes or expires and
\* whichever Redis commands fail.
THEOREM ExclusionCorrect == Spec => []OneAtATime
<1>1. KeyInv => OneAtATime
  <2> SUFFICES ASSUME KeyInv, NEW r \in Requests, NEW s \in Requests,
                      pc[r] \in Holding, pc[s] \in Holding
               PROVE  r = s
    BY DEF OneAtATime
  <2>1. record.by = r /\ record.by = s
    BY RecordShape DEF KeyInv, ClaimOwned
  <2> QED
    BY <2>1
<1> QED
  BY InitKey, KeyStep, <1>1, PTL DEF Spec

\* One key creates at most one document or session in a TTL period, unless its
\* client was told of an error.
THEOREM AcceptanceCorrect == Spec => []OneAcceptance
<1>1. KeyInv => OneAcceptance
  BY DEF KeyInv
<1> QED
  BY InitKey, KeyStep, <1>1, PTL DEF Spec

\* Nobody is sent a response to another body (_evaluate_existing).
THEOREM ReplayCorrect == Spec => []ReplaysOwnBody
<1>1. KeyInv => ReplaysOwnBody
  BY DEF KeyInv
<1> QED
  BY InitKey, KeyStep, <1>1, PTL DEF Spec

\* A claim is never left behind by a request that ended in good order: who
\* waits for it waits for a handler, a crash or a failed Redis command.
THEOREM ClaimHeld == Spec => []ClaimHasHolder
<1>1. KeyInv => ClaimHasHolder
  BY DEF KeyInv, TypeOK, ClaimOwned, ClaimHasHolder, Keeping, Records
<1> QED
  BY InitKey, KeyStep, <1>1, PTL DEF Spec

-----------------------------------------------------------------------------
(* Refinement.                                                             *)

\* Who is at work after one request has moved.
LEMMA AtWorkMoves ==
  ASSUME TypeOK, NEW r \in Requests, NEW to, pc' = [pc EXCEPT ![r] = to]
  PROVE  AtWork' = IF to \in Holding THEN AtWork \union {r} ELSE AtWork \ {r}
BY DEF TypeOK, AtWork

\* Under a free key nobody is at work; who is at work finds its own claim there,
\* or its own response.
LEMMA AtWorkAlone ==
  KeyInv => /\ record = None => AtWork = {}
            /\ \A r \in AtWork : /\ record # None /\ record.by = r
                                 /\ pc[r] # "abort" => record = Claim(r)
BY RecordShape DEF KeyInv, ClaimOwned, AtWork

\* A step that leaves the record alone leaves the promise alone, or ends a
\* request's work.
LEMMA QuietRefines ==
  ASSUME KeyInv, NEW r \in Requests, NEW to, pc' = [pc EXCEPT ![r] = to],
         to \in Holding => pc[r] \in Holding, UNCHANGED <<record, period>>
  PROVE  [Abstract!Next]_(Abstract!once)
<1>1. TypeOK
  BY DEF KeyInv
<1>2. CASE AtWork' = AtWork
  BY <1>2 DEF Abstract!once
<1>3. CASE AtWork' # AtWork
  <2>1. r \in AtWork /\ AtWork' = AtWork \ {r}
    BY <1>1, <1>3, AtWorkMoves DEF AtWork
  <2>2. Abstract!Leave(r)
    BY <2>1 DEF Abstract!Leave
  <2> QED
    BY <2>2 DEF Abstract!Next
<1> QED
  BY <1>2, <1>3

\* SET NX carried out: the request acquires the key, told or not.
LEMMA TakeRefines ==
  ASSUME KeyInv, NEW r \in Requests, NEW to, pc' = [pc EXCEPT ![r] = to],
         record = None, record' = Claim(r), UNCHANGED period
  PROVE  [Abstract!Next]_(Abstract!once)
<1>1. AtWork = {}
  BY AtWorkAlone
<1>2. AtWork' \in {{}, {r}}
  BY <1>1, AtWorkMoves DEF KeyInv
<1>3. Claim(r) # None
  BY RecordShape
<1>4. Abstract!Acquire(r)
  BY <1>1, <1>2, <1>3, RecordShape DEF Abstract!Acquire
<1> QED
  BY <1>4 DEF Abstract!Next

\* SET carried out: the holder's response is stored.
LEMMA StoreRefines ==
  ASSUME KeyInv, NEW r \in Requests, NEW to, pc' = [pc EXCEPT ![r] = to],
         pc[r] = "complete", record' = Response(r), UNCHANGED period
  PROVE  [Abstract!Next]_(Abstract!once)
<1>1. r \in AtWork /\ record = Claim(r)
  BY AtWorkAlone DEF AtWork, Holding
<1>2. AtWork' \in {AtWork, AtWork \ {r}}
  <2>1. AtWork \union {r} = AtWork
    BY <1>1
  <2>2. AtWork' = IF to \in Holding THEN AtWork \union {r} ELSE AtWork \ {r}
    BY AtWorkMoves DEF KeyInv
  <2> QED
    BY ONLY <2>1, <2>2
<1>3. Claim(r) # None /\ Response(r) # None
  BY RecordShape
<1>4. Abstract!Store(r)
  BY <1>1, <1>2, <1>3, RecordShape DEF Abstract!Store
<1> QED
  BY <1>4 DEF Abstract!Next

\* DELETE carried out: the holder lets its own key go.
LEMMA ReleaseRefines ==
  ASSUME KeyInv, NEW r \in Requests, NEW to, pc' = [pc EXCEPT ![r] = to],
         pc[r] = "delete", to \notin Holding, record' = None, UNCHANGED period
  PROVE  [Abstract!Next]_(Abstract!once)
<1>1. r \in AtWork /\ record = Claim(r) /\ record # None
  BY AtWorkAlone DEF AtWork, Holding
<1>2. AtWork' = AtWork \ {r}
  BY AtWorkMoves DEF KeyInv
<1>3. Abstract!Release(r)
  BY <1>1, <1>2, RecordShape DEF Abstract!Release
<1> QED
  BY <1>3 DEF Abstract!Next

\* Each step on the record is a step of the promise, or none at all.
LEMMA RefinementStep == KeyInv /\ [Next]_vars => [Abstract!Next]_(Abstract!once)
<1> SUFFICES ASSUME KeyInv, [Next]_vars PROVE [Abstract!Next]_(Abstract!once)
  OBVIOUS
<1>1. ASSUME NEW r \in Requests,
             ReadRecord(r) \/ Poll(r) \/ GiveUp(r) \/ ReadError(r)
      PROVE  [Abstract!Next]_(Abstract!once)
  <2>1. PICK to \in {"claim", "wait", "done"} : pc' = [pc EXCEPT ![r] = to]
    BY <1>1 DEF ReadRecord, Poll, GiveUp, ReadError, EvaluateExisting, Answer, Goto
  <2> QED
    BY <1>1, <2>1, QuietRefines DEF ReadRecord, Poll, GiveUp, ReadError, Holding
<1>2. ASSUME NEW r \in Requests, Run(r) \/ Crash(r) \/ AbortRead(r)
      PROVE  [Abstract!Next]_(Abstract!once)
  <2>1. PICK to \in {"complete", "abort", "crashed", "delete", "done"} :
          pc' = [pc EXCEPT ![r] = to]
    BY <1>2 DEF Run, Crash, AbortRead, Answer, Goto
  <2> QED
    BY <1>2, <2>1, QuietRefines DEF Run, Crash, AbortRead, Holding
<1>3. ASSUME NEW r \in Requests, TryClaim(r) \/ ClaimError(r)
      PROVE  [Abstract!Next]_(Abstract!once)
  <2>1. CASE UNCHANGED record
    <3>1. PICK to \in {"run", "wait", "lost"} : pc' = [pc EXCEPT ![r] = to]
      BY <1>3 DEF TryClaim, ClaimError, Lose, Goto
    <3>2. to = "run" => record = None /\ record' = Claim(r)
      <4>1. pc[r] = "claim" /\ pc'[r] = to
        BY <1>3, <3>1 DEF TryClaim, ClaimError, KeyInv, TypeOK
      <4> QED
        BY <1>3, <4>1 DEF TryClaim, ClaimError, Lose, Goto, KeyInv, TypeOK
    <3>3. to # "run"
      BY <2>1, <3>2, RecordShape
    <3> QED
      BY <1>3, <2>1, <3>1, <3>3, QuietRefines DEF TryClaim, ClaimError, Holding
  <2>2. CASE ~UNCHANGED record
    <3>1. record = None /\ record' = Claim(r) /\ UNCHANGED period
      BY <1>3, <2>2 DEF TryClaim, ClaimError
    <3>2. \E to \in {"run", "wait", "lost"} : pc' = [pc EXCEPT ![r] = to]
      BY <1>3 DEF TryClaim, ClaimError, Lose, Goto
    <3> QED
      BY <3>1, <3>2, TakeRefines
  <2> QED
    BY <2>1, <2>2
<1>4. ASSUME NEW r \in Requests, Complete(r) \/ CompleteError(r)
      PROVE  [Abstract!Next]_(Abstract!once)
  <2>1. PICK to \in {"abort", "lost", "done"} : pc' = [pc EXCEPT ![r] = to]
    BY <1>4 DEF Complete, CompleteError, Answer, Lose, Goto
  <2>2. pc[r] = "complete" /\ UNCHANGED period
    BY <1>4 DEF Complete, CompleteError
  <2>3. CASE UNCHANGED record
    BY <2>1, <2>2, <2>3, QuietRefines DEF Holding
  <2>4. CASE ~UNCHANGED record
    <3>1. record' = Response(r)
      BY <1>4, <2>4 DEF Complete, CompleteError
    <3> QED
      BY <2>1, <2>2, <3>1, StoreRefines
  <2> QED
    BY <2>3, <2>4
<1>5. ASSUME NEW r \in Requests, AbortDelete(r) \/ AbortError(r)
      PROVE  [Abstract!Next]_(Abstract!once)
  <2>1. PICK to \in {"lost", "done"} : pc' = [pc EXCEPT ![r] = to]
    BY <1>5 DEF AbortDelete, AbortError, Answer, Lose, Goto
  <2>2. CASE UNCHANGED record
    BY <1>5, <2>1, <2>2, QuietRefines DEF AbortDelete, AbortError, Holding
  <2>3. CASE ~UNCHANGED record
    <3>1. pc[r] = "delete" /\ record' = None /\ UNCHANGED period
      BY <1>5, <2>3 DEF AbortDelete, AbortError
    <3> QED
      BY <2>1, <3>1, ReleaseRefines DEF Holding
  <2> QED
    BY <2>2, <2>3
<1>6. CASE Expire
  <2>1. AtWork = {} /\ AtWork' = {}
    BY <1>6 DEF Expire, AtWork
  <2>2. Abstract!Forget
    BY <1>6, <2>1 DEF Expire, Abstract!Forget
  <2> QED
    BY <2>2 DEF Abstract!Next
<1>7. CASE UNCHANGED vars
  BY <1>7 DEF vars, AtWork, Abstract!once
<1>8. CASE \E r \in Requests :
              \/ ReadRecord(r) \/ TryClaim(r) \/ Poll(r) \/ GiveUp(r)
              \/ Run(r) \/ Complete(r) \/ AbortRead(r) \/ AbortDelete(r) \/ Crash(r)
              \/ ReadError(r) \/ ClaimError(r) \/ CompleteError(r) \/ AbortError(r)
  BY ONLY <1>1, <1>2, <1>3, <1>4, <1>5, <1>8, Zenon
<1> QED
  BY <1>6, <1>7, <1>8 DEF Next

\* The record in Redis implements the promise of an Idempotency-Key: one holder
\* at a time, none once a response is stored, a stored response kept until its
\* time is over, and a key let go only by the living request that holds it.
THEOREM PromiseKept == Spec => KeepsPromise
<1>1. Init => Abstract!Init
  BY DEF Init, Abstract!Init, AtWork, Holding
<1> QED
  BY InitKey, KeyStep, RefinementStep, <1>1, PTL DEF Spec, KeepsPromise, Abstract!Spec
=============================================================================
