------------------------------- MODULE DbCalls -------------------------------
(***************************************************************************)
(* The retry helper (utils/retry.py) and the policy with which db/__init__ *)
(* wraps every operation of the database: what a caller is told, and what  *)
(* was committed, when attempts fail, time out, or commit and lose the     *)
(* acknowledgement.  One call is a function of the outcomes its attempts   *)
(* would have: outcomes[i] is met if attempt i is made.                    *)
(***************************************************************************)
EXTENDS Naturals, Sequences, FiniteSets

MaxRetries == 3   \* DEFAULT_MAX_RETRIES

(* An exception: its class, and whether its text holds one of the transient *)
(* patterns.  A database error wraps the driver's, whose text is read; the *)
(* statement's own text may match too and is not.                          *)
Classes == {"timeout", "provider_limit", "provider_auth", "integrity", "database", "other"}
Exceptions == [class : Classes, own : BOOLEAN, cause : BOOLEAN]

\* Slip: the text decides before the class does.
TransientByText(e) == e.own \/ e.cause \/ e.class \in {"timeout", "provider_limit"}

\* is_transient_error.
Transient(e) ==
  \/ e.class \in {"timeout", "provider_limit"}
  \/ e.class = "database" /\ e.cause
  \/ e.class = "other" /\ e.own

(* An attempt returns, or raises with its transaction not committed, or     *)
(* committed and the acknowledgement lost; a timeout is either.            *)
Outcomes == {"ok", "refused", "lost", "timeout", "late", "fatal"}
Raises(o) ==
  CASE o \in {"refused", "lost"} -> [class |-> "database", own |-> FALSE, cause |-> TRUE]
    [] o \in {"timeout", "late"} -> [class |-> "timeout", own |-> FALSE, cause |-> FALSE]
    [] OTHER -> [class |-> "integrity", own |-> FALSE, cause |-> TRUE]
Commits(o) == o \in {"ok", "lost", "late"}

-----------------------------------------------------------------------------
(* The policies: whether the call goes through retry_async, whether after a *)
(* timeout too, and what committing it again does.                         *)

Policy(retried, afterTimeout, effect) ==
  [retried |-> retried, afterTimeout |-> afterTimeout, effect |-> effect]
Read == Policy(TRUE, TRUE, "read")
Set == Policy(TRUE, TRUE, "set")
SetOnce == Policy(TRUE, FALSE, "set")
Insert == Policy(TRUE, FALSE, "insert")
Claim == Policy(TRUE, FALSE, "claim")
Direct == Policy(FALSE, FALSE, "insert")

UploadCalls ==
  [create_document |-> Insert, store_chunks_with_embeddings |-> SetOnce, get_document |-> Read,
   create_document_with_chunks_atomic |-> Insert]

StatusCalls ==
  [find_similar_chunks |-> Read, update_document_status |-> Set, get_document_status |-> Read]

ReplacementCalls ==
  [begin_document_replacement |-> Claim, set_document_status_detail |-> Set,
   set_document_artifact_uri |-> Set, merge_document_job_metadata |-> Set,
   replace_document_content |-> SetOnce]

MaintenanceCalls ==
  [delete_document_chunks |-> Set, delete_document |-> Set, fail_stale_documents_global |-> Set,
   list_tenant_documents |-> Read, filter_document_ids_by_metadata |-> Read,
   list_tenant_document_summaries |-> Read]

\* Slip: the turns go through retry_async as well.
TurnCallsRetried ==
  [store_chat_message |-> Insert, store_chat_turn |-> Insert, get_session_history |-> Read]

TurnCalls ==
  [store_chat_message |-> Direct, store_chat_turn |-> Direct, get_session_history |-> Read]

SessionCalls ==
  [create_session_record |-> Direct, get_or_create_session_record |-> Direct,
   get_session_record |-> Read, list_session_records |-> Read, delete_session_record |-> Set,
   add_session_document |-> Set]

FeedbackCalls ==
  [get_chat_message |-> Policy(FALSE, FALSE, "read"), create_retrieval_feedback |-> Direct,
   list_retrieval_feedback |-> Read]

Tables == {UploadCalls, StatusCalls, ReplacementCalls, MaintenanceCalls, TurnCalls, SessionCalls,
           FeedbackCalls}
Operations == UNION {DOMAIN t : t \in Tables}
PolicyOf(op) == (CHOOSE t \in Tables : op \in DOMAIN t)[op]

-----------------------------------------------------------------------------
(* One call.                                                               *)

\* Slip: max_retries counts the first attempt too.
FinalTooEarly(p, outcomes, i) ==
  \/ outcomes[i] = "ok" \/ ~p.retried \/ i = MaxRetries
  \/ outcomes[i] \in {"timeout", "late"} /\ ~p.afterTimeout
  \/ ~Transient(Raises(outcomes[i]))

\* Attempt i is the last: it returns, is the only or the last one allowed, or
\* raises what is not retried.
Final(p, outcomes, i) ==
  \/ outcomes[i] = "ok" \/ ~p.retried \/ i = MaxRetries + 1
  \/ outcomes[i] \in {"timeout", "late"} /\ ~p.afterTimeout
  \/ ~Transient(Raises(outcomes[i]))

\* The attempts made, those that commit, and whether the call returns.
Attempts(p, outcomes) ==
  CHOOSE n \in 1 .. MaxRetries + 1 : /\ Final(p, outcomes, n)
                                     /\ \A i \in 1 .. n - 1 : ~Final(p, outcomes, i)
Committed(p, outcomes) == {i \in 1 .. Attempts(p, outcomes) : Commits(outcomes[i])}
Returns(p, outcomes) == outcomes[Attempts(p, outcomes)] = "ok"

-----------------------------------------------------------------------------
\* A turn, a message, a session or feedback is stored once at most.  A document
\* or the claim of one is committed again only when the acknowledgement of the
\* commit was lost with the connection: a timeout never doubles it.
InsertsOnce(op, outcomes) ==
  LET p == PolicyOf(op)
      earlier == Committed(p, outcomes) \ {Attempts(p, outcomes)}
  IN /\ p.effect = "insert" /\ op \notin DOMAIN UploadCalls => earlier = {}
     /\ p.effect = "claim" \/ (p.effect = "insert" /\ op \in DOMAIN UploadCalls) =>
          \A i \in earlier : outcomes[i] = "lost"

\* What is safe to repeat is repeated: a read and an idempotent write that no
\* timeout ends succeed when one of the four attempts would and only transient
\* faults come before it.
FaultsMasked(op, outcomes) ==
  LET p == PolicyOf(op)
  IN p.retried /\ p.afterTimeout =>
    (Returns(p, outcomes) <=>
       \E i \in 1 .. MaxRetries + 1 :
         outcomes[i] = "ok" /\ \A j \in 1 .. i - 1 : outcomes[j] # "fatal")

\* A constraint violation, or bad credentials, is never retried whatever its
\* text says.
PermanentNotRetried(e) ==
  e.class \in {"integrity", "provider_auth"} => ~Transient(e)
=============================================================================
