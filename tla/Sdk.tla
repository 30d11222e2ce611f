--------------------------------- MODULE Sdk ---------------------------------
(***************************************************************************)
(* The Python SDK (sdk/python/chatvector) against the API: bulk uploads by *)
(* several tasks, the retries of a request, the wait for a document and    *)
(* its deadline, with requests and replies lost on the way.                *)
(*                                                                         *)
(* The synchronous and the asynchronous client are two translations of the *)
(* same protocol; where their code is apart both are here and `client`     *)
(* says which one runs.  The server is modelled from what the API does     *)
(* with these requests; it has no /ingest route.  Time is counted in       *)
(* ticks of the wait's deadline: sleeping spends them, a request may.      *)
(***************************************************************************)
EXTENDS DocumentRow, Naturals, Sequences, FiniteSets

CONSTANTS
  Files,        \* the paths given to upload_many, in order
  Missing,      \* those of them that may not be files
  Replaced,     \* documents replaced by upload_document(replace_document_id)
  Concurrency,  \* the argument of upload_many
  MaxRetries,   \* client.max_retries
  MaxLimitRetries, \* max_rate_limit_retries, with retry_on_rate_limit set
  Timeout,      \* the timeout of wait_for_ready, in ticks
  Interval,     \* its interval
  FailFast      \* the argument of upload_many

FileSet == {Files[i] : i \in DOMAIN Files}
Items == FileSet \union Replaced

ASSUME SdkAssumption ==
  /\ Missing \subseteq FileSet /\ FileSet \intersect Replaced = {}
  /\ Concurrency \in Nat \ {0} /\ MaxRetries \in Nat /\ MaxLimitRetries \in Nat
  /\ Timeout \in Nat \ {0} /\ Interval \in Nat \ {0}
  /\ FailFast \in BOOLEAN

VARIABLES
  client,    \* the client in use
  call,      \* the locals of each item's upload: where it is, the route it is
             \* posted to, attempts of the request, waits for a rate limit so
             \* far, and ticks to the deadline of its wait
  result,    \* its BulkUploadResult, or the outcome of the two calls
  abort,     \* a failure was seen under fail_fast
  returned,  \* what upload_many gave its caller
  row,       \* server: the row of the item's document
  made,      \* history: documents or claims the server made for the item
  indexed    \* history: the server holds the item's content

serverVars == <<row, made, indexed>>
vars == <<client, call, result, abort, returned, serverVars>>

Call(phase) == [phase |-> phase, endpoint |-> "ingest", tried |-> 0, limited |-> 0, left |-> Timeout]

Init ==
  /\ client \in {"sync", "async"}
  /\ call = [x \in Items |-> Call("idle")]
  /\ result = [x \in Items |-> "none"]
  /\ abort = FALSE
  /\ returned = "no"
  /\ row = [x \in Items |-> IF x \in Replaced
                            THEN [CreatedRow EXCEPT !.status = "completed"]
                            ELSE MissingRow]
  /\ made = [x \in Items |-> 0]
  /\ indexed = [x \in Items |-> FALSE]

-----------------------------------------------------------------------------
(* One request.                                                            *)

\* Slip: every method is replayed.
EveryMethod(method) == TRUE

\* is_retryable_method.
IsRetryableMethod(method) == method \in {"GET", "HEAD"}

\* A safe method is tried again while attempts are left.
Again(method, n) == IsRetryableMethod(method) /\ n < MaxRetries

\* What an attempt returns, or raises: retryable statuses (429, 503) and
\* transport errors ask for another attempt, or else they are the error.
Attempt(method, outcome, n) ==
  CASE outcome = "ok" -> "ok"
    [] outcome \in {"limit", "busy", "lost", "timeout"} /\ Again(method, n) -> "again"
    [] outcome = "limit" /\ ~Again(method, n) -> "rate_limit"
    [] outcome = "absent" -> "not_found"
    [] OTHER -> "error"

\* retry_sync, before it sleeps: a delay that reaches the deadline ends the loop.
SleepFits(x, delay) == delay < call[x].left

-----------------------------------------------------------------------------
(* upload_many: tasks take the files in order.                             *)

Phase(x) == call[x].phase
Active == {x \in FileSet : Phase(x) \notin {"idle", "done"}}

Finish(x, outcome) ==
  /\ call' = [call EXCEPT ![x] = Call("done")]
  /\ result' = [result EXCEPT ![x] = outcome]

\* The call goes on.
Continue(x, next) == call' = [call EXCEPT ![x] = next] /\ UNCHANGED <<result, abort>>

\* The next task: aborted, or a path that is no file and raises through, or on.
StartFile(i) ==
  LET x == Files[i]
  IN /\ Phase(x) = "idle"
     /\ \A j \in 1 .. i - 1 : Phase(Files[j]) # "idle"
     /\ Cardinality(Active) < Concurrency
     /\ \/ FailFast /\ abort /\ Finish(x, "aborted") /\ UNCHANGED abort
        \/ ~(FailFast /\ abort) /\ x \in Missing /\ Finish(x, "raised") /\ UNCHANGED abort
        \/ ~(FailFast /\ abort) /\ Continue(x, Call("post"))
     /\ UNCHANGED <<client, returned, serverVars>>

\* The caller goes on to upload_document with replace_document_id.
StartReplace(x) ==
  /\ x \in Replaced
  /\ returned # "no"
  /\ Phase(x) = "idle"
  /\ Continue(x, Call("post"))
  /\ UNCHANGED <<client, returned, serverVars>>

\* The API takes the upload: a new row, or the claim of the document.
Accepted(x) ==
  /\ row' = [row EXCEPT ![x] = IF x \in Replaced THEN ClaimedRow(@)
                               ELSE [CreatedRow EXCEPT !.status = "queued"]]
  /\ made' = [made EXCEPT ![x] = @ + 1]
  /\ UNCHANGED indexed

\* A ChatVectorAPIError becomes the file's result, and stops the others under
\* fail_fast.
FailItem(x) ==
  /\ Finish(x, "failed")
  /\ abort' = (abort \/ (FailFast /\ x \in FileSet))

\* upload_document: POST /ingest, and on 404 POST /upload.  The reply is lost
\* with the upload done ("lost") or not ("timeout").
Post(x) ==
  /\ Phase(x) = "post"
  /\ \E outcome \in IF call[x].endpoint = "ingest" THEN {"absent", "timeout"}
                    ELSE {"ok", "lost", "timeout", "limit", "busy"} :
       LET verdict == Attempt("POST", outcome, call[x].tried)
       IN /\ IF outcome \in {"ok", "lost"} THEN Accepted(x) ELSE UNCHANGED serverVars
          /\ CASE verdict = "ok" -> Continue(x, Call("poll"))
               [] verdict = "again" -> Continue(x, [call[x] EXCEPT !.tried = @ + 1])
               [] verdict = "not_found" -> Continue(x, [call[x] EXCEPT !.endpoint = "upload"])
               [] verdict = "rate_limit" /\ x \in FileSet /\ call[x].limited < MaxLimitRetries ->
                    Continue(x, [call[x] EXCEPT !.phase = "backoff"])
               [] OTHER -> FailItem(x)
  /\ UNCHANGED <<client, returned>>

\* The sleep of _upload_with_optional_rate_limit_retry, then the whole upload.
RetryLimited(x) ==
  /\ Phase(x) = "backoff"
  /\ Continue(x, [Call("post") EXCEPT !.limited = call[x].limited + 1])
  /\ UNCHANGED <<client, returned, serverVars>>

-----------------------------------------------------------------------------
(* wait_for_ready.                                                         *)

\* Slip: only `status` is read.
VerdictByStatus(r) ==
  CASE r.status = "completed" -> "ready"
    [] r.status = "failed" -> "failed"
    [] OTHER -> "wait"

\* The verdict on a status payload: the marker of a replacement comes first.
Verdict(r) ==
  CASE r.detail = ReplacementInProgress -> "wait"
    [] r.status = "completed" /\ r.detail = NoDetail -> "ready"
    [] r.detail = ReplacementFailed \/ (r.status = "failed" /\ r.detail = NoDetail) -> "failed"
    [] OTHER -> "wait"

\* What a duration leaves of the time to the deadline.
Spend(x, duration) == IF call[x].left > duration THEN call[x].left - duration ELSE 0

\* get_status, one attempt, which takes no time worth counting or a tick; none
\* starts at the deadline.
Poll(x) ==
  /\ Phase(x) = "poll"
  /\ \/ call[x].left = 0 /\ FailItem(x)
     \/ /\ call[x].left > 0
        /\ \E outcome \in {"ok", "busy", "timeout", "absent"}, t \in {0, 1} :
             LET verdict == Attempt("GET", outcome, call[x].tried)
                 spent == [call[x] EXCEPT !.left = Spend(x, t)]
             IN CASE verdict = "again" -> Continue(x, [spent EXCEPT !.phase = "resend"])
                  [] verdict = "ok" /\ Verdict(row[x]) = "ready" ->
                       Finish(x, "success") /\ UNCHANGED abort
                  [] verdict = "ok" /\ Verdict(row[x]) = "wait" ->
                       Continue(x, [spent EXCEPT !.phase = "pause", !.tried = 0])
                  [] OTHER -> FailItem(x)
  /\ UNCHANGED <<client, returned, serverVars>>

\* The back-off before the next attempt of a GET, full jitter.
Resend(x) ==
  /\ Phase(x) = "resend"
  /\ \E delay \in 0 .. call[x].tried + 1 :
       IF SleepFits(x, delay)
       THEN Continue(x, [call[x] EXCEPT !.left = @ - delay, !.tried = @ + 1, !.phase = "poll"])
       ELSE FailItem(x)
  /\ UNCHANGED <<client, returned, serverVars>>

\* Slip: every poll has the whole timeout.
PauseRestarts(x) ==
  /\ Phase(x) = "pause"
  /\ Continue(x, [call[x] EXCEPT !.left = Timeout, !.phase = "poll"])
  /\ UNCHANGED <<client, returned, serverVars>>

\* The sleep between two polls, capped to the deadline.
Pause(x) ==
  /\ Phase(x) = "pause"
  /\ Continue(x, [call[x] EXCEPT !.left = Spend(x, Interval), !.phase = "poll"])
  /\ UNCHANGED <<client, returned, serverVars>>

-----------------------------------------------------------------------------
(* upload_many returns.                                                    *)

AllDone == \A x \in FileSet : Phase(x) = "done"
Raised == \E x \in FileSet : result[x] = "raised"

\* Slip: the pool is left without waiting for the other tasks.
JoinFirst ==
  /\ client = "sync"
  /\ returned = "no"
  /\ AllDone \/ Raised
  /\ returned' = IF Raised THEN "raised" ELSE "summary"
  /\ UNCHANGED <<client, call, result, abort, serverVars>>

\* The pool waits for every task; then the first exception goes to the caller.
JoinPool ==
  /\ client = "sync"
  /\ returned = "no"
  /\ AllDone
  /\ returned' = IF Raised THEN "raised" ELSE "summary"
  /\ UNCHANGED <<client, call, result, abort, serverVars>>

\* Slip: only the last task is awaited.
GatherLast ==
  /\ client = "async"
  /\ returned = "no"
  /\ Phase(Files[Len(Files)]) = "done"
  /\ returned' = IF Raised THEN "raised" ELSE "summary"
  /\ UNCHANGED <<client, call, result, abort, serverVars>>

\* gather raises the first exception at once; the other tasks go on.
Gather ==
  /\ client = "async"
  /\ returned = "no"
  /\ AllDone \/ Raised
  /\ returned' = IF Raised THEN "raised" ELSE "summary"
  /\ UNCHANGED <<client, call, result, abort, serverVars>>

\* The server's worker completes or fails the document.
Ingest(x) ==
  /\ row[x].status = "queued" \/ row[x].detail = ReplacementInProgress
  /\ \/ /\ row' = [row EXCEPT ![x] = ReplacedRow(@)]
        /\ indexed' = [indexed EXCEPT ![x] = TRUE]
     \/ /\ row' = [row EXCEPT ![x] = IF x \in Replaced
                                     THEN SetStatusDetail(@, ReplacementFailed)
                                     ELSE UpdateStatus(@, "failed")]
        /\ UNCHANGED indexed
  /\ UNCHANGED <<client, call, result, abort, returned, made>>

\* The steps of one call.
ItemStep(x) == StartReplace(x) \/ Post(x) \/ RetryLimited(x) \/ Poll(x) \/ Resend(x) \/ Pause(x)
FileStep(i) == StartFile(i) \/ ItemStep(Files[i])

Next ==
  \/ \E i \in DOMAIN Files : StartFile(i)
  \/ \E x \in Items : ItemStep(x)
  \/ JoinPool \/ Gather
  \/ \E x \in Items : Ingest(x)

Spec == Init /\ [][Next]_vars

\* The caller's tasks run; the server owes nothing: a request that it does not
\* answer times out.
FairSpec ==
  /\ Spec
  /\ \A i \in DOMAIN Files : WF_vars(FileStep(i))
  /\ \A x \in Replaced : WF_vars(ItemStep(x))
  /\ WF_vars(JoinPool \/ Gather)

-----------------------------------------------------------------------------
TypeOK ==
  /\ client \in {"sync", "async"}
  /\ call \in [Items -> [phase : {"idle", "post", "backoff", "poll", "resend", "pause", "done"},
                          endpoint : {"ingest", "upload"}, tried : 0 .. MaxRetries,
                          limited : 0 .. MaxLimitRetries, left : 0 .. Timeout]]
  /\ result \in [Items -> {"none", "success", "failed", "aborted", "raised"}]
  /\ abort \in BOOLEAN /\ returned \in {"no", "summary", "raised"}
  /\ row \in [Items -> Row] /\ made \in [Items -> Nat] /\ indexed \in [Items -> BOOLEAN]

\* The SDK's own retries never upload an item twice, with no idempotency key:
\* a POST is repeated only after an answer that says it was refused.
NoDuplicateUploads == \A x \in Items : made[x] <= 1

\* An item reported ready has its content indexed, a replacement too: the prior
\* content's "completed" is not taken for the new one's.
ReadyIsIndexed == \A x \in Items : result[x] = "success" => indexed[x]

\* However upload_many returns: the summary is lost for a path that raised and for
\* nothing else; no task is left running, but by the asynchronous client when it
\* raises; and what is reported as never started was stopped by another file's
\* failure before it made a document.
BulkUploadSettles ==
  returned # "no" =>
    /\ returned = "raised" <=> Raised
    /\ client = "sync" \/ returned = "summary" => AllDone
    /\ \A x \in FileSet : result[x] = "aborted" =>
         made[x] = 0 /\ \E y \in FileSet : result[y] = "failed"

\* Every call ends, whatever is lost: retries and waits are bounded.
CallsEnd == <>(returned # "no" /\ \A x \in Items : Phase(x) = "done")

-----------------------------------------------------------------------------
(* What upload_many's docstring claims and the code does not keep.         *)

\* Failures are captured per file: upload_many returns a summary that accounts for
\* every file, and leaves no upload of its own running.  Violated: a path that is
\* no file raises FileNotFoundError through the bulk upload; the outcomes of the
\* others are lost with the summary, and the asynchronous client's tasks go on.
BulkUploadAccounts ==
  returned # "no" =>
    /\ returned = "summary" /\ Active = {}
    /\ \A x \in FileSet : result[x] \in {"success", "failed", "aborted"}
=============================================================================
