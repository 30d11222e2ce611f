----------------------------- MODULE SdkProofs -----------------------------
(***************************************************************************)
(* Proofs of the safety properties of the Python SDK (module Sdk), for any *)
(* list of files, any number of tasks and any number of retries.           *)
(*                                                                         *)
(* A call passes post, backoff, poll, resend and pause; the invariant says *)
(* what each phase knows of the server: nothing is made before the answer  *)
(* to the POST, and exactly one document or claim is there while the call  *)
(* waits, so that a row that says "completed" is that upload's own.        *)
(***************************************************************************)
EXTENDS Sdk, TLAPS

\* The counters of the two retry loops have room where they are incremented.
Bounded(x) ==
  /\ Phase(x) = "resend" => call[x].tried < MaxRetries
  /\ Phase(x) = "backoff" => call[x].limited < MaxLimitRetries

\* What a phase knows of the server's documents for the item.
Known(x) ==
  /\ Phase(x) \in {"idle", "post", "backoff"} => made[x] = 0
  /\ Phase(x) \in {"poll", "resend", "pause"} => made[x] = 1
  /\ made[x] <= 1

\* A row that reads as ready after the upload was taken is the upload's.
Ready(r) == r.status = "completed" /\ r.detail = NoDetail
OwnRow(x) == made[x] = 1 /\ Ready(row[x]) => indexed[x]

\* The result of a call is there when, and only when, it is done.
Resulted(x) ==
  /\ Phase(x) = "done" <=> result[x] # "none"
  /\ result[x] = "success" => indexed[x]
  /\ result[x] = "aborted" => made[x] = 0

\* upload_many has returned.
Joined ==
  /\ client = "sync" /\ returned # "no" => AllDone
  /\ returned = "summary" => AllDone /\ ~Raised
  /\ returned = "raised" => Raised

\* Nothing stops before a file has failed.
Stopped ==
  abort \/ (\E x \in FileSet : result[x] = "aborted") =>
    \E y \in FileSet : result[y] = "failed"

Item(x) == Bounded(x) /\ Known(x) /\ OwnRow(x) /\ Resulted(x)
IInv == TypeOK /\ (\A x \in Items : Item(x)) /\ Joined /\ Stopped

-----------------------------------------------------------------------------
\* No POST is sent again by the client's own loop (is_retryable_method).
LEMMA PostIsFinal ==
  ASSUME NEW outcome, NEW n
  PROVE  /\ Attempt("POST", outcome, n) # "again"
         /\ outcome = "ok" <=> Attempt("POST", outcome, n) = "ok"
         /\ Attempt("POST", outcome, n) = "rate_limit" => outcome = "limit"
         /\ Attempt("POST", outcome, n) = "not_found" => outcome = "absent"
BY DEF Attempt, Again, IsRetryableMethod

\* A GET is sent again only while attempts are left.
LEMMA GetAgain ==
  ASSUME NEW outcome, NEW n, Attempt("GET", outcome, n) = "again"
  PROVE  n < MaxRetries
BY DEF Attempt, Again, IsRetryableMethod

\* wait_for_ready reports ready for a completed row without marker alone.
LEMMA ReadyVerdict ==
  ASSUME NEW r, Verdict(r) = "ready"
  PROVE  Ready(r)
BY DEF Verdict, Ready, ReplacementInProgress, ReplacementFailed, NoDetail

\* The writes of a row keep it a row.
LEMMA RowWrites ==
  ASSUME NEW r \in Row
  PROVE  /\ ClaimedRow(r) \in Row /\ ReplacedRow(r) \in Row
         /\ SetStatusDetail(r, ReplacementFailed) \in Row
         /\ UpdateStatus(r, "failed") \in Row
BY DEF Row, ClaimedRow, ReplacedRow, SetStatusDetail, UpdateStatus,
       Statuses, StaleStatuses, ReplaceableStatuses, Details, NoDetail,
       ReplacementInProgress, ReplacementFailed

\* So are the rows of the start and of a new document.
LEMMA NewRows ==
  /\ MissingRow \in Row
  /\ \A s \in Statuses : [CreatedRow EXCEPT !.status = s] \in Row
BY DEF Row, MissingRow, CreatedRow, Statuses, StaleStatuses, ReplaceableStatuses, Details, NoDetail

\* A row is not ready when an upload of it was just taken.
LEMMA TakenNotReady ==
  ASSUME NEW r \in Row
  PROVE  ~Ready(ClaimedRow(r)) /\ ~Ready([CreatedRow EXCEPT !.status = "queued"])
BY DEF Ready, Row, ClaimedRow, CreatedRow, ReplacementInProgress, NoDetail

Calls == [phase : {"idle", "post", "backoff", "poll", "resend", "pause", "done"},
          endpoint : {"ingest", "upload"}, tried : 0 .. MaxRetries,
          limited : 0 .. MaxLimitRetries, left : 0 .. Timeout]

\* A fresh record of locals.
LEMMA FreshCall ==
  ASSUME NEW p \in {"idle", "post", "backoff", "poll", "resend", "pause", "done"}
  PROVE  Call(p) \in Calls /\ Call(p).phase = p
BY SdkAssumption DEF Call, Calls

\* Assignments to the locals of a call.
LEMMA Updated ==
  ASSUME NEW P, NEW E, NEW T, NEW M, NEW L,
         NEW c \in [phase : P, endpoint : E, tried : T, limited : M, left : L],
         NEW p \in P, NEW n \in T, NEW l \in L
  PROVE  /\ [c EXCEPT !.left = l, !.phase = p].phase = p
         /\ [c EXCEPT !.left = l, !.phase = p].tried = c.tried
         /\ [c EXCEPT !.left = l, !.phase = p] \in
              [phase : P, endpoint : E, tried : T, limited : M, left : L]
         /\ [[c EXCEPT !.left = l] EXCEPT !.phase = p, !.tried = n].phase = p
         /\ [[c EXCEPT !.left = l] EXCEPT !.phase = p, !.tried = n] \in
              [phase : P, endpoint : E, tried : T, limited : M, left : L]
         /\ [c EXCEPT !.left = l, !.tried = n, !.phase = p].phase = p
         /\ [c EXCEPT !.left = l, !.tried = n, !.phase = p] \in
              [phase : P, endpoint : E, tried : T, limited : M, left : L]
OBVIOUS

Phases == {"idle", "post", "backoff", "poll", "resend", "pause", "done"}

LEMMA UpdatedLeft ==
  ASSUME NEW c \in Calls, NEW l \in 0 .. Timeout, NEW p \in Phases
  PROVE  /\ [c EXCEPT !.left = l, !.phase = p] \in Calls
         /\ [c EXCEPT !.left = l, !.phase = p].phase = p
<1>1. 0 \in 0 .. MaxRetries
  BY SdkAssumption
<1>. QED BY <1>1, Updated DEF Calls, Phases

LEMMA UpdatedTried ==
  ASSUME NEW c \in Calls, NEW l \in 0 .. Timeout, NEW p \in Phases, NEW n \in 0 .. MaxRetries
  PROVE  /\ [[c EXCEPT !.left = l] EXCEPT !.phase = p, !.tried = n] \in Calls
         /\ [[c EXCEPT !.left = l] EXCEPT !.phase = p, !.tried = n].phase = p
BY Updated DEF Calls, Phases

LEMMA UpdatedBoth ==
  ASSUME NEW c \in Calls, NEW l \in 0 .. Timeout, NEW p \in Phases, NEW n \in 0 .. MaxRetries
  PROVE  /\ [c EXCEPT !.left = l, !.tried = n, !.phase = p] \in Calls
         /\ [c EXCEPT !.left = l, !.tried = n, !.phase = p].phase = p
BY Updated DEF Calls, Phases

\* A call that goes on leaves results, server and the other calls alone.
LEMMA GoesOn ==
  ASSUME IInv, NEW x \in Items, NEW next \in Calls, Phase(x) # "done",
         Continue(x, next), UNCHANGED <<client, returned, serverVars>>,
         next.phase # "done",
         next.phase = "resend" => next.tried < MaxRetries,
         next.phase = "backoff" => next.limited < MaxLimitRetries,
         next.phase \in {"idle", "post", "backoff"} => Phase(x) \in {"idle", "post", "backoff"},
         next.phase \in {"poll", "resend", "pause"} => Phase(x) \in {"poll", "resend", "pause"},
         x \in FileSet => ~AllDone
  PROVE  IInv'
<1>1. TypeOK'
  BY DEF IInv, TypeOK, Continue, Calls, serverVars
<1>2. ASSUME NEW y \in Items PROVE Item(y)'
  BY <1>2, y = x \/ y # x DEF IInv, TypeOK, Item, Bounded, Known, OwnRow, Resulted, Continue, serverVars, Phase, Calls
<1>3. Joined'
  <2>1. CASE x \in FileSet
    BY <2>1 DEF IInv, Joined, AllDone, Raised, Continue
  <2>2. CASE x \notin FileSet
    BY <2>2 DEF IInv, TypeOK, Joined, AllDone, Raised, Continue, Phase, FileSet, Items
  <2>. QED BY <2>1, <2>2
<1>4. Stopped'
  BY DEF IInv, Stopped, Continue
<1>. QED BY <1>1, <1>2, <1>3, <1>4 DEF IInv

\* A result stands, and a file that fails stops the others.
LEMMA StopKeeps ==
  ASSUME IInv, NEW x \in Items, NEW outcome, Phase(x) # "done", Finish(x, outcome),
         outcome = "aborted" => abort,
         abort' => abort \/ (outcome = "failed" /\ x \in FileSet)
  PROVE  Stopped'
<1>1. result[x] = "none" /\ result' = [result EXCEPT ![x] = outcome]
  BY DEF IInv, Item, Resulted, Finish
<1>2. result \in [Items -> {"none", "success", "failed", "aborted", "raised"}]
  BY DEF IInv, TypeOK
<1>3. \A y \in FileSet : result[y] = "failed" => result'[y] = "failed"
  BY <1>1, <1>2 DEF Items
<1>4. CASE \E y \in FileSet : result[y] = "failed"
  BY <1>3, <1>4 DEF Stopped
<1>5. CASE ~\E y \in FileSet : result[y] = "failed"
  <2>1. ~abort /\ ~\E y \in FileSet : result[y] = "aborted"
    BY <1>5 DEF IInv, Stopped
  <2>2. outcome # "aborted"
    BY <2>1
  <2>3. ~\E y \in FileSet : result'[y] = "aborted"
    BY <1>1, <1>2, <2>1, <2>2 DEF Items
  <2>4. abort' => result'[x] = "failed" /\ x \in FileSet
    BY <1>1, <1>2, <2>1
  <2>. QED BY <2>3, <2>4 DEF Stopped
<1>. QED BY <1>4, <1>5

\* So does an exception.
LEMMA RaisedStays ==
  ASSUME IInv, NEW x \in Items, NEW outcome, Phase(x) # "done", Finish(x, outcome), Raised
  PROVE  Raised'
<1>1. result[x] = "none" /\ result' = [result EXCEPT ![x] = outcome]
  BY DEF IInv, Item, Resulted, Finish
<1>2. PICK y \in FileSet : result[y] = "raised"
  BY DEF Raised
<1>3. result'[y] = "raised"
  BY <1>1, <1>2 DEF IInv, TypeOK, Items
<1>. QED BY <1>3 DEF Raised

\* A call that ends with a result.
LEMMA Ends ==
  ASSUME IInv, NEW x \in Items, NEW outcome \in {"success", "failed", "aborted", "raised"},
         Phase(x) # "done", Finish(x, outcome), abort' \in BOOLEAN,
         UNCHANGED <<client, returned, serverVars>>,
         outcome = "success" => indexed[x],
         outcome = "aborted" => made[x] = 0 /\ abort,
         abort' => abort \/ (outcome = "failed" /\ x \in FileSet)
  PROVE  IInv'
<1>1. TypeOK'
  BY FreshCall DEF IInv, TypeOK, Finish, Calls, serverVars
<1>2. ASSUME NEW y \in Items PROVE Item(y)'
  BY <1>2, FreshCall, y = x \/ y # x
  DEF IInv, TypeOK, Item, Bounded, Known, OwnRow, Resulted, Finish, serverVars, Phase, Calls
<1>3. Joined'
  <2>1. CASE x \in FileSet
    <3>1. returned' = "raised" => Raised'
      BY RaisedStays DEF IInv, Joined
    <3>2. ~AllDone
      BY <2>1 DEF AllDone
    <3>. QED BY <3>1, <3>2 DEF IInv, Joined
  <2>2. CASE x \notin FileSet
    BY <2>2 DEF IInv, TypeOK, Joined, AllDone, Raised, Finish, Phase, FileSet, Items
  <2>. QED BY <2>1, <2>2
<1>4. Stopped'
  BY StopKeeps
<1>. QED BY <1>1, <1>2, <1>3, <1>4 DEF IInv

\* The calls the program starts with satisfy the invariant.
LEMMA InitInv == Init => IInv
<1>. SUFFICES ASSUME Init PROVE IInv
  OBVIOUS
<1>1. TypeOK
  BY FreshCall, NewRows, SdkAssumption
  DEF Init, TypeOK, Calls, Statuses, StaleStatuses, ReplaceableStatuses
<1>2. ASSUME NEW y \in Items PROVE Item(y)
  <2>. made[y] = 0 /\ result[y] = "none" /\ Phase(y) = "idle"
    BY <1>2, FreshCall DEF Init, Phase
  <2>. QED BY <1>2 DEF Item, Bounded, Known, OwnRow, Resulted
<1>3. Joined
  BY DEF Init, Joined
<1>4. Stopped
  BY DEF Init, Stopped, Items
<1>. QED BY <1>1, <1>2, <1>3, <1>4 DEF IInv

\* Starting an upload.
LEMMA StartKeeps ==
  ASSUME IInv, \/ \E i \in DOMAIN Files : StartFile(i)
               \/ \E x \in Items : StartReplace(x)
  PROVE  IInv'
<1>1. ASSUME NEW i \in DOMAIN Files, StartFile(i) PROVE IInv'
  <2>. DEFINE x == Files[i]
  <2>1. x \in Items /\ x \in FileSet /\ Phase(x) = "idle" /\ made[x] = 0 /\ ~AllDone
    BY <1>1 DEF StartFile, FileSet, Items, IInv, Item, Known, AllDone
  <2>2. UNCHANGED <<client, returned, serverVars>>
    BY <1>1 DEF StartFile
  <2>3. CASE Continue(x, Call("post"))
    BY <2>1, <2>2, <2>3, FreshCall, GoesOn
  <2>4. ASSUME NEW o \in {"aborted", "raised"}, Finish(x, o), UNCHANGED abort,
               o = "aborted" => abort
        PROVE  IInv'
    BY <2>1, <2>2, <2>4, Ends DEF IInv, TypeOK
  <2>. QED BY <1>1, <2>3, <2>4 DEF StartFile
<1>2. ASSUME NEW x \in Items, StartReplace(x) PROVE IInv'
  <2>1. x \notin FileSet
    BY <1>2, SdkAssumption DEF StartReplace
  <2>. QED BY <1>2, <2>1, FreshCall, GoesOn DEF StartReplace
<1>. QED BY <1>1, <1>2

\* The server takes the upload, and the call waits or has lost the reply.
LEMMA TakenKeeps ==
  ASSUME IInv, NEW x \in Items, Phase(x) = "post", Accepted(x), UNCHANGED <<client, returned>>,
         Continue(x, Call("poll")) \/ FailItem(x)
  PROVE  IInv'
<1>1. /\ row'[x] \in Row /\ ~Ready(row'[x])
  BY RowWrites, NewRows, TakenNotReady DEF Statuses, StaleStatuses, Accepted, IInv, TypeOK
<1>2. TypeOK'
  <2>1. abort' \in BOOLEAN
    BY SdkAssumption DEF IInv, TypeOK, Continue, FailItem
  <2>2. row' \in [Items -> Row] /\ made' \in [Items -> Nat] /\ indexed' \in [Items -> BOOLEAN]
    BY <1>1 DEF IInv, TypeOK, Accepted
  <2>3. call' \in [Items -> Calls] /\ result' \in [Items -> {"none", "success", "failed", "aborted", "raised"}]
    BY FreshCall DEF IInv, TypeOK, Continue, FailItem, Finish, Calls
  <2>. QED BY <2>1, <2>2, <2>3 DEF IInv, TypeOK, Calls
<1>3. ASSUME NEW y \in Items PROVE Item(y)'
  <2>1. CASE y # x
    BY <1>3, <2>1 DEF IInv, TypeOK, Item, Bounded, Known, OwnRow, Resulted, Ready, Accepted, Continue, FailItem, Finish, Phase
  <2>2. CASE y = x
    <3>1. made'[x] = 1 /\ indexed' = indexed
      BY DEF Accepted, IInv, TypeOK, Item, Known
    <3>2. CASE Continue(x, Call("poll"))
      BY <1>1, <2>2, <3>1, <3>2, FreshCall
      DEF IInv, TypeOK, Item, Bounded, Known, OwnRow, Resulted, Ready, Continue, Phase, Calls
    <3>3. CASE FailItem(x)
      BY <1>1, <2>2, <3>1, <3>3, FreshCall
      DEF IInv, TypeOK, Item, Bounded, Known, OwnRow, Resulted, Ready, FailItem, Finish, Phase, Calls
    <3>. QED BY <3>2, <3>3
  <2>. QED BY <2>1, <2>2
<1>4. Joined'
  <2>1. CASE x \in FileSet
    <3>1. returned' = "raised" => Raised'
      <4>1. CASE Continue(x, Call("poll"))
        BY <4>1 DEF IInv, Joined, Continue, Raised
      <4>2. CASE FailItem(x)
        BY <4>2, RaisedStays DEF IInv, Joined, FailItem
      <4>. QED BY <4>1, <4>2
    <3>2. ~AllDone
      BY <2>1 DEF AllDone
    <3>. QED BY <3>1, <3>2 DEF IInv, Joined
  <2>2. CASE x \notin FileSet
    BY <2>2 DEF IInv, TypeOK, Joined, AllDone, Raised, Continue, FailItem, Finish, Phase, FileSet, Items
  <2>. QED BY <2>1, <2>2
<1>5. Stopped'
  <2>1. CASE Continue(x, Call("poll"))
    BY <2>1 DEF IInv, Stopped, Continue
  <2>2. CASE FailItem(x)
    BY <2>2, StopKeeps DEF FailItem
  <2>. QED BY <2>1, <2>2
<1>. QED BY <1>2, <1>3, <1>4, <1>5 DEF IInv

\* An item that fails.
LEMMA FailKeeps ==
  ASSUME IInv, NEW x \in Items, Phase(x) # "done", FailItem(x),
         UNCHANGED <<client, returned, serverVars>>
  PROVE  IInv'
<1>1. abort' \in BOOLEAN
  BY SdkAssumption DEF FailItem, IInv, TypeOK
<1>2. abort' => abort \/ x \in FileSet
  BY DEF FailItem
<1>. QED BY <1>1, <1>2, Ends DEF FailItem

\* One attempt of the POST.
LEMMA PostKeeps ==
  ASSUME IInv, NEW x \in Items, Post(x)
  PROVE  IInv'
<1>1. /\ Phase(x) = "post" /\ UNCHANGED <<client, returned>>
      /\ x \in FileSet => ~AllDone
      /\ call[x] \in Calls
  BY DEF Post, AllDone, IInv, TypeOK, Calls
<1>2. PICK outcome :
        LET verdict == Attempt("POST", outcome, call[x].tried)
        IN /\ IF outcome \in {"ok", "lost"} THEN Accepted(x) ELSE UNCHANGED serverVars
           /\ \/ verdict = "ok" /\ Continue(x, Call("poll"))
              \/ verdict = "again"
              \/ verdict = "not_found" /\ Continue(x, [call[x] EXCEPT !.endpoint = "upload"])
              \/ /\ verdict = "rate_limit" /\ call[x].limited < MaxLimitRetries
                 /\ Continue(x, [call[x] EXCEPT !.phase = "backoff"])
              \/ FailItem(x)
  BY DEF Post
<1>3. CASE outcome \in {"ok", "lost"}
  <2>1. Accepted(x) /\ (Continue(x, Call("poll")) \/ FailItem(x))
    BY <1>2, <1>3, PostIsFinal
  <2>. QED BY <1>1, <2>1, TakenKeeps
<1>4. CASE outcome \notin {"ok", "lost"}
  <2>1. UNCHANGED <<client, returned, serverVars>>
    BY <1>1, <1>2, <1>4 DEF serverVars
  <2>2. CASE Continue(x, [call[x] EXCEPT !.endpoint = "upload"])
    <3>. DEFINE next == [call[x] EXCEPT !.endpoint = "upload"]
    <3>1. next \in Calls /\ next.phase = "post"
      BY <1>1 DEF Calls, Phase
    <3>. QED BY <1>1, <2>1, <2>2, <3>1, GoesOn
  <2>3. CASE call[x].limited < MaxLimitRetries /\ Continue(x, [call[x] EXCEPT !.phase = "backoff"])
    <3>. DEFINE next == [call[x] EXCEPT !.phase = "backoff"]
    <3>1. next \in Calls /\ next.phase = "backoff" /\ next.limited < MaxLimitRetries
      BY <1>1, <2>3 DEF Calls, Phase
    <3>. QED BY <1>1, <2>1, <2>3, <3>1, GoesOn
  <2>4. CASE FailItem(x)
    BY <1>1, <2>1, <2>4, FailKeeps
  <2>. QED BY <1>2, <1>4, <2>2, <2>3, <2>4, PostIsFinal
<1>. QED BY <1>3, <1>4

\* The upload again after a rate limit.
LEMMA RetryKeeps ==
  ASSUME IInv, NEW x \in Items, RetryLimited(x)
  PROVE  IInv'
<1>. DEFINE next == [Call("post") EXCEPT !.limited = call[x].limited + 1]
<1>1. call[x] \in Calls /\ call[x].limited < MaxLimitRetries
  BY DEF RetryLimited, IInv, TypeOK, Item, Bounded, Calls
<1>2. next \in Calls /\ next.phase = "post"
  BY <1>1, FreshCall, SdkAssumption DEF Calls
<1>3. x \in FileSet => ~AllDone
  BY DEF RetryLimited, AllDone
<1>. QED BY <1>2, <1>3, GoesOn DEF RetryLimited

\* Time only ever passes.
LEMMA SpendBounds ==
  ASSUME NEW x, call[x] \in Calls, NEW d \in Nat
  PROVE  Spend(x, d) \in 0 .. Timeout
BY SdkAssumption DEF Spend, Calls

\* One attempt of a GET.
LEMMA PollKeeps ==
  ASSUME IInv, NEW x \in Items, Poll(x)
  PROVE  IInv'
<1>1. /\ Phase(x) = "poll" /\ UNCHANGED <<client, returned, serverVars>>
      /\ x \in FileSet => ~AllDone
      /\ call[x] \in Calls
  BY DEF Poll, AllDone, IInv, TypeOK, Calls
<1>2. CASE FailItem(x)
  BY <1>1, <1>2, FailKeeps
<1>3. ASSUME NEW outcome, NEW t \in {0, 1},
             Attempt("GET", outcome, call[x].tried) = "again",
             Continue(x, [[call[x] EXCEPT !.left = Spend(x, t)] EXCEPT !.phase = "resend"])
      PROVE  IInv'
  <2>. DEFINE next == [[call[x] EXCEPT !.left = Spend(x, t)] EXCEPT !.phase = "resend"]
  <2>1. next \in Calls /\ next.phase = "resend" /\ next.tried = call[x].tried
    BY <1>1, <1>3, SpendBounds DEF Calls
  <2>. QED BY <1>1, <1>3, <2>1, GetAgain, GoesOn
<1>4. ASSUME NEW t \in {0, 1},
             Continue(x, [[call[x] EXCEPT !.left = Spend(x, t)] EXCEPT !.phase = "pause", !.tried = 0])
      PROVE  IInv'
  <2>. DEFINE next == [[call[x] EXCEPT !.left = Spend(x, t)] EXCEPT !.phase = "pause", !.tried = 0]
  <2>1. next \in Calls /\ next.phase = "pause"
    <3>1. Spend(x, t) \in 0 .. Timeout /\ 0 \in 0 .. MaxRetries
      BY <1>1, <1>4, SpendBounds, SdkAssumption
    <3>2. "pause" \in Phases
      BY DEF Phases
    <3>3. next \in Calls
      BY <1>1, <3>1, <3>2, UpdatedTried
    <3>4. next.phase = "pause"
      BY <1>1 DEF Calls
    <3>. QED BY <3>3, <3>4
  <2>. QED BY <1>1, <1>4, <2>1, GoesOn
<1>5. CASE Verdict(row[x]) = "ready" /\ Finish(x, "success") /\ UNCHANGED abort
  <2>1. indexed[x]
    BY <1>1, <1>5, ReadyVerdict DEF IInv, Item, Known, OwnRow
  <2>. QED BY <1>1, <1>5, <2>1, Ends DEF IInv, TypeOK
<1>6. PICK outcome \in {"ok", "busy", "timeout", "absent"}, t \in {0, 1} :
        \/ FailItem(x)
        \/ /\ Attempt("GET", outcome, call[x].tried) = "again"
           /\ Continue(x, [[call[x] EXCEPT !.left = Spend(x, t)] EXCEPT !.phase = "resend"])
        \/ Continue(x, [[call[x] EXCEPT !.left = Spend(x, t)] EXCEPT !.phase = "pause", !.tried = 0])
        \/ Verdict(row[x]) = "ready" /\ Finish(x, "success") /\ UNCHANGED abort
  BY DEF Poll
<1>. QED BY <1>2, <1>3, <1>4, <1>5, <1>6
\* The sleeps: before another attempt, and between two polls.
LEMMA SleepKeeps ==
  ASSUME IInv, NEW x \in Items, Resend(x) \/ Pause(x)
  PROVE  IInv'
<1>1. /\ Phase(x) \in {"resend", "pause"} /\ UNCHANGED <<client, returned, serverVars>>
      /\ x \in FileSet => ~AllDone
      /\ call[x] \in Calls
  BY DEF Resend, Pause, AllDone, IInv, TypeOK, Calls
<1>2. CASE FailItem(x)
  BY <1>1, <1>2, FailKeeps
<1>3. ASSUME NEW d \in Nat, Phase(x) = "resend", SleepFits(x, d),
             Continue(x, [call[x] EXCEPT !.left = @ - d, !.tried = @ + 1, !.phase = "poll"])
      PROVE  IInv'
  <2>. DEFINE next == [call[x] EXCEPT !.left = @ - d, !.tried = @ + 1, !.phase = "poll"]
  <2>1. call[x].tried < MaxRetries /\ d < call[x].left
    BY <1>3 DEF IInv, Item, Bounded, SleepFits
  <2>2. call[x].tried + 1 \in 0 .. MaxRetries /\ call[x].left - d \in 0 .. Timeout
    BY <1>1, <1>3, <2>1, SdkAssumption DEF Calls
  <2>3. next \in Calls /\ next.phase = "poll"
    <3>1. "poll" \in Phases
      BY DEF Phases
    <3>2. next \in Calls
      BY <1>1, <2>2, <3>1, UpdatedBoth
    <3>3. next.phase = "poll"
      BY <1>1 DEF Calls
    <3>. QED BY <3>2, <3>3
  <2>. QED BY <1>1, <1>3, <2>3, GoesOn
<1>4. CASE Pause(x)
  <2>. DEFINE next == [call[x] EXCEPT !.left = Spend(x, Interval), !.phase = "poll"]
  <2>1. Spend(x, Interval) \in 0 .. Timeout
    BY <1>1, SpendBounds, SdkAssumption
  <2>2. next \in Calls /\ next.phase = "poll"
    <3>1. "poll" \in Phases
      BY DEF Phases
    <3>. QED BY <1>1, <2>1, <3>1, UpdatedLeft
  <2>. QED BY <1>1, <1>4, <2>2, GoesOn DEF Pause
<1>5. CASE Resend(x)
  <2>1. PICK d \in 0 .. call[x].tried + 1 :
          IF SleepFits(x, d)
          THEN Continue(x, [call[x] EXCEPT !.left = @ - d, !.tried = @ + 1, !.phase = "poll"])
          ELSE FailItem(x)
    BY <1>5 DEF Resend
  <2>2. d \in Nat /\ Phase(x) = "resend"
    <3>1. Phase(x) = "resend"
      BY <1>5 DEF Resend
    <3>2. call[x].tried + 1 \in Nat
      BY <1>1, SdkAssumption DEF Calls
    <3>3. d \in 0 .. call[x].tried + 1
      BY <2>1
    <3>. QED BY <3>1, <3>2, <3>3
  <2>. QED BY <1>2, <1>3, <2>1, <2>2
<1>. QED BY <1>4, <1>5

\* upload_many returns, or its awaiter gets the first exception.
LEMMA JoinKeeps ==
  ASSUME IInv, JoinPool \/ Gather
  PROVE  IInv'
<1>1. TypeOK' /\ \A x \in Items : Item(x)'
  BY DEF IInv, TypeOK, JoinPool, Gather, Item, Bounded, Known, OwnRow, Resulted, Phase, serverVars
<1>2. Joined'
  BY DEF IInv, Joined, JoinPool, Gather, AllDone, Raised, Phase
<1>3. Stopped'
  BY DEF IInv, Stopped, JoinPool, Gather
<1>. QED BY <1>1, <1>2, <1>3 DEF IInv

\* The worker of the server finishes a document: the row it leaves is ready only
\* with the content indexed.
LEMMA IngestKeeps ==
  ASSUME IInv, NEW x \in Items, Ingest(x)
  PROVE  IInv'
<1>1. /\ row'[x] \in Row /\ indexed'[x] \in BOOLEAN
      /\ row' = [row EXCEPT ![x] = row'[x]] /\ indexed' = [indexed EXCEPT ![x] = indexed'[x]]
      /\ indexed[x] => indexed'[x]
      /\ Ready(row'[x]) => indexed'[x]
  <2>1. row[x] \in Row /\ ~Ready(row[x])
    BY DEF Ingest, IInv, TypeOK, Ready, NoDetail, ReplacementInProgress
  <2>2. CASE row' = [row EXCEPT ![x] = ReplacedRow(@)] /\ indexed' = [indexed EXCEPT ![x] = TRUE]
    BY <2>1, <2>2, RowWrites DEF IInv, TypeOK
  <2>3. CASE row' = [row EXCEPT ![x] = SetStatusDetail(@, ReplacementFailed)] /\ UNCHANGED indexed
    <3>1. ~Ready(SetStatusDetail(row[x], ReplacementFailed))
      BY <2>1 DEF Ready, SetStatusDetail, Row, ReplacementFailed, NoDetail
    <3>. QED BY <2>1, <2>3, <3>1, RowWrites DEF IInv, TypeOK
  <2>4. CASE row' = [row EXCEPT ![x] = UpdateStatus(@, "failed")] /\ UNCHANGED indexed
    <3>1. ~Ready(UpdateStatus(row[x], "failed"))
      BY <2>1 DEF Ready, UpdateStatus, Row
    <3>. QED BY <2>1, <2>4, <3>1, RowWrites DEF IInv, TypeOK
  <2>. QED BY <2>2, <2>3, <2>4 DEF Ingest
<1>2. UNCHANGED <<client, call, result, abort, returned, made>>
  BY DEF Ingest
<1>3. TypeOK'
  BY <1>1, <1>2 DEF IInv, TypeOK
<1>4. ASSUME NEW y \in Items PROVE Item(y)'
  BY <1>1, <1>2, <1>4, y = x \/ y # x DEF IInv, TypeOK, Item, Bounded, Known, OwnRow, Resulted, Phase
<1>5. Joined'
  BY <1>2 DEF IInv, Joined, AllDone, Raised, Phase
<1>6. Stopped'
  BY <1>2 DEF IInv, Stopped
<1>. QED BY <1>3, <1>4, <1>5, <1>6 DEF IInv

\* Every step preserves the invariant.
LEMMA StepInv == IInv /\ [Next]_vars => IInv'
<1>. SUFFICES ASSUME IInv, [Next]_vars PROVE IInv'
  OBVIOUS
<1>1. CASE UNCHANGED vars
  <2>1. TypeOK' /\ \A x \in Items : Item(x)'
    BY <1>1 DEF vars, serverVars, IInv, TypeOK, Item, Bounded, Known, OwnRow, Resulted, Phase
  <2>2. Joined'
    BY <1>1 DEF vars, IInv, Joined, AllDone, Raised, Phase
  <2>3. Stopped'
    BY <1>1 DEF vars, IInv, Stopped
  <2>. QED BY <2>1, <2>2, <2>3 DEF IInv
<1>2. ASSUME NEW x \in Items, ItemStep(x) PROVE IInv'
  BY <1>2, StartKeeps, PostKeeps, RetryKeeps, PollKeeps, SleepKeeps DEF ItemStep
<1>. QED BY <1>1, <1>2, StartKeeps, JoinKeeps, IngestKeeps DEF Next

\* What the invariant says of each property.
LEMMA InvImplies == IInv => TypeOK /\ NoDuplicateUploads /\ ReadyIsIndexed /\ BulkUploadSettles
<1>. SUFFICES ASSUME IInv PROVE TypeOK /\ NoDuplicateUploads /\ ReadyIsIndexed /\ BulkUploadSettles
  OBVIOUS
<1>1. TypeOK /\ NoDuplicateUploads /\ ReadyIsIndexed
  BY DEF IInv, Item, Known, Resulted, NoDuplicateUploads, ReadyIsIndexed
<1>2. returned # "no" => /\ returned = "raised" <=> Raised
                         /\ client = "sync" \/ returned = "summary" => AllDone
  BY DEF IInv, TypeOK, Joined
<1>3. \A x \in FileSet : result[x] = "aborted" =>
        made[x] = 0 /\ \E y \in FileSet : result[y] = "failed"
  BY DEF IInv, Item, Resulted, Stopped, Items
<1>. QED BY <1>1, <1>2, <1>3 DEF BulkUploadSettles

\* The invariant holds throughout, for any files, tasks and retries.
THEOREM Invariant == Spec => []IInv
BY InitInv, StepInv, PTL DEF Spec

\* The types of the client's locals and the server's rows (upload_many,
\* wait_for_ready): no retry counter and no deadline leaves its range.
THEOREM TypeCorrect == Spec => []TypeOK
BY Invariant, InvImplies, PTL

\* upload_document and upload_many: the retries of the SDK make one document,
\* or one claim, of an item at most, with every request or reply lost.
THEOREM NoDuplicates == Spec => []NoDuplicateUploads
BY Invariant, InvImplies, PTL

\* wait_for_ready: what it reports ready has its new content indexed.
THEOREM ReadyMeansIndexed == Spec => []ReadyIsIndexed
BY Invariant, InvImplies, PTL

\* upload_many, by either client and whether or not a path raised: the summary is
\* lost for such a path alone, only the asynchronous client's exception leaves tasks
\* behind, and only a file's failure keeps another from being uploaded.
THEOREM BulkSettles == Spec => []BulkUploadSettles
BY Invariant, InvImplies, PTL
=============================================================================
