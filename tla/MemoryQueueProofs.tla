------------------------- MODULE MemoryQueueProofs -------------------------
(***************************************************************************)
(* Proofs about the in-memory queue, for any uploads, workers, sizes of    *)
(* the queue and of the dead-letter list, budgets and restarts.            *)
(*                                                                         *)
(* A job is in the queue or with one worker and the phase of its worker    *)
(* says how often it ran and whether its outcome is recorded.  Rows in     *)
(* progress follow from that, once start-up has left none behind.          *)
(***************************************************************************)
EXTENDS MemoryQueue, FiniteSetTheorems, TLAPS

Live(u) == Queued(u) \/ Held(u)
Open == {"admit", "announce", "full"}

\* A worker holds a job exactly while it is between two waits.
Holds == \A w \in Workers : (job[w] = None) <=> (wpc[w] \in {"off", "wait"})

\* What the process has in each part of its life.
Life ==
  /\ up \in {"down", "stale", "markers", "start"} => \A w \in Workers : wpc[w] = "off"
  /\ up \in {"stale", "markers", "start"} => queue = <<>> /\ dlq = <<>>
  /\ up # "running" => \A u \in Uploads : rpc[u] \notin Open
  /\ up \in {"stale", "markers"} => ~reconciled

\* Where the handler and the job of an upload are, together.
Custody(u) ==
  /\ Live(u) => rpc[u] \in {"announce", "accepted", "cut"}
  /\ rpc[u] \in {"new", "admit", "full"} => ended[u] = "none"
  /\ rpc[u] \in {"new", "admit"} => attempt[u] = 0 /\ tries[u] = 0
  /\ rpc[u] = "announce" => Live(u) \/ ended[u] # "none"

\* How often a job ran, by the place it is in.
Budget ==
  /\ \A u \in Uploads : tries[u] <= MaxRetries + 1
  /\ \A u \in Uploads : Queued(u) => tries[u] = attempt[u] /\ ended[u] = "none"
  /\ \A w \in Workers :
       /\ wpc[w] \in {"handed", "start", "mark", "patch", "sleep"} => tries[job[w]] = attempt[job[w]]
       /\ wpc[w] = "run" => tries[job[w]] = attempt[job[w]] + 1
       /\ wpc[w] \in {"handed", "start", "run", "mark", "patch", "sleep", "fail", "drop"} =>
            ended[job[w]] = "none"
       /\ wpc[w] = "bury" => ended[job[w]] = "failed"

\* What a row may say of an upload.
RowSays(u) ==
  /\ u \in Replaces => row[u].exists /\ row[u].status = "completed"
  /\ u \notin Replaces => row[u].detail = NoDetail
  /\ rpc[u] = "new" => row[u].detail = NoDetail
  /\ rpc[u] = "new" => ~InProgress(u)
  /\ ended[u] # "none" => ~InProgress(u) \/ row[u].status = "queued"

\* The rows that start-up has left, and the ones the running server has.
Reconciled ==
  /\ up = "markers" => \A u \in Uploads : row[u].exists => row[u].status \notin StaleStatuses
  /\ up = "start" /\ reconciled => \A u \in Uploads : ~InProgress(u)
  /\ up = "running" /\ reconciled =>
       \A u \in Uploads : InProgress(u) /\ ended[u] = "none" => InHandler(u) \/ Live(u)

IInv ==
  /\ TypeOK /\ Holds /\ Life /\ OneCopyOfJob /\ Budget /\ DeadLettersAreFailures
  /\ \A u \in Uploads : Custody(u) /\ RowSays(u)
  /\ Reconciled
-----------------------------------------------------------------------------
(* The queue as a sequence.                                                *)

\* put_nowait of a job that is not there.
LEMMA QueuedAppend ==
  ASSUME queue \in Seq(Uploads), NEW u \in Uploads, queue' = Append(queue, u)
  PROVE  /\ queue' \in Seq(Uploads)
         /\ \A v : Queued(v)' <=> Queued(v) \/ v = u
         /\ (\A i, j \in DOMAIN queue : queue[i] = queue[j] => i = j) /\ ~Queued(u) =>
              (\A i, j \in DOMAIN queue : queue[i] = queue[j] => i = j)'
<1>1. /\ queue' \in Seq(Uploads) /\ Len(queue') = Len(queue) + 1 /\ Len(queue) \in Nat
      /\ \A i \in 1 .. Len(queue) : queue'[i] = queue[i]
      /\ queue'[Len(queue) + 1] = u
      /\ DOMAIN queue = 1 .. Len(queue) /\ DOMAIN queue' = 1 .. Len(queue')
  OBVIOUS
<1>2. ASSUME NEW v PROVE Queued(v)' <=> Queued(v) \/ v = u
  BY <1>1 DEF Queued
<1>3. ASSUME \A i, j \in DOMAIN queue : queue[i] = queue[j] => i = j, ~Queued(u)
      PROVE  (\A i, j \in DOMAIN queue : queue[i] = queue[j] => i = j)'
  BY <1>1, <1>3 DEF Queued
<1>. QED BY <1>1, <1>2, <1>3

\* get: the first job goes, and is not there twice.
LEMMA QueuedTail ==
  ASSUME queue \in Seq(Uploads), queue # <<>>, queue' = Tail(queue),
         \A i, j \in DOMAIN queue : queue[i] = queue[j] => i = j
  PROVE  /\ queue' \in Seq(Uploads) /\ Head(queue) \in Uploads
         /\ \A v : Queued(v)' <=> Queued(v) /\ v # Head(queue)
         /\ Queued(Head(queue))
         /\ (\A i, j \in DOMAIN queue : queue[i] = queue[j] => i = j)'
<1>1. /\ queue' \in Seq(Uploads) /\ Len(queue) \in Nat \ {0} /\ Len(queue') = Len(queue) - 1
      /\ \A i \in 1 .. Len(queue) - 1 : queue'[i] = queue[i + 1]
      /\ Head(queue) = queue[1] /\ Head(queue) \in Uploads
      /\ DOMAIN queue = 1 .. Len(queue) /\ DOMAIN queue' = 1 .. Len(queue')
  OBVIOUS
<1>2. Queued(Head(queue))
  BY <1>1 DEF Queued
<1>3. ASSUME NEW v PROVE Queued(v)' <=> Queued(v) /\ v # Head(queue)
  <2>1. ASSUME Queued(v)' PROVE Queued(v) /\ v # Head(queue)
    BY <1>1, <2>1 DEF Queued
  <2>2. ASSUME Queued(v), v # Head(queue) PROVE Queued(v)'
    <3>1. PICK i \in DOMAIN queue : queue[i] = v
      BY <2>2 DEF Queued
    <3>2. i - 1 \in 1 .. Len(queue) - 1 /\ queue'[i - 1] = v
      BY <1>1, <2>2, <3>1
    <3>. QED BY <1>1, <3>2 DEF Queued
  <2>. QED BY <2>1, <2>2
<1>4. (\A i, j \in DOMAIN queue : queue[i] = queue[j] => i = j)'
  BY <1>1
<1>. QED BY <1>1, <1>2, <1>3, <1>4

\* _append_dlq keeps a part of the list and the new entry.
LEMMA DlqAppend ==
  ASSUME dlq \in Seq(Uploads), NEW u \in Uploads, AppendDlq(u)
  PROVE  /\ dlq' \in Seq(Uploads)
         /\ \A i \in DOMAIN dlq' : dlq'[i] = u \/ \E j \in DOMAIN dlq : dlq'[i] = dlq[j]
         /\ (\A i, j \in DOMAIN dlq : dlq[j] = dlq[i] => i = j) /\ (\A i \in DOMAIN dlq : dlq[i] # u) =>
              (\A i, j \in DOMAIN dlq : dlq[j] = dlq[i] => i = j)'
<1>. DEFINE all == Append(dlq, u)
<1>1. /\ all \in Seq(Uploads) /\ Len(all) = Len(dlq) + 1 /\ Len(dlq) \in Nat
      /\ \A i \in 1 .. Len(dlq) : all[i] = dlq[i]
      /\ all[Len(dlq) + 1] = u
      /\ DOMAIN dlq = 1 .. Len(dlq)
  OBVIOUS
<1>. HIDE DEF all
<1>2. PICK k \in Nat : /\ dlq' \in Seq(Uploads) /\ DOMAIN dlq' = 1 .. Len(dlq') /\ Len(dlq') \in Nat
                       /\ Len(dlq') + k <= Len(all)
                       /\ \A i \in 1 .. Len(dlq') : dlq'[i] = all[i + k]
  <2>1. CASE Len(all) > DlqMax
    <3>1. dlq' = SubSeq(all, Len(all) - DlqMax + 1, Len(all))
      BY <2>1 DEF AppendDlq, all
    <3>2. Len(all) - DlqMax \in Nat /\ DlqMax \in Nat \ {0} /\ Len(all) \in Nat
      BY <1>1, <2>1, MemoryQueueAssumption
    <3>3. /\ dlq' \in Seq(Uploads) /\ Len(dlq') = DlqMax
          /\ \A i \in 1 .. Len(dlq') : dlq'[i] = all[i + (Len(all) - DlqMax)]
      BY <1>1, <3>1, <3>2
    <3>4. /\ DOMAIN dlq' = 1 .. Len(dlq') /\ Len(dlq') \in Nat
          /\ Len(dlq') + (Len(all) - DlqMax) <= Len(all)
      BY <3>2, <3>3
    <3>. QED BY <3>2, <3>3, <3>4
  <2>2. CASE ~(Len(all) > DlqMax)
    <3>1. dlq' = all
      BY <2>2 DEF AppendDlq, all
    <3>2. 0 \in Nat /\ \A i \in 1 .. Len(dlq') : i + 0 = i
      OBVIOUS
    <3>. QED BY <1>1, <3>1, <3>2
  <2>. QED BY <2>1, <2>2
<1>3. ASSUME NEW i \in DOMAIN dlq'
      PROVE  /\ i + k \in 1 .. Len(dlq) => dlq'[i] = dlq[i + k]
             /\ i + k \notin 1 .. Len(dlq) => dlq'[i] = u /\ i + k = Len(dlq) + 1
  <2>1. i \in 1 .. Len(dlq') /\ i + k \in 1 .. Len(dlq) + 1
    BY <1>1, <1>2, <1>3
  <2>. QED BY <1>1, <1>2, <2>1
<1>4. \A i \in DOMAIN dlq' : dlq'[i] = u \/ \E j \in DOMAIN dlq : dlq'[i] = dlq[j]
  BY <1>1, <1>3
<1>5. ASSUME \A i, j \in DOMAIN dlq : dlq[j] = dlq[i] => i = j, \A i \in DOMAIN dlq : dlq[i] # u
      PROVE  (\A i, j \in DOMAIN dlq : dlq[j] = dlq[i] => i = j)'
  <2>1. SUFFICES ASSUME NEW i \in DOMAIN dlq', NEW j \in DOMAIN dlq', dlq'[j] = dlq'[i]
                 PROVE  i = j
    OBVIOUS
  <2>2. i \in Nat /\ j \in Nat
    BY <1>2
  <2>3. (i + k \in 1 .. Len(dlq)) <=> (j + k \in 1 .. Len(dlq))
    BY <1>1, <1>3, <1>5, <2>1
  <2>4. i + k = j + k
    BY <1>1, <1>3, <1>5, <2>1, <2>3
  <2>. QED BY <2>2, <2>4
<1>. QED BY <1>2, <1>4, <1>5
-----------------------------------------------------------------------------
(* The process.                                                            *)

\* The writes of a row keep it a row.
LEMMA RowWrites ==
  ASSUME NEW r \in Row, NEW s \in Statuses, NEW d \in Details
  PROVE  /\ UpdateStatus(r, s) \in Row /\ SetStatusDetail(r, d) \in Row
         /\ ClaimedRow(r) \in Row /\ ReplacedRow(r) \in Row
BY DEF Row, UpdateStatus, SetStatusDetail, ClaimedRow, ReplacedRow,
       Statuses, StaleStatuses, ReplaceableStatuses, Details, NoDetail,
       ReplacementInProgress, ReplacementFailed

\* So are the rows of the start and of a new document.
LEMMA NewRows ==
  CreatedRow \in Row /\ MissingRow \in Row /\ [CreatedRow EXCEPT !.status = "completed"] \in Row
BY DEF Row, CreatedRow, MissingRow, Statuses, StaleStatuses, ReplaceableStatuses, Details, NoDetail

\* The statuses and markers the code writes.
LEMMA Names ==
  /\ StaleStatuses \subseteq Statuses /\ "completed" \in Statuses /\ "failed" \in Statuses
  /\ "completed" \notin StaleStatuses /\ "failed" \notin StaleStatuses
  /\ {"uploaded", "queued", "retrying", "extracting"} \subseteq StaleStatuses
  /\ NoDetail \in Details /\ ReplacementInProgress \in Details /\ ReplacementFailed \in Details
  /\ NoDetail # ReplacementInProgress /\ ReplacementFailed # ReplacementInProgress
BY DEF Statuses, StaleStatuses, ReplaceableStatuses, Details, NoDetail,
       ReplacementInProgress, ReplacementFailed

\* What the writes leave of the columns the invariant speaks of.
LEMMA Columns ==
  ASSUME NEW r \in Row, NEW s \in Statuses, NEW d \in Details
  PROVE  /\ UpdateStatus(r, s).exists = r.exists /\ UpdateStatus(r, s).detail = r.detail
         /\ r.exists => UpdateStatus(r, s).status = s
         /\ ~r.exists => UpdateStatus(r, s) = r
         /\ SetStatusDetail(r, d).exists = r.exists /\ SetStatusDetail(r, d).status = r.status
         /\ r.exists => SetStatusDetail(r, d).detail = d
         /\ ~r.exists => SetStatusDetail(r, d) = r
         /\ ClaimedRow(r).exists = r.exists /\ ClaimedRow(r).status = r.status
         /\ ClaimedRow(r).detail = ReplacementInProgress
         /\ ReplacedRow(r).exists = r.exists /\ ReplacedRow(r).status = "completed"
         /\ ReplacedRow(r).detail = NoDetail
         /\ CreatedRow.detail = NoDetail /\ MissingRow.detail = NoDetail /\ ~MissingRow.exists
         /\ [CreatedRow EXCEPT !.status = "completed"].exists
         /\ [CreatedRow EXCEPT !.status = "completed"].status = "completed"
         /\ [CreatedRow EXCEPT !.status = "completed"].detail = NoDetail
BY DEF Row, UpdateStatus, SetStatusDetail, ClaimedRow, ReplacedRow, CreatedRow, MissingRow

\* Before the first start.
LEMMA InitInv == Init => IInv
<1>. SUFFICES ASSUME Init PROVE IInv
  OBVIOUS
<1>1. TypeOK
  <2>1. row \in [Uploads -> Row]
    BY NewRows DEF Init
  <2>2. /\ queue \in Seq(Uploads) /\ pending \in Seq(Uploads) /\ dlq \in Seq(Uploads)
        /\ starts \in 0 .. MaxStarts /\ attempt \in [Uploads -> 0 .. MaxRetries]
        /\ tries \in [Uploads -> Nat]
    BY MemoryQueueAssumption DEF Init
  <2>. QED BY <2>1, <2>2 DEF Init, TypeOK, HandlerSteps, WorkerSteps
<1>2. Holds /\ Life /\ OneCopyOfJob /\ DeadLettersAreFailures
  BY DEF Init, Holds, Life, OneCopyOfJob, DeadLettersAreFailures, Open
<1>3. Budget
  BY MemoryQueueAssumption DEF Init, Budget, Queued
<1>4. ASSUME NEW u \in Uploads PROVE Custody(u) /\ RowSays(u)
  <2>1. ~Live(u)
    BY <1>4, MemoryQueueAssumption DEF Init, Live, Queued, Held
  <2>2. row[u] \in Row /\ row[u].detail = NoDetail
        /\ (u \in Replaces => row[u].exists /\ row[u].status = "completed")
        /\ (u \notin Replaces => ~row[u].exists)
    BY <1>1, <1>4, Columns, Names, RowWrites DEF Init, TypeOK, IsReplace
  <2>. QED BY <2>1, <2>2, Names, <1>4 DEF Init, Custody, RowSays, InProgress
<1>5. Reconciled
  BY DEF Init, Reconciled
<1>. QED BY <1>1, <1>2, <1>3, <1>4, <1>5 DEF IInv
\* Nothing is live where there is no queue and no worker.
LEMMA NothingLive ==
  ASSUME IInv, up \in {"stale", "markers", "start"}
  PROVE  \A u \in Uploads : ~Live(u)
<1>1. queue = <<>> /\ \A w \in Workers : job[w] = None
  BY DEF IInv, Life, Holds
<1>. QED BY <1>1, MemoryQueueAssumption DEF Live, Queued, Held

\* A start empties the memory.
LEMMA BootKeeps ==
  ASSUME IInv, Boot
  PROVE  IInv'
<1>1. TypeOK'
  <2>1. starts' \in 0 .. MaxStarts
    BY MemoryQueueAssumption DEF Boot, IInv, TypeOK
  <2>2. queue' \in Seq(Uploads) /\ pending' \in Seq(Uploads) /\ dlq' \in Seq(Uploads)
    BY DEF Boot
  <2>. QED BY <2>1, <2>2 DEF Boot, IInv, TypeOK, workerVars
<1>2. Holds' /\ Life' /\ OneCopyOfJob' /\ DeadLettersAreFailures'
  BY DEF Boot, IInv, Holds, Life, OneCopyOfJob, Queued, DeadLettersAreFailures, workerVars, Open
<1>3. Budget'
  BY DEF Boot, IInv, Budget, Queued, workerVars
<1>4. ASSUME NEW u \in Uploads PROVE Custody(u)' /\ RowSays(u)'
  <2>1. Live(u)' => Live(u)
    BY DEF Boot, Live, Queued, Held, workerVars
  <2>2. rpc[u] # "announce"
    BY DEF Boot, IInv, Life, Open
  <2>. QED BY <1>4, <2>1, <2>2 DEF Boot, IInv, Custody, RowSays, InProgress, workerVars
<1>5. Reconciled'
  BY DEF Boot, Reconciled
<1>. QED BY <1>1, <1>2, <1>3, <1>4, <1>5 DEF IInv

\* The first transaction of reconciliation.
LEMMA StaleKeeps ==
  ASSUME IInv, FailStaleDocuments
  PROVE  IInv'
<1>1. /\ up = "stale" /\ up' = "markers"
      /\ UNCHANGED <<starts, reconciled, queue, pending, dlq, rpc, wpc, job, attempt, tries>>
      /\ \A u \in Uploads : ~Live(u) /\ ~Live(u)'
  BY NothingLive DEF FailStaleDocuments, queueVars, workerVars, Live, Queued, Held
<1>2. ASSUME NEW u \in Uploads
      PROVE  \/ /\ row[u].exists /\ row[u].status \in StaleStatuses
                /\ row'[u] = UpdateStatus(row[u], "failed") /\ ended'[u] = "failed"
             \/ /\ ~(row[u].exists /\ row[u].status \in StaleStatuses)
                /\ row'[u] = row[u] /\ ended'[u] = ended[u]
  BY <1>2 DEF FailStaleDocuments
<1>3. TypeOK'
  <2>1. row' \in [Uploads -> Row] /\ ended' \in [Uploads -> {"none", "completed", "failed"}]
    BY RowWrites, Names DEF FailStaleDocuments, IInv, TypeOK
  <2>. QED BY <1>1, <2>1 DEF IInv, TypeOK
<1>4. Holds' /\ Life' /\ OneCopyOfJob' /\ DeadLettersAreFailures'
  BY <1>1 DEF IInv, Holds, Life, OneCopyOfJob, Queued, DeadLettersAreFailures, Open
<1>5. Budget'
  BY <1>1 DEF IInv, Budget, Life, Live
<1>6. ASSUME NEW u \in Uploads
      PROVE  Custody(u)' /\ RowSays(u)' /\ (row'[u].exists => row'[u].status \notin StaleStatuses)
  <2>1. row[u] \in Row
    BY <1>6 DEF IInv, TypeOK
  <2>. QED BY <1>1, <1>2, <1>6, <2>1, Columns, Names DEF IInv, Custody, RowSays, InProgress, Life, Open
<1>7. Reconciled'
  BY <1>1, <1>6 DEF Reconciled
<1>. QED BY <1>3, <1>4, <1>5, <1>6, <1>7 DEF IInv

\* The second one: after it no row is in progress.
LEMMA MarkersKeep ==
  ASSUME IInv, FailStaleReplacements
  PROVE  IInv'
<1>1. /\ up = "markers" /\ up' = "start"
      /\ UNCHANGED <<starts, queue, pending, dlq, rpc, wpc, job, attempt, tries>>
      /\ \A u \in Uploads : ~Live(u) /\ ~Live(u)'
  BY NothingLive DEF FailStaleReplacements, queueVars, workerVars, Live, Queued, Held
<1>2. ASSUME NEW u \in Uploads
      PROVE  \/ /\ row[u].detail = ReplacementInProgress
                /\ row'[u] = SetStatusDetail(row[u], ReplacementFailed) /\ ended'[u] = "failed"
             \/ /\ row[u].detail # ReplacementInProgress
                /\ row'[u] = row[u] /\ ended'[u] = ended[u]
  BY <1>2 DEF FailStaleReplacements
<1>3. TypeOK'
  <2>1. row' \in [Uploads -> Row] /\ ended' \in [Uploads -> {"none", "completed", "failed"}]
    BY RowWrites, Names DEF FailStaleReplacements, IInv, TypeOK
  <2>. QED BY <1>1, <2>1 DEF FailStaleReplacements, IInv, TypeOK
<1>4. Holds' /\ Life' /\ OneCopyOfJob' /\ DeadLettersAreFailures'
  BY <1>1 DEF IInv, Holds, Life, OneCopyOfJob, Queued, DeadLettersAreFailures, Open
<1>5. Budget'
  BY <1>1 DEF IInv, Budget, Life, Live
<1>6. ASSUME NEW u \in Uploads PROVE Custody(u)' /\ RowSays(u)' /\ ~InProgress(u)'
  <2>1. row[u] \in Row /\ (row[u].exists => row[u].status \notin StaleStatuses)
    BY <1>1, <1>6 DEF IInv, TypeOK, Reconciled
  <2>2. ~InProgress(u)'
    BY <1>2, <1>6, <2>1, Columns, Names DEF InProgress
  <2>3. Custody(u)'
    BY <1>1, <1>2, <1>6, Names DEF IInv, Custody, RowSays, Life, Open
  <2>4. RowSays(u)'
    BY <1>1, <1>2, <1>6, <2>1, <2>2, Columns, Names DEF IInv, RowSays
  <2>. QED BY <2>2, <2>3, <2>4
<1>7. Reconciled'
  BY <1>1, <1>6 DEF Reconciled
<1>. QED BY <1>3, <1>4, <1>5, <1>6, <1>7 DEF IInv
\* A failed reconciliation, and the start of the workers.
LEMMA StartKeeps ==
  ASSUME IInv, ReconcileError \/ StartQueue
  PROVE  IInv'
<1>1. /\ up \in {"stale", "markers", "start"} /\ up' \in {"start", "running"}
      /\ UNCHANGED <<starts, reconciled, row, queue, pending, dlq, rpc, job, attempt, tries, ended>>
      /\ up' = "start" => wpc' = wpc /\ ~reconciled
      /\ up' = "running" => up = "start" /\ wpc' = [w \in Workers |-> "wait"]
      /\ \A u \in Uploads : ~Live(u) /\ ~Live(u)'
  BY NothingLive DEF ReconcileError, StartQueue, IInv, Life, queueVars, workerVars, Live, Queued, Held
<1>2. TypeOK'
  BY <1>1 DEF IInv, TypeOK, WorkerSteps
<1>3. Holds' /\ Life' /\ OneCopyOfJob' /\ DeadLettersAreFailures'
  BY <1>1 DEF IInv, Holds, Life, OneCopyOfJob, Queued, DeadLettersAreFailures, Open
<1>4. Budget'
  BY <1>1 DEF IInv, Budget, Life, Live
<1>5. ASSUME NEW u \in Uploads PROVE Custody(u)' /\ RowSays(u)'
  BY <1>1, <1>5 DEF IInv, Custody, RowSays, InProgress, Life, Open
<1>6. Reconciled'
  BY <1>1 DEF IInv, Reconciled, InProgress
<1>. QED BY <1>2, <1>3, <1>4, <1>5, <1>6 DEF IInv

\* Stop, exit and crash: workers end, and their jobs go with them.
LEMMA EndKeeps ==
  ASSUME IInv, StopQueue \/ Exit \/ Crash
  PROVE  IInv'
<1>1. /\ up' \in {"stopping", "down"}
      /\ up' = "down" => \A w \in Workers : wpc'[w] = "off"
      /\ UNCHANGED <<starts, reconciled, row, queue, pending, dlq, attempt, tries, ended>>
  BY DEF StopQueue, Exit, Crash, Drop, queueVars, workerVars
<1>2. ASSUME NEW w \in Workers
      PROVE  \/ wpc'[w] = wpc[w] /\ job'[w] = job[w]
             \/ wpc'[w] = "off" /\ job'[w] = None
  BY <1>2 DEF StopQueue, Exit, Crash, Drop, workerVars
<1>3. ASSUME NEW u \in Uploads
      PROVE  /\ rpc'[u] = IF rpc[u] \in Open THEN "cut" ELSE rpc[u]
             /\ Live(u)' => Live(u)
  <2>1. rpc'[u] = IF rpc[u] \in Open THEN "cut" ELSE rpc[u]
    BY <1>3 DEF StopQueue, Exit, Crash, IInv, Life, Open, TypeOK, workerVars
  <2>2. Live(u)' => Live(u)
    BY <1>1, <1>2, <1>3, MemoryQueueAssumption DEF Live, Queued, Held
  <2>. QED BY <2>1, <2>2
<1>4. TypeOK'
  <2>1. wpc' \in [Workers -> WorkerSteps] /\ job' \in [Workers -> Uploads \union {None}]
    BY DEF StopQueue, Exit, Crash, Drop, IInv, TypeOK, WorkerSteps, workerVars
  <2>2. rpc' \in [Uploads -> HandlerSteps]
    BY DEF StopQueue, Exit, Crash, IInv, TypeOK, HandlerSteps
  <2>. QED BY <1>1, <2>1, <2>2 DEF IInv, TypeOK
<1>5. Holds' /\ Life'
  BY <1>1, <1>2, <1>3 DEF IInv, Holds, Life, Open
<1>6. OneCopyOfJob' /\ DeadLettersAreFailures'
  BY <1>1, <1>2, <1>3, MemoryQueueAssumption
  DEF IInv, TypeOK, OneCopyOfJob, Queued, Held, DeadLettersAreFailures
<1>7. Budget'
  BY <1>1, <1>2, <1>3 DEF IInv, Budget, Queued
<1>8. ASSUME NEW u \in Uploads PROVE Custody(u)' /\ RowSays(u)'
  BY <1>1, <1>3, <1>8 DEF IInv, Custody, RowSays, InProgress, Open
<1>9. Reconciled'
  BY <1>1 DEF Reconciled
<1>. QED BY <1>4, <1>5, <1>6, <1>7, <1>8, <1>9 DEF IInv

-----------------------------------------------------------------------------
(* The upload handler.                                                     *)

\* The handler moves, and queue and workers stay.
LEMMA HandlerKeeps ==
  ASSUME IInv, NEW u \in Uploads, AdmitUpload(u) \/ AnnounceQueued(u) \/ RefuseFull(u)
  PROVE  IInv'
<1>1. /\ up = "running" /\ UNCHANGED <<up, starts, reconciled, queue, pending, dlq, wpc, job, attempt, tries>>
      /\ \A v \in Uploads : v # u => rpc'[v] = rpc[v] /\ row'[v] = row[v] /\ ended'[v] = ended[v]
      /\ \A v \in Uploads : Live(v)' <=> Live(v)
  BY DEF AdmitUpload, AnnounceQueued, RefuseFull, HandlerGoto, Failed, IInv, TypeOK,
         processVars, queueVars, workerVars, Live, Queued, Held
<1>2. row[u] \in Row /\ row[u].detail \in Details
  BY DEF IInv, TypeOK, Row
<1>3. TypeOK'
  <2>1. row' \in [Uploads -> Row] /\ ended' \in [Uploads -> {"none", "completed", "failed"}]
    <3>1. CreatedRow \in Row /\ ClaimedRow(row[u]) \in Row /\ UpdateStatus(row[u], "queued") \in Row
          /\ UpdateStatus(row[u], "failed") \in Row /\ SetStatusDetail(row[u], ReplacementFailed) \in Row
      BY <1>2, RowWrites, NewRows, Names
    <3>2. CASE AdmitUpload(u)
      BY <3>1, <3>2 DEF AdmitUpload, IInv, TypeOK
    <3>3. CASE AnnounceQueued(u)
      BY <3>1, <3>3 DEF AnnounceQueued, IInv, TypeOK
    <3>4. CASE RefuseFull(u)
      BY <3>1, <3>4 DEF RefuseFull, Failed, IInv, TypeOK
    <3>. QED BY <3>2, <3>3, <3>4
  <2>2. rpc' \in [Uploads -> HandlerSteps]
    BY DEF AdmitUpload, AnnounceQueued, RefuseFull, HandlerGoto, IInv, TypeOK, HandlerSteps
  <2>. QED BY <1>1, <2>1, <2>2 DEF IInv, TypeOK
<1>4. Holds' /\ Life' /\ OneCopyOfJob'
  BY <1>1 DEF IInv, Holds, Life, OneCopyOfJob, Queued
<1>5. ~Live(u) \/ (rpc[u] = "announce" /\ ended' = ended)
  BY DEF AdmitUpload, AnnounceQueued, RefuseFull, HandlerGoto, IInv, Custody
<1>6. DeadLettersAreFailures' /\ Budget'
  <2>1. ended' = ended \/ (ended'[u] = "failed" /\ ~Live(u) /\ ended' = [ended EXCEPT ![u] = "failed"])
    <3>1. CASE RefuseFull(u)
      BY <1>5, <3>1 DEF RefuseFull, Failed, HandlerGoto, IInv, TypeOK
    <3>2. CASE AdmitUpload(u) \/ AnnounceQueued(u)
      BY <3>2 DEF AdmitUpload, AnnounceQueued
    <3>. QED BY <3>1, <3>2
  <2>2. DeadLettersAreFailures'
    BY <1>1, <2>1 DEF IInv, TypeOK, DeadLettersAreFailures, Queued, Held
  <2>3. Budget'
    <3>1. \A v \in Uploads : Live(v) => ended'[v] = ended[v]
      BY <2>1 DEF IInv, TypeOK
    <3>2. \A w \in Workers : wpc[w] \notin {"off", "wait"} => job[w] \in Uploads /\ Live(job[w])
      BY DEF IInv, TypeOK, Holds, Live, Held
    <3>3. \A v \in Uploads : Queued(v) => ended'[v] = ended[v]
      BY <3>1 DEF Live
    <3>. QED BY <1>1, <3>1, <3>2, <3>3 DEF IInv, Budget, Queued
  <2>. QED BY <2>2, <2>3
<1>7. Custody(u)' /\ RowSays(u)' /\ (InProgress(u)' /\ ended'[u] = "none" => InHandler(u)' \/ Live(u)')
  <2>1. CASE AdmitUpload(u)
    <3>1. /\ rpc[u] = "new" /\ rpc'[u] = "admit" /\ ended' = ended
          /\ row'[u] = IF u \in Replaces THEN ClaimedRow(row[u]) ELSE CreatedRow
      BY <2>1 DEF AdmitUpload, HandlerGoto, IInv, TypeOK, IsReplace
    <3>. QED BY <1>1, <1>2, <3>1, Columns, Names DEF IInv, Custody, RowSays, InHandler
  <2>2. CASE AnnounceQueued(u)
    <3>1. /\ rpc[u] = "announce" /\ rpc'[u] = "accepted" /\ ended' = ended
          /\ row'[u] = IF u \in Replaces THEN row[u] ELSE UpdateStatus(row[u], "queued")
      BY <2>2 DEF AnnounceQueued, HandlerGoto, IInv, TypeOK, IsReplace
    <3>2. "queued" \in Statuses
      BY Names
    <3>. QED BY <1>1, <1>2, <3>1, <3>2, Columns, Names DEF IInv, Custody, RowSays, InProgress
  <2>3. CASE RefuseFull(u)
    <3>1. /\ rpc[u] = "full" /\ rpc'[u] = "refused" /\ ended'[u] = "failed"
          /\ row'[u] = IF u \in Replaces THEN SetStatusDetail(row[u], ReplacementFailed)
                       ELSE UpdateStatus(row[u], "failed")
      BY <2>3 DEF RefuseFull, Failed, HandlerGoto, IInv, TypeOK, IsReplace
    <3>2. ~InProgress(u)'
      BY <1>2, <3>1, Columns, Names DEF IInv, RowSays, InProgress
    <3>. QED BY <1>1, <1>2, <1>5, <3>1, <3>2, Columns, Names DEF IInv, Custody, RowSays
  <2>. QED BY <2>1, <2>2, <2>3
<1>8. ASSUME NEW v \in Uploads, v # u PROVE Custody(v)' /\ RowSays(v)'
  BY <1>1, <1>8 DEF IInv, Custody, RowSays, InProgress
<1>9. Reconciled'
  BY <1>1, <1>7 DEF IInv, Reconciled, InProgress, InHandler
<1>. QED BY <1>3, <1>4, <1>6, <1>7, <1>8, <1>9 DEF IInv
\* enqueue: a job enters the queue once, or the handler turns to the refusal.
LEMMA EnqueueKeeps ==
  ASSUME IInv, NEW u \in Uploads, Enqueue(u)
  PROVE  IInv'
<1>1. /\ up = "running" /\ rpc[u] = "admit" /\ ~Live(u) /\ ended[u] = "none"
      /\ UNCHANGED <<up, starts, reconciled, row, dlq, wpc, job, attempt, tries, ended>>
      /\ \A v \in Uploads : v # u => rpc'[v] = rpc[v]
      /\ \A v : Held(v)' <=> Held(v)
  BY DEF Enqueue, HandlerGoto, IInv, TypeOK, Custody, processVars, queueVars, workerVars, Held
<1>2. CASE rpc'[u] = "full" /\ UNCHANGED <<queue, pending>>
  <2>1. TypeOK'
    BY <1>1, <1>2 DEF Enqueue, HandlerGoto, IInv, TypeOK, HandlerSteps
  <2>2. Holds' /\ Life' /\ OneCopyOfJob' /\ DeadLettersAreFailures' /\ Budget'
    BY <1>1, <1>2 DEF IInv, Holds, Life, OneCopyOfJob, Queued, Held, DeadLettersAreFailures, Budget
  <2>3. ASSUME NEW v \in Uploads PROVE Custody(v)' /\ RowSays(v)'
    BY <1>1, <1>2, <2>3, v = u \/ v # u DEF IInv, Custody, RowSays, InProgress, Live, Queued
  <2>4. Reconciled'
    BY <1>1, <1>2 DEF IInv, Reconciled, InProgress, InHandler, Live, Queued
  <2>. QED BY <2>1, <2>2, <2>3, <2>4 DEF IInv
<1>3. CASE rpc'[u] = "announce" /\ queue' = Append(queue, u) /\ pending' = Append(pending, u)
  <2>1. /\ queue' \in Seq(Uploads) /\ pending' \in Seq(Uploads)
        /\ \A v : Queued(v)' <=> Queued(v) \/ v = u
        /\ (\A i, j \in DOMAIN queue : queue[i] = queue[j] => i = j)'
    BY <1>1, <1>3, QueuedAppend DEF IInv, TypeOK, OneCopyOfJob, Live
  <2>2. TypeOK'
    BY <1>1, <1>3, <2>1 DEF Enqueue, HandlerGoto, IInv, TypeOK, HandlerSteps
  <2>3. Holds' /\ Life' /\ OneCopyOfJob' /\ DeadLettersAreFailures'
    BY <1>1, <2>1 DEF IInv, TypeOK, Holds, Life, OneCopyOfJob, Live, Held, DeadLettersAreFailures
  <2>4. Budget'
    BY <1>1, <2>1 DEF IInv, Budget, Custody
  <2>5. ASSUME NEW v \in Uploads PROVE Custody(v)' /\ RowSays(v)'
    BY <1>1, <1>3, <2>1, <2>5, v = u \/ v # u DEF IInv, Custody, RowSays, InProgress, Live
  <2>6. Reconciled'
    BY <1>1, <1>3, <2>1 DEF IInv, Reconciled, InProgress, InHandler, Live
  <2>. QED BY <2>2, <2>3, <2>4, <2>5, <2>6 DEF IInv
<1>4. \/ rpc'[u] = "full" /\ UNCHANGED <<queue, pending>>
      \/ rpc'[u] = "announce" /\ queue' = Append(queue, u) /\ pending' = Append(pending, u)
  BY DEF Enqueue, HandlerGoto, IInv, TypeOK, queueVars
<1>. QED BY <1>2, <1>3, <1>4

-----------------------------------------------------------------------------
(* The worker tasks.                                                       *)

\* What a worker that holds a job knows of it.
LEMMA WorkerHolds ==
  ASSUME IInv, NEW w \in Workers, wpc[w] \notin {"off", "wait"}
  PROVE  /\ job[w] \in Uploads /\ Live(job[w]) /\ Held(job[w]) /\ ~Queued(job[w])
         /\ \A v \in Workers : v # w => job[v] # job[w]
         /\ \A i \in DOMAIN dlq : dlq[i] # job[w]
         /\ rpc[job[w]] \in {"announce", "accepted", "cut"}
         /\ up \in {"running", "stopping"}
         /\ row[job[w]] \in Row /\ row[job[w]].detail \in Details
<1>1. job[w] # None /\ job[w] \in Uploads
  BY DEF IInv, Holds, TypeOK
<1>2. Held(job[w]) /\ Live(job[w])
  BY DEF Held, Live
<1>. QED BY <1>1, <1>2 DEF IInv, OneCopyOfJob, DeadLettersAreFailures, Custody, Life, TypeOK, Row

\* The queue hands out its first job.
LEMMA TakeKeeps ==
  ASSUME IInv, NEW w \in Workers, TakeJob(w)
  PROVE  IInv'
<1>. DEFINE u == Head(queue)
<1>1. /\ queue # <<>> /\ wpc[w] = "wait" /\ job[w] = None
      /\ wpc' = [wpc EXCEPT ![w] = "handed"] /\ job' = [job EXCEPT ![w] = u]
      /\ UNCHANGED <<up, starts, reconciled, row, pending, dlq, rpc, attempt, tries, ended>>
  BY DEF TakeJob, WorkerGoto, processVars, IInv, Holds
<1>2. /\ queue' \in Seq(Uploads) /\ u \in Uploads /\ Queued(u)
      /\ \A v : Queued(v)' <=> Queued(v) /\ v # u
      /\ (\A i, j \in DOMAIN queue : queue[i] = queue[j] => i = j)'
  BY <1>1, QueuedTail DEF TakeJob, IInv, TypeOK, OneCopyOfJob
<1>. HIDE DEF u
<1>3. \A v \in Uploads : Held(v)' <=> Held(v) \/ v = u
  BY <1>1, MemoryQueueAssumption DEF Held, IInv, TypeOK
<1>4. TypeOK'
  BY <1>1, <1>2 DEF IInv, TypeOK, WorkerSteps
<1>5. Holds' /\ Life'
  BY <1>1, <1>2, MemoryQueueAssumption DEF IInv, TypeOK, Holds, Life
<1>6. OneCopyOfJob'
  <2>1. \A v \in Workers : job[v] # u
    BY <1>2, MemoryQueueAssumption DEF IInv, OneCopyOfJob
  <2>. QED BY <1>1, <1>2, <2>1 DEF IInv, TypeOK, OneCopyOfJob
<1>7. DeadLettersAreFailures'
  BY <1>1, <1>2, <1>3 DEF IInv, TypeOK, DeadLettersAreFailures
<1>8. Budget'
  BY <1>1, <1>2 DEF IInv, TypeOK, Budget
<1>9. \A v \in Uploads : Live(v)' <=> Live(v)
  BY <1>2, <1>3 DEF Live
<1>10. ASSUME NEW v \in Uploads PROVE Custody(v)' /\ RowSays(v)'
  BY <1>1, <1>9, <1>10 DEF IInv, Custody, RowSays, InProgress
<1>11. Reconciled'
  BY <1>1, <1>9 DEF IInv, Reconciled, InProgress, InHandler
<1>. QED BY <1>4, <1>5, <1>6, <1>7, <1>8, <1>10, <1>11 DEF IInv
\* A worker goes on with its job: the row, the counters and the outcome of that
\* job change, and nothing of the other ones.
LEMMA WorkingKeeps ==
  ASSUME IInv, NEW w \in Workers, NEW to \in WorkerSteps \ {"off", "wait"}, TypeOK',
         wpc[w] \notin {"off", "wait", "bury"}, wpc' = [wpc EXCEPT ![w] = to],
         UNCHANGED <<up, starts, reconciled, queue, dlq, rpc, job>>,
         \A v \in Uploads : v # job[w] =>
           row'[v] = row[v] /\ attempt'[v] = attempt[v] /\ tries'[v] = tries[v] /\ ended'[v] = ended[v],
         tries'[job[w]] <= MaxRetries + 1,
         to \in {"handed", "start", "mark", "patch", "sleep"} => tries'[job[w]] = attempt'[job[w]],
         to = "run" => tries'[job[w]] = attempt'[job[w]] + 1,
         to # "bury" => ended'[job[w]] = ended[job[w]],
         to = "bury" => ended'[job[w]] = "failed",
         RowSays(job[w])'
  PROVE  IInv'
<1>. DEFINE u == job[w]
<1>1. /\ u \in Uploads /\ Held(u) /\ ~Queued(u) /\ \A v \in Workers : v # w => job[v] # u
      /\ \A i \in DOMAIN dlq : dlq[i] # u
      /\ rpc[u] \in {"announce", "accepted", "cut"} /\ up \in {"running", "stopping"}
      /\ ended[u] = "none"
  <2>1. wpc[w] \in WorkerSteps
    BY DEF IInv, TypeOK
  <2>. QED BY <2>1, WorkerHolds DEF IInv, Budget, WorkerSteps
<1>2. \A v : Queued(v)' <=> Queued(v)
  BY DEF Queued
<1>3. \A v \in Uploads : (Held(v)' <=> Held(v)) /\ (Live(v)' <=> Live(v))
  BY <1>2 DEF Held, Live
<1>4. Holds' /\ Life' /\ OneCopyOfJob'
  <2>1. Holds'
    BY <1>1, MemoryQueueAssumption DEF IInv, TypeOK, Holds
  <2>2. Life'
    BY <1>1 DEF IInv, Life
  <2>3. OneCopyOfJob'
    BY <1>2 DEF IInv, OneCopyOfJob
  <2>. QED BY <2>1, <2>2, <2>3
<1>5. DeadLettersAreFailures'
  BY <1>1, <1>2, <1>3 DEF IInv, TypeOK, DeadLettersAreFailures
<1>6. Budget'
  <2>1. \A v \in Workers : v # w => wpc'[v] = wpc[v]
    BY DEF IInv, TypeOK
  <2>2. wpc'[w] = to
    BY DEF IInv, TypeOK
  <2>3. \A v \in Workers : v # w /\ wpc[v] \notin {"off", "wait"} =>
          /\ job[v] \in Uploads
          /\ attempt'[job[v]] = attempt[job[v]] /\ tries'[job[v]] = tries[job[v]]
          /\ ended'[job[v]] = ended[job[v]]
    BY <1>1 DEF IInv, TypeOK, Holds
  <2>4. \A v \in Uploads : /\ tries'[v] <= MaxRetries + 1
                           /\ Queued(v)' => tries'[v] = attempt'[v] /\ ended'[v] = "none"
    BY <1>1, <1>2 DEF IInv, Budget
  <2>5. ASSUME NEW v \in Workers
        PROVE  /\ wpc'[v] \in {"handed", "start", "mark", "patch", "sleep"} => tries'[job[v]] = attempt'[job[v]]
               /\ wpc'[v] = "run" => tries'[job[v]] = attempt'[job[v]] + 1
               /\ wpc'[v] \in {"handed", "start", "run", "mark", "patch", "sleep", "fail", "drop"} =>
                    ended'[job[v]] = "none"
               /\ wpc'[v] = "bury" => ended'[job[v]] = "failed"
    <3>1. CASE v = w
      BY <1>1, <2>2, <3>1
    <3>2. CASE v # w
      BY <2>1, <2>3, <2>5, <3>2 DEF IInv, Budget
    <3>. QED BY <3>1, <3>2
  <2>. QED BY <2>4, <2>5 DEF Budget
<1>7. ASSUME NEW v \in Uploads PROVE Custody(v)' /\ RowSays(v)'
  BY <1>1, <1>3, <1>7, v = u \/ v # u DEF IInv, Custody, RowSays, InProgress, Live
<1>8. Reconciled'
  BY <1>1, <1>3 DEF IInv, Reconciled, InProgress, InHandler, Live
<1>. QED BY <1>4, <1>5, <1>6, <1>7, <1>8 DEF IInv

\* The worker resumes with the job it was handed.
LEMMA ResumeKeeps ==
  ASSUME IInv, NEW w \in Workers, ResumeWithJob(w)
  PROVE  IInv'
<1>1. /\ wpc[w] = "handed" /\ wpc' = [wpc EXCEPT ![w] = "start"]
      /\ UNCHANGED <<up, starts, reconciled, row, queue, dlq, rpc, job, attempt, tries, ended>>
  BY DEF ResumeWithJob, WorkerGoto, processVars
<1>2. pending' \in Seq(Uploads)
  BY DEF ResumeWithJob, IInv, TypeOK
<1>3. TypeOK'
  BY <1>1, <1>2 DEF IInv, TypeOK, WorkerSteps
<1>4. /\ job[w] \in Uploads /\ tries[job[w]] = attempt[job[w]] /\ tries[job[w]] <= MaxRetries + 1
      /\ RowSays(job[w])'
  BY <1>1, WorkerHolds DEF IInv, Budget, RowSays, InProgress
<1>5. "start" \in WorkerSteps \ {"off", "wait"}
  BY DEF WorkerSteps
<1>. QED BY <1>1, <1>3, <1>4, <1>5, WorkingKeeps

\* The pipeline begins.
LEMMA PipelineKeeps ==
  ASSUME IInv, NEW w \in Workers, StartPipeline(w)
  PROVE  IInv'
<1>. DEFINE u == job[w]
<1>1. /\ wpc[w] = "start" /\ wpc' = [wpc EXCEPT ![w] = "run"] /\ tries' = [tries EXCEPT ![u] = @ + 1]
      /\ UNCHANGED <<up, starts, reconciled, queue, pending, dlq, rpc, job, attempt, ended>>
      /\ row' = IF u \in Replaces THEN row ELSE [row EXCEPT ![u] = UpdateStatus(@, "extracting")]
  BY DEF StartPipeline, WorkerGoto, IsReplace, processVars, queueVars
<1>2. /\ u \in Uploads /\ row[u] \in Row /\ row[u].detail \in Details /\ rpc[u] # "new"
      /\ tries[u] = attempt[u] /\ ended[u] = "none" /\ attempt[u] \in 0 .. MaxRetries /\ tries[u] \in Nat
  BY <1>1, WorkerHolds DEF IInv, Budget, TypeOK
<1>3. UpdateStatus(row[u], "extracting") \in Row /\ UpdateStatus(row[u], "extracting").detail = row[u].detail
  BY <1>2, RowWrites, Columns, Names
<1>4. TypeOK'
  BY <1>1, <1>2, <1>3 DEF IInv, TypeOK, WorkerSteps
<1>5. RowSays(u)'
  BY <1>1, <1>2, <1>3 DEF IInv, TypeOK, RowSays
<1>6. tries'[u] = tries[u] + 1 /\ tries'[u] <= MaxRetries + 1
  BY <1>1, <1>2, MemoryQueueAssumption DEF IInv, TypeOK
<1>7. "run" \in WorkerSteps \ {"off", "wait"}
  BY DEF WorkerSteps
<1>8. \A v \in Uploads : v # u => row'[v] = row[v] /\ tries'[v] = tries[v]
  BY <1>1 DEF IInv, TypeOK
<1>. QED BY <1>1, <1>2, <1>4, <1>5, <1>6, <1>7, <1>8, WorkingKeeps

\* The pipeline raises: terminal, or an attempt is counted.
LEMMA FailureKeeps ==
  ASSUME IInv, NEW w \in Workers, NEW permanent \in BOOLEAN, FailPipeline(w, permanent)
  PROVE  IInv'
<1>. DEFINE u == job[w]
<1>1. /\ wpc[w] = "run"
      /\ UNCHANGED <<up, starts, reconciled, row, queue, pending, dlq, rpc, job, tries, ended>>
  BY DEF FailPipeline, processVars, queueVars
<1>2. /\ u \in Uploads /\ rpc[u] # "new"
      /\ tries[u] = attempt[u] + 1 /\ tries[u] <= MaxRetries + 1
      /\ ended[u] = "none" /\ attempt[u] \in 0 .. MaxRetries
      /\ RowSays(u)'
  BY <1>1, WorkerHolds DEF IInv, Budget, TypeOK, RowSays, InProgress
<1>3. "mark" \in WorkerSteps \ {"off", "wait"} /\ "fail" \in WorkerSteps \ {"off", "wait"}
  BY DEF WorkerSteps
<1>4. CASE wpc' = [wpc EXCEPT ![w] = "fail"] /\ UNCHANGED attempt
  <2>1. TypeOK'
    BY <1>1, <1>3, <1>4 DEF IInv, TypeOK
  <2>. QED BY <1>1, <1>2, <1>3, <1>4, <2>1, WorkingKeeps
<1>5. CASE /\ attempt[u] < MaxRetries /\ wpc' = [wpc EXCEPT ![w] = "mark"]
           /\ attempt' = [attempt EXCEPT ![u] = @ + 1]
  <2>1. attempt'[u] = tries[u] /\ attempt'[u] \in 0 .. MaxRetries
    BY <1>2, <1>5, MemoryQueueAssumption DEF IInv, TypeOK
  <2>2. TypeOK'
    BY <1>1, <1>2, <1>3, <1>5, <2>1 DEF IInv, TypeOK
  <2>3. \A v \in Uploads : v # u => attempt'[v] = attempt[v]
    BY <1>5 DEF IInv, TypeOK
  <2>. QED BY <1>1, <1>2, <1>3, <1>5, <2>1, <2>2, <2>3, WorkingKeeps
<1>6. attempt[u] \in Nat /\ MaxRetries \in Nat
  BY <1>2, MemoryQueueAssumption
<1>. QED BY <1>4, <1>5, <1>6 DEF FailPipeline, IsTerminal
\* The two records of a retry.
LEMMA RetryingKeeps ==
  ASSUME IInv, NEW w \in Workers, MarkRetrying(w)
  PROVE  IInv'
<1>. DEFINE u == job[w]
<1>1. PICK to \in {"patch", "sleep"} :
        /\ wpc[w] \in {"mark", "patch"} /\ wpc' = [wpc EXCEPT ![w] = to]
        /\ UNCHANGED <<up, starts, reconciled, queue, pending, dlq, rpc, job, attempt, tries, ended>>
        /\ row' = [row EXCEPT ![u] = IF u \in Replaces
                                     THEN SetStatusDetail(row[u], ReplacementInProgress)
                                     ELSE UpdateStatus(row[u], "retrying")]
  BY DEF MarkRetrying, WorkerGoto, IsReplace, processVars, queueVars
<1>2. /\ u \in Uploads /\ row[u] \in Row /\ row[u].detail \in Details /\ rpc[u] # "new"
      /\ tries[u] = attempt[u] /\ tries[u] <= MaxRetries + 1 /\ ended[u] = "none"
  BY <1>1, WorkerHolds DEF IInv, Budget
<1>3. /\ UpdateStatus(row[u], "retrying") \in Row
      /\ UpdateStatus(row[u], "retrying").detail = row[u].detail
      /\ SetStatusDetail(row[u], ReplacementInProgress) \in Row
      /\ SetStatusDetail(row[u], ReplacementInProgress).exists = row[u].exists
      /\ SetStatusDetail(row[u], ReplacementInProgress).status = row[u].status
  BY <1>2, RowWrites, Columns, Names
<1>4. to \in WorkerSteps \ {"off", "wait"}
  BY DEF WorkerSteps
<1>5. TypeOK'
  BY <1>1, <1>2, <1>3, <1>4 DEF IInv, TypeOK
<1>6. RowSays(u)'
  BY <1>1, <1>2, <1>3 DEF IInv, TypeOK, RowSays
<1>7. \A v \in Uploads : v # u => row'[v] = row[v]
  BY <1>1 DEF IInv, TypeOK
<1>. QED BY <1>1, <1>2, <1>4, <1>5, <1>6, <1>7, WorkingKeeps

\* What a recorded failure leaves in the row.
LEMMA FailedRow ==
  ASSUME IInv, NEW u \in Uploads, Failed(u), rpc'[u] = rpc[u]
  PROVE  /\ row' \in [Uploads -> Row] /\ ended' = [ended EXCEPT ![u] = "failed"]
         /\ ended' \in [Uploads -> {"none", "completed", "failed"}] /\ ended'[u] = "failed"
         /\ \A v \in Uploads : v # u => row'[v] = row[v] /\ ended'[v] = ended[v]
         /\ rpc[u] # "new" => RowSays(u)'
<1>1. row[u] \in Row /\ row[u].detail \in Details
  BY DEF IInv, TypeOK, Row
<1>2. /\ UpdateStatus(row[u], "failed") \in Row /\ SetStatusDetail(row[u], ReplacementFailed) \in Row
  BY <1>1, RowWrites, Names
<1>3. row' = [row EXCEPT ![u] = IF u \in Replaces THEN SetStatusDetail(row[u], ReplacementFailed)
                                 ELSE UpdateStatus(row[u], "failed")]
  BY DEF Failed, IsReplace
<1>4. ended' = [ended EXCEPT ![u] = "failed"]
  BY DEF Failed
<1>5. row' \in [Uploads -> Row] /\ ended' \in [Uploads -> {"none", "completed", "failed"}]
  BY <1>2, <1>3, <1>4 DEF IInv, TypeOK
<1>6. row'[u] = IF u \in Replaces THEN SetStatusDetail(row[u], ReplacementFailed)
                ELSE UpdateStatus(row[u], "failed")
  BY <1>3 DEF IInv, TypeOK
<1>7. ~InProgress(u)' /\ (u \notin Replaces => row'[u].detail = NoDetail)
      /\ (u \in Replaces => row'[u].exists /\ row'[u].status = "completed")
  BY <1>1, <1>6, Columns, Names DEF IInv, RowSays, InProgress
<1>8. rpc[u] # "new" => RowSays(u)'
  BY <1>7 DEF RowSays
<1>. QED BY <1>3, <1>4, <1>5, <1>8 DEF IInv, TypeOK

\* The outcome is recorded, by the pipeline or for a dropped retry.
LEMMA RecordKeeps ==
  ASSUME IInv, NEW w \in Workers, RecordFailure(w)
  PROVE  IInv'
<1>1. /\ wpc[w] \in {"fail", "drop"} /\ wpc' = [wpc EXCEPT ![w] = "bury"] /\ Failed(job[w])
      /\ UNCHANGED <<up, starts, reconciled, queue, pending, dlq, rpc, job, attempt, tries>>
  BY DEF RecordFailure, WorkerGoto, processVars, queueVars
<1>2. job[w] \in Uploads /\ rpc[job[w]] # "new" /\ tries[job[w]] <= MaxRetries + 1
  BY <1>1, WorkerHolds DEF IInv, Budget
<1>3. "bury" \in WorkerSteps \ {"off", "wait"}
  BY DEF WorkerSteps
<1>4. TypeOK'
  BY <1>1, <1>2, <1>3, FailedRow DEF IInv, TypeOK
<1>. QED BY <1>1, <1>2, <1>3, <1>4, FailedRow, WorkingKeeps

\* A worker lets its job go: it enters the queue again, or its outcome is there.
LEMMA ReleaseKeeps ==
  ASSUME IInv, NEW w \in Workers, NEW u \in Uploads, job[w] = u, wpc[w] \notin {"off", "wait"}, Released(w), TypeOK',
         UNCHANGED <<up, starts, reconciled, rpc, attempt, tries>>,
         \A v \in Uploads : v # u => row'[v] = row[v] /\ ended'[v] = ended[v],
         RowSays(u)',
         \A v \in Uploads : (Queued(v)' <=> Queued(v) \/ (v = u /\ Queued(v)')),
         (\A i, j \in DOMAIN queue : queue[i] = queue[j] => i = j)',
         Queued(u)' => tries[u] = attempt[u] /\ ended'[u] = "none",
         ~Queued(u)' => ended'[u] # "none",
         DeadLettersAreFailures'
  PROVE  IInv'
<1>1. /\ u \in Uploads /\ u # None /\ Live(u) /\ ~Queued(u) /\ \A v \in Workers : v # w => job[v] # u
      /\ rpc[u] \in {"announce", "accepted", "cut"} /\ up \in {"running", "stopping"}
  BY WorkerHolds, MemoryQueueAssumption
<1>2. /\ wpc' = [wpc EXCEPT ![w] = AfterJob(w)] /\ job' = [job EXCEPT ![w] = None]
      /\ AfterJob(w) \in {"wait", "off"}
  BY DEF Released, AfterJob
<1>3. /\ \A v \in Workers : v # w => job'[v] = job[v] /\ wpc'[v] = wpc[v]
      /\ job'[w] = None /\ wpc'[w] \in {"wait", "off"}
  BY <1>2 DEF IInv, TypeOK
<1>4. \A v \in Uploads : v # u => (Queued(v)' <=> Queued(v)) /\ (Held(v)' <=> Held(v)) /\ (Live(v)' <=> Live(v))
  BY <1>1, <1>3, MemoryQueueAssumption DEF Held, Live
<1>5. Live(u)' <=> Queued(u)'
  BY <1>1, <1>3 DEF Live, Held
<1>6. Holds' /\ Life'
  BY <1>1, <1>3 DEF IInv, Holds, Life
<1>7. OneCopyOfJob'
  <2>1. ASSUME NEW v \in Workers, job'[v] # None
        PROVE  (~Queued(job[v]))' /\ \A x \in Workers : job'[x] = job'[v] => x = v
    <3>1. v # w /\ job'[v] = job[v] /\ job[v] \in Uploads /\ job[v] # u
      BY <1>1, <1>3, <2>1 DEF IInv, TypeOK
    <3>2. ~Queued(job[v]) /\ \A x \in Workers : job[x] = job[v] => x = v
      BY <2>1, <3>1 DEF IInv, OneCopyOfJob
    <3>3. PICK y \in Uploads : y = job[v] /\ y # u
      BY <3>1
    <3>4. ~Queued(y)'
      BY <1>4, <3>2, <3>3
    <3>5. (~Queued(job[v]))'
      BY <3>1, <3>3, <3>4 DEF Queued
    <3>6. ASSUME NEW x \in Workers, job'[x] = job'[v] PROVE x = v
      BY <1>3, <2>1, <3>1, <3>2, <3>6
    <3>. QED BY <3>5, <3>6
  <2>2. (\A i, j \in DOMAIN queue : queue[i] = queue[j] => i = j)'
    OBVIOUS
  <2>. QED BY <2>1, <2>2 DEF OneCopyOfJob
<1>8. Budget'
  <2>1. \A v \in Uploads : Queued(v)' => tries[v] = attempt[v] /\ ended'[v] = "none"
    BY <1>1, <1>4 DEF IInv, Budget
  <2>2. \A v \in Workers : v # w /\ wpc[v] \notin {"off", "wait"} => ended'[job[v]] = ended[job[v]]
    BY <1>1, WorkerHolds
  <2>. QED BY <1>3, <2>1, <2>2 DEF IInv, Budget
<1>9. ASSUME NEW v \in Uploads PROVE Custody(v)' /\ RowSays(v)'
  <2>1. CASE v = u
    BY <1>1, <1>5, <2>1 DEF IInv, Custody
  <2>2. CASE v # u
    BY <1>1, <1>4, <1>9, <2>2 DEF IInv, Custody, RowSays, InProgress
  <2>. QED BY <2>1, <2>2
<1>10. Reconciled'
  <2>1. ASSUME up = "running", reconciled, NEW v \in Uploads, InProgress(v)', ended'[v] = "none"
        PROVE  InHandler(v)' \/ Live(v)'
    BY <1>1, <1>4, <1>5, <2>1 DEF IInv, Reconciled, InProgress, InHandler
  <2>. QED BY <1>1, <2>1 DEF Reconciled
<1>. QED BY <1>6, <1>7, <1>8, <1>9, <1>10 DEF IInv
\* What a worker leaves when it lets its job go.
LEMMA ReleasedTypes ==
  ASSUME TypeOK, NEW w \in Workers, Released(w)
  PROVE  wpc' \in [Workers -> WorkerSteps] /\ job' \in [Workers -> Uploads \union {None}]
BY DEF Released, AfterJob, TypeOK, WorkerSteps

\* The pipeline completes the document.
LEMMA CompleteKeeps ==
  ASSUME IInv, NEW w \in Workers, CompletePipeline(w)
  PROVE  IInv'
<1>1. PICK u \in Uploads : u = job[w]
  BY WorkerHolds DEF CompletePipeline
<1>2. /\ wpc[w] = "run" /\ Released(w) /\ ended' = [ended EXCEPT ![u] = "completed"]
      /\ UNCHANGED <<up, starts, reconciled, queue, pending, dlq, rpc, attempt, tries>>
      /\ row' = [row EXCEPT ![u] = IF u \in Replaces THEN ReplacedRow(row[u])
                                   ELSE UpdateStatus(row[u], "completed")]
  BY <1>1 DEF CompletePipeline, IsReplace, processVars, queueVars
<1>3. /\ row[u] \in Row /\ row[u].detail \in Details /\ rpc[u] # "new" /\ ~Queued(u)
      /\ \A i \in DOMAIN dlq : dlq[i] # u
  BY <1>1, <1>2, WorkerHolds
<1>4. ReplacedRow(row[u]) \in Row /\ UpdateStatus(row[u], "completed") \in Row
  BY <1>3, RowWrites, Names
<1>5. TypeOK'
  BY <1>2, <1>4, ReleasedTypes DEF IInv, TypeOK
<1>6. RowSays(u)'
  <2>1. row'[u] = IF u \in Replaces THEN ReplacedRow(row[u]) ELSE UpdateStatus(row[u], "completed")
    BY <1>2 DEF IInv, TypeOK
  <2>2. ~InProgress(u)' /\ (u \notin Replaces => row'[u].detail = NoDetail)
        /\ (u \in Replaces => row'[u].exists /\ row'[u].status = "completed")
    BY <1>3, <2>1, Columns, Names DEF IInv, RowSays, InProgress
  <2>. QED BY <1>2, <1>3, <2>2 DEF RowSays
<1>7. \A v \in Uploads : v # u => row'[v] = row[v] /\ ended'[v] = ended[v]
  BY <1>2 DEF IInv, TypeOK
<1>8. \A v : Queued(v)' <=> Queued(v)
  BY <1>2 DEF Queued
<1>9. ended'[u] = "completed"
  BY <1>2 DEF IInv, TypeOK
<1>10. DeadLettersAreFailures'
  <2>1. \A v \in Uploads : v # u /\ ~Held(v) => ~Held(v)'
    BY <1>2, MemoryQueueAssumption DEF Held, Released, IInv, TypeOK
  <2>2. \A i \in DOMAIN dlq : dlq[i] \in Uploads
    BY DEF IInv, TypeOK
  <2>. QED BY <1>2, <1>3, <1>7, <1>8, <2>1, <2>2 DEF IInv, DeadLettersAreFailures
<1>11. (\A i, j \in DOMAIN queue : queue[i] = queue[j] => i = j)'
  BY <1>2 DEF IInv, OneCopyOfJob
<1>12. ~Queued(u)'
  BY <1>3, <1>8
<1>. QED BY <1>1, <1>2, <1>5, <1>6, <1>7, <1>8, <1>9, <1>10, <1>11, <1>12, ReleaseKeeps

\* The retry enters the queue again after its back-off, or is to be dropped.
LEMMA RequeueKeeps ==
  ASSUME IInv, NEW w \in Workers, Requeue(w)
  PROVE  IInv'
<1>1. PICK u \in Uploads : u = job[w]
  BY WorkerHolds DEF Requeue
<1>2. /\ wpc[w] = "sleep"
      /\ UNCHANGED <<up, starts, reconciled, row, dlq, rpc, attempt, tries, ended>>
  BY DEF Requeue, processVars
<1>3. /\ rpc[u] # "new" /\ ~Queued(u) /\ \A i \in DOMAIN dlq : dlq[i] # u
      /\ tries[u] = attempt[u] /\ ended[u] = "none" /\ tries[u] <= MaxRetries + 1
      /\ RowSays(u)'
  BY <1>1, <1>2, WorkerHolds DEF IInv, Budget, RowSays, InProgress
<1>4. CASE wpc' = [wpc EXCEPT ![w] = "drop"] /\ UNCHANGED <<queue, pending, job>>
  <2>1. "drop" \in WorkerSteps \ {"off", "wait"}
    BY DEF WorkerSteps
  <2>2. TypeOK'
    BY <1>2, <1>4, <2>1 DEF IInv, TypeOK
  <2>3. RowSays(job[w])'
    BY <1>1, <1>3, <1>4 DEF RowSays, InProgress
  <2>. QED BY <1>1, <1>2, <1>3, <1>4, <2>1, <2>2, <2>3, WorkingKeeps
<1>5. CASE queue' = Append(queue, u) /\ pending' = Append(pending, u) /\ Released(w)
  <2>1. /\ queue' \in Seq(Uploads) /\ pending' \in Seq(Uploads)
        /\ \A v : Queued(v)' <=> Queued(v) \/ v = u
        /\ (\A i, j \in DOMAIN queue : queue[i] = queue[j] => i = j)'
    <3>1. /\ queue \in Seq(Uploads) /\ pending \in Seq(Uploads)
          /\ \A i, j \in DOMAIN queue : queue[i] = queue[j] => i = j
      BY DEF IInv, TypeOK, OneCopyOfJob
    <3>2. pending' \in Seq(Uploads)
      BY <1>5, <3>1
    <3>. QED BY <1>3, <1>5, <3>1, <3>2, QueuedAppend
  <2>2. TypeOK'
    BY <1>2, <2>1, <1>5, ReleasedTypes DEF IInv, TypeOK
  <2>3. DeadLettersAreFailures'
    <3>1. \A v \in Uploads : v # u /\ ~Held(v) => ~Held(v)'
      BY <1>5, MemoryQueueAssumption DEF Held, Released, IInv, TypeOK
    <3>2. \A i \in DOMAIN dlq : dlq[i] \in Uploads
      BY DEF IInv, TypeOK
    <3>. QED BY <1>2, <1>3, <2>1, <3>1, <3>2 DEF IInv, DeadLettersAreFailures
  <2>. QED BY <1>1, <1>2, <1>3, <1>5, <2>1, <2>2, <2>3, ReleaseKeeps
<1>. QED BY <1>1, <1>4, <1>5 DEF Requeue

\* The job is buried, its failure recorded before.
LEMMA BuryKeeps ==
  ASSUME IInv, NEW w \in Workers, BuryJob(w)
  PROVE  IInv'
<1>1. PICK u \in Uploads : u = job[w]
  BY WorkerHolds DEF BuryJob
<1>2. /\ wpc[w] = "bury" /\ Released(w) /\ AppendDlq(u)
      /\ UNCHANGED <<up, starts, reconciled, row, queue, pending, rpc, attempt, tries, ended>>
  BY <1>1 DEF BuryJob, processVars
<1>3. /\ ~Queued(u) /\ \A i \in DOMAIN dlq : dlq[i] # u
      /\ ended[u] = "failed" /\ RowSays(u)'
      /\ \A v \in Workers : v # w => job[v] # u
  BY <1>1, <1>2, WorkerHolds DEF IInv, Budget, RowSays, InProgress
<1>4. /\ dlq' \in Seq(Uploads)
      /\ \A i \in DOMAIN dlq' : dlq'[i] = u \/ \E j \in DOMAIN dlq : dlq'[i] = dlq[j]
      /\ (\A i, j \in DOMAIN dlq : dlq[j] = dlq[i] => i = j)'
  BY <1>2, <1>3, DlqAppend DEF IInv, TypeOK, DeadLettersAreFailures
<1>5. TypeOK'
  BY <1>2, <1>4, ReleasedTypes DEF IInv, TypeOK
<1>6. \A v : Queued(v)' <=> Queued(v)
  BY <1>2 DEF Queued
<1>7. \A v \in Uploads : ~Held(v) \/ v = u => ~Held(v)'
  BY <1>1, <1>2, <1>3, MemoryQueueAssumption DEF Held, Released, IInv, TypeOK
<1>8. DeadLettersAreFailures'
  <2>1. ASSUME NEW i \in DOMAIN dlq'
        PROVE  \E v \in Uploads : v = dlq'[i] /\ ended[v] = "failed" /\ ~Queued(v)' /\ ~Held(v)'
    <3>1. PICK v \in Uploads : v = dlq'[i]
      BY <1>4, <2>1
    <3>2. v = u \/ (ended[v] = "failed" /\ ~Queued(v) /\ ~Held(v))
      BY <1>4, <2>1, <3>1 DEF IInv, DeadLettersAreFailures
    <3>. QED BY <1>3, <1>6, <1>7, <3>1, <3>2
  <2>2. ASSUME NEW i \in DOMAIN dlq'
        PROVE  ended'[dlq'[i]] = "failed" /\ (~Queued(dlq[i]))' /\ (~Held(dlq[i]))'
    BY <1>2, <2>1, <2>2 DEF Queued, Held
  <2>. QED BY <1>4, <2>2 DEF DeadLettersAreFailures
<1>9. (\A i, j \in DOMAIN queue : queue[i] = queue[j] => i = j)'
  BY <1>2 DEF IInv, OneCopyOfJob
<1>. QED BY <1>1, <1>2, <1>3, <1>5, <1>6, <1>8, <1>9, ReleaseKeeps
-----------------------------------------------------------------------------
(* The mirror of the queue.                                                *)

Handed == {w \in Workers : wpc[w] = "handed"}

\* The mirror, by position.
Mirror(handed, q, p) ==
  /\ Len(p) = handed + Len(q)
  /\ \A i \in 1 .. Len(q) : p[handed + i] = q[i]

MirrorInv ==
  /\ up \in {"running", "stopping"} => Mirror(Cardinality(Handed), queue, pending)
  /\ up \in {"stale", "markers", "start"} => pending = <<>>

\* The number of workers that were handed a job.
LEMMA HandedCount == IsFiniteSet(Handed) /\ Cardinality(Handed) \in Nat
BY MemoryQueueAssumption, FS_Subset, FS_CardinalityType DEF Handed

\* A job enters both.
LEMMA MirrorAppend ==
  ASSUME NEW h \in Nat, NEW q \in Seq(Uploads), NEW p \in Seq(Uploads), NEW u \in Uploads, Mirror(h, q, p)
  PROVE  Mirror(h, Append(q, u), Append(p, u))
<1>1. Len(p) \in Nat /\ Len(q) \in Nat /\ Len(p) = h + Len(q)
  BY DEF Mirror
<1>2. /\ Len(Append(q, u)) = Len(q) + 1 /\ Len(Append(p, u)) = Len(p) + 1
      /\ \A i \in 1 .. Len(q) : Append(q, u)[i] = q[i]
      /\ \A i \in 1 .. Len(p) : Append(p, u)[i] = p[i]
      /\ Append(q, u)[Len(q) + 1] = u /\ Append(p, u)[Len(p) + 1] = u
  OBVIOUS
<1>3. ASSUME NEW i \in 1 .. Len(q) + 1 PROVE Append(p, u)[h + i] = Append(q, u)[i]
  <2>1. CASE i \in 1 .. Len(q)
    <3>1. h + i \in 1 .. Len(p)
      BY <1>1, <2>1
    <3>. QED BY <1>2, <2>1, <3>1 DEF Mirror
  <2>2. CASE i = Len(q) + 1
    <3>1. h + i = Len(p) + 1
      BY <1>1, <2>2
    <3>. QED BY <1>2, <2>2, <3>1
  <2>. QED BY <1>1, <2>1, <2>2
<1>4. Len(Append(p, u)) = h + Len(Append(q, u))
  BY <1>1, <1>2
<1>5. \A i \in 1 .. Len(Append(q, u)) : Append(p, u)[h + i] = Append(q, u)[i]
  <2>1. 1 .. Len(Append(q, u)) = 1 .. Len(q) + 1
    BY <1>2
  <2>. QED BY <1>3, <2>1
<1>. QED BY <1>4, <1>5 DEF Mirror

\* A job is handed to a worker: its entry is now one of those before the queue.
LEMMA MirrorHand ==
  ASSUME NEW h \in Nat, NEW q \in Seq(Uploads), NEW p \in Seq(Uploads), q # <<>>, Mirror(h, q, p)
  PROVE  Mirror(h + 1, Tail(q), p)
<1>1. /\ Len(q) \in Nat \ {0} /\ Len(Tail(q)) = Len(q) - 1
      /\ \A i \in 1 .. Len(q) - 1 : Tail(q)[i] = q[i + 1]
  OBVIOUS
<1>2. ASSUME NEW i \in 1 .. Len(q) - 1 PROVE p[(h + 1) + i] = q[i + 1]
  <2>1. i + 1 \in 1 .. Len(q) /\ h + (i + 1) = (h + 1) + i
    BY <1>1
  <2>. QED BY <2>1 DEF Mirror
<1>. QED BY <1>1, <1>2 DEF Mirror

\* A worker resumes: the mirror loses its head.
LEMMA MirrorResume ==
  ASSUME NEW h \in Nat, h > 0, NEW q \in Seq(Uploads), NEW p \in Seq(Uploads), Mirror(h, q, p)
  PROVE  p # <<>> /\ Mirror(h - 1, q, Tail(p))
<1>1. Len(p) \in Nat /\ Len(q) \in Nat /\ Len(p) = h + Len(q) /\ p # <<>>
  BY DEF Mirror
<1>2. Len(Tail(p)) = Len(p) - 1 /\ \A i \in 1 .. Len(p) - 1 : Tail(p)[i] = p[i + 1]
  BY <1>1
<1>3. ASSUME NEW i \in 1 .. Len(q) PROVE Tail(p)[(h - 1) + i] = q[i]
  <2>1. (h - 1) + i \in 1 .. Len(p) - 1 /\ ((h - 1) + i) + 1 = h + i
    BY <1>1
  <2>. QED BY <1>2, <2>1 DEF Mirror
<1>. QED BY <1>1, <1>2, <1>3 DEF Mirror

\* The property speaks of the same thing.
LEMMA MirrorIsFollowed ==
  ASSUME TypeOK, MirrorInv
  PROVE  MirrorFollowsQueue
<1>. DEFINE h == Cardinality(Handed)
<1>1. h \in Nat
  BY HandedCount
<1>2. ASSUME up \in {"running", "stopping"}
      PROVE  Len(pending) = h + Len(queue) /\ SubSeq(pending, h + 1, Len(pending)) = queue
  <2>1. Mirror(h, queue, pending)
    BY <1>2 DEF MirrorInv
  <2>2. /\ queue \in Seq(Uploads) /\ pending \in Seq(Uploads)
        /\ Len(queue) \in Nat /\ Len(pending) = h + Len(queue)
    BY <2>1 DEF TypeOK, Mirror
  <2>. DEFINE s == SubSeq(pending, h + 1, Len(pending))
  <2>3. /\ s \in Seq(Uploads) /\ Len(s) = Len(queue)
        /\ \A i \in 1 .. Len(queue) : s[i] = pending[h + i]
    <3>. HIDE DEF h
    <3>. QED BY <1>1, <2>2
  <2>4. \A i \in 1 .. Len(queue) : s[i] = queue[i]
    BY <2>1, <2>3 DEF Mirror
  <2>5. s = queue
    <3>. HIDE DEF s
    <3>. QED BY <2>2, <2>3, <2>4
  <2>. QED BY <2>2, <2>5
<1>. QED BY <1>2 DEF MirrorFollowsQueue, Handed

\* A worker that waits or works has a process.
LEMMA NotIdle ==
  ASSUME IInv, NEW w \in Workers, wpc[w] # "off"
  PROVE  up \in {"running", "stopping"}
BY DEF IInv, Life, TypeOK

\* Every step keeps the mirror, whichever worker resumes first.
LEMMA MirrorStep ==
  ASSUME IInv, MirrorInv, [Next]_vars
  PROVE  MirrorInv'
<1>. DEFINE h == Cardinality(Handed)
<1>1. h \in Nat /\ queue \in Seq(Uploads) /\ pending \in Seq(Uploads)
  BY HandedCount DEF IInv, TypeOK
<1>2. ASSUME UNCHANGED <<up, queue, pending>>, Handed' = Handed PROVE MirrorInv'
  BY <1>2 DEF MirrorInv, Mirror
<1>3. CASE UNCHANGED vars
  BY <1>2, <1>3 DEF vars, processVars, queueVars, workerVars, Handed
<1>4. CASE Process
  <2>1. CASE Boot
    BY <2>1 DEF Boot, MirrorInv
  <2>2. CASE FailStaleDocuments \/ FailStaleReplacements \/ ReconcileError
    BY <2>2 DEF FailStaleDocuments, FailStaleReplacements, ReconcileError, MirrorInv, queueVars
  <2>3. CASE StartQueue
    <3>1. /\ up' = "running" /\ queue' = <<>> /\ pending' = <<>>
          /\ wpc' = [w \in Workers |-> "wait"]
      BY <2>3 DEF StartQueue, IInv, Life, MirrorInv, queueVars
    <3>2. Handed' = {}
      BY <3>1 DEF Handed
    <3>3. Cardinality(Handed)' = 0
      BY <3>2, FS_EmptySet
    <3>. QED BY <3>1, <3>3 DEF MirrorInv, Mirror
  <2>4. CASE StopQueue
    <3>1. Handed' = Handed
      BY <2>4 DEF StopQueue, Drop, Handed, IInv, TypeOK
    <3>. QED BY <2>4, <3>1 DEF StopQueue, MirrorInv, Mirror, queueVars
  <2>5. CASE Exit \/ Crash
    BY <2>5 DEF Exit, Crash, MirrorInv
  <2>. QED BY <1>4, <2>1, <2>2, <2>3, <2>4, <2>5 DEF Process
<1>5. ASSUME NEW u \in Uploads, Handler(u) PROVE MirrorInv'
  <2>1. UNCHANGED <<up, wpc>> /\ up = "running"
    BY <1>5 DEF Handler, AdmitUpload, Enqueue, AnnounceQueued, RefuseFull, HandlerGoto, processVars, workerVars
  <2>2. Handed' = Handed
    BY <2>1 DEF Handed
  <2>3. \/ UNCHANGED <<queue, pending>>
        \/ queue' = Append(queue, u) /\ pending' = Append(pending, u)
    BY <1>5 DEF Handler, AdmitUpload, Enqueue, AnnounceQueued, RefuseFull, queueVars
  <2>. QED BY <1>1, <1>2, <2>1, <2>2, <2>3, MirrorAppend DEF MirrorInv
<1>6. ASSUME NEW w \in Workers, Worker(w) PROVE MirrorInv'
  <2>1. UNCHANGED up
    BY <1>6 DEF Worker, TakeJob, ResumeWithJob, StartPipeline, CompletePipeline, FailPipeline,
       MarkRetrying, Requeue, RecordFailure, BuryJob, processVars
  <2>2. CASE TakeJob(w)
    <3>1. /\ wpc[w] = "wait" /\ wpc' = [wpc EXCEPT ![w] = "handed"]
          /\ queue # <<>> /\ queue' = Tail(queue) /\ pending' = pending
      BY <2>2 DEF TakeJob, WorkerGoto
    <3>2. Handed' = Handed \union {w} /\ w \notin Handed
      BY <3>1 DEF Handed, IInv, TypeOK
    <3>3. Cardinality(Handed)' = h + 1
      BY <3>2, HandedCount, FS_AddElement
    <3>. QED BY <1>1, <2>1, <3>1, <3>3, MirrorHand, NotIdle DEF MirrorInv
  <2>3. CASE ResumeWithJob(w)
    <3>1. /\ wpc[w] = "handed" /\ wpc' = [wpc EXCEPT ![w] = "start"] /\ queue' = queue
          /\ pending' = IF pending = <<>> THEN pending ELSE Tail(pending)
          /\ up \in {"running", "stopping"}
      BY <2>3, NotIdle DEF ResumeWithJob, WorkerGoto
    <3>2. Handed' = Handed \ {w} /\ w \in Handed
      BY <3>1 DEF Handed, IInv, TypeOK
    <3>3. Cardinality(Handed)' = h - 1 /\ h > 0
      BY <3>2, HandedCount, FS_RemoveElement, FS_EmptySet
    <3>4. pending # <<>> /\ Mirror(h - 1, queue, Tail(pending))
      BY <1>1, <3>1, <3>3, MirrorResume DEF MirrorInv
    <3>. QED BY <2>1, <3>1, <3>3, <3>4 DEF MirrorInv
  <2>4. CASE \/ StartPipeline(w) \/ CompletePipeline(w) \/ MarkRetrying(w) \/ RecordFailure(w)
             \/ BuryJob(w) \/ \E permanent \in BOOLEAN : FailPipeline(w, permanent)
    <3>1. UNCHANGED <<queue, pending>>
      BY <2>4 DEF StartPipeline, CompletePipeline, MarkRetrying, RecordFailure, BuryJob,
         FailPipeline, queueVars
    <3>2. PICK to \in WorkerSteps \ {"handed"} : wpc' = [wpc EXCEPT ![w] = to] /\ wpc[w] # "handed"
      BY <2>4 DEF StartPipeline, CompletePipeline, MarkRetrying, RecordFailure, BuryJob,
         FailPipeline, Released, AfterJob, WorkerGoto, WorkerSteps
    <3>3. Handed' = Handed
      BY <3>2 DEF Handed, IInv, TypeOK
    <3>. QED BY <1>2, <2>1, <3>1, <3>3
  <2>5. CASE Requeue(w)
    <3>1. PICK to \in WorkerSteps \ {"handed"} : wpc' = [wpc EXCEPT ![w] = to] /\ wpc[w] # "handed"
      BY <2>5 DEF Requeue, Released, AfterJob, WorkerSteps
    <3>2. Handed' = Handed
      BY <3>1 DEF Handed, IInv, TypeOK
    <3>3. job[w] \in Uploads /\ up \in {"running", "stopping"}
      BY <2>5, WorkerHolds DEF Requeue
    <3>4. \/ UNCHANGED <<queue, pending>>
          \/ queue' = Append(queue, job[w]) /\ pending' = Append(pending, job[w])
      BY <2>5 DEF Requeue
    <3>. QED BY <1>1, <1>2, <2>1, <3>2, <3>3, <3>4, MirrorAppend DEF MirrorInv
  <2>. QED BY <1>6, <2>2, <2>3, <2>4, <2>5 DEF Worker
<1>. QED BY <1>3, <1>4, <1>5, <1>6 DEF Next

-----------------------------------------------------------------------------
\* Every step preserves the invariant.
LEMMA StepInv == IInv /\ [Next]_vars => IInv'
<1>. SUFFICES ASSUME IInv, [Next]_vars PROVE IInv'
  OBVIOUS
<1>1. CASE UNCHANGED vars
  <2>1. TypeOK' /\ Holds' /\ Life' /\ OneCopyOfJob' /\ DeadLettersAreFailures' /\ Budget'
    BY <1>1 DEF vars, processVars, queueVars, workerVars, IInv, TypeOK, Holds, Life, OneCopyOfJob,
       Queued, Held, DeadLettersAreFailures, Budget
  <2>2. ASSUME NEW u \in Uploads PROVE Custody(u)' /\ RowSays(u)'
    BY <1>1, <2>2 DEF vars, processVars, queueVars, workerVars, IInv, Custody, RowSays, InProgress,
       Live, Queued, Held
  <2>3. Reconciled'
    BY <1>1 DEF vars, processVars, queueVars, workerVars, IInv, Reconciled, InProgress, InHandler,
       Live, Queued, Held
  <2>. QED BY <2>1, <2>2, <2>3 DEF IInv
<1>2. CASE Process
  BY <1>2, BootKeeps, StaleKeeps, MarkersKeep, StartKeeps, EndKeeps DEF Process
<1>3. ASSUME NEW u \in Uploads, Handler(u) PROVE IInv'
  BY <1>3, HandlerKeeps, EnqueueKeeps DEF Handler
<1>4. ASSUME NEW w \in Workers, Worker(w) PROVE IInv'
  BY <1>4, TakeKeeps, ResumeKeeps, PipelineKeeps, CompleteKeeps, FailureKeeps, RetryingKeeps,
     RequeueKeeps, RecordKeeps, BuryKeeps DEF Worker
<1>. QED BY <1>1, <1>2, <1>3, <1>4 DEF Next

\* What the invariant says of the budget and of the rows in progress.
LEMMA InvImplies == IInv => RetriesEnd /\ InProgressIsOwned
<1>1. IInv => RetriesEnd
  BY DEF IInv, Budget, RetriesEnd
<1>2. ASSUME IInv PROVE InProgressIsOwned
  BY <1>2 DEF IInv, RowSays, Reconciled, Live, InProgressIsOwned
<1>. QED BY <1>1, <1>2

\* The invariant holds throughout, whatever stops, crashes and fails.
THEOREM Invariant == Spec => []IInv
BY InitInv, StepInv, PTL DEF Spec

\* _pending_doc_ids follows the queue through every order in which workers
\* resume, retries return and the process stops.
THEOREM MirrorFollowed == Spec => []MirrorFollowsQueue
<1>1. Init => MirrorInv
  BY DEF Init, MirrorInv
<1>2. IInv /\ MirrorInv /\ [Next]_vars => MirrorInv'
  BY MirrorStep
<1>3. IInv /\ MirrorInv => MirrorFollowsQueue
  BY MirrorIsFollowed DEF IInv
<1>. QED BY Invariant, <1>1, <1>2, <1>3, PTL DEF Spec

\* The types of the queue, its workers and the rows it writes.
THEOREM TypeCorrect == Spec => []TypeOK
<1>. IInv => TypeOK
  BY DEF IInv
<1>. QED BY Invariant, PTL

\* AsyncioIngestionQueue: across retries, stops that cancel half-way and crashes,
\* a job is never in two places, is tried within its budget and is buried once,
\* when its document has failed.
THEOREM JobsTakeOnePath == Spec => []JobTakesOnePath
<1>1. IInv => OneCopyOfJob /\ DeadLettersAreFailures
  BY DEF IInv
<1>2. IInv => JobTakesOnePath
  BY <1>1, InvImplies DEF JobTakesOnePath
<1>. QED BY Invariant, <1>2, PTL

\* fail_stale_documents_global at start-up leaves no document in progress that
\* nobody works on, however the process ended before.
THEOREM ProgressOwned == Spec => []InProgressIsOwned
BY Invariant, InvImplies, PTL
=============================================================================
