---------------------------- MODULE TenantRegistry ----------------------------
(***************************************************************************)
(* The in-memory registry of one tenant's documents                        *)
(* (backend/services/tenant_registry.py) beside the documents table, and   *)
(* the requests of one API process that use it: uploads and chats register *)
(* a document, reads ask for the tenant's document list, deletes remove a  *)
(* document and invalidate the cache.  Everything between two awaits is    *)
(* one action; any other request may run at an await.                      *)
(***************************************************************************)
EXTENDS Naturals

CONSTANTS
  Docs,         \* documents, each created by one POST /upload
  Chats,        \* POST /chat requests, each about one document
  Reads,        \* calls of get_tenant_document_ids
  MaxRestarts,  \* bound on process restarts
  MaxScanErrors \* bound on scans that raise

VARIABLES
  disabled,  \* TENANT_REGISTRY_DISABLED of this deployment
  db,        \* the tenant's rows in the documents table
  cache,     \* _TENANT_DOCUMENTS of the tenant
  loaded,    \* the tenant is in _TENANT_REGISTRY_LOADED
  upc,       \* where the upload of each document is
  cpc,       \* where each chat is
  about,     \* the documents a chat is about: one, or none yet
  dpc,       \* where the delete of each document is
  qpc,       \* where each read is
  scan,      \* the rows a read's query has returned
  due,       \* the registered documents when a read began
  answer,    \* the list a read has returned
  wiped,     \* history: the documents that an invalidation took out of the cache
             \* while a snapshot waited to be merged, and that are not back in it
  restarts, errors

requestVars == <<upc, cpc, about, dpc>>
readVars == <<qpc, scan, due, answer>>
vars == <<disabled, db, cache, loaded, upc, cpc, about, dpc,
          qpc, scan, due, answer, wiped, restarts, errors>>

\* Documents whose upload has registered them (or died with the process that
\* inserted them): the ones a tenant-wide retrieval has to find.
Registered == {d \in db : upc[d] # "register"}

Init ==
  /\ disabled \in BOOLEAN
  /\ db = {}
  /\ cache = {}
  /\ loaded = FALSE
  /\ upc = [d \in Docs |-> "new"]
  /\ cpc = [c \in Chats |-> "new"]
  /\ about = [c \in Chats |-> {}]
  /\ dpc = [d \in Docs |-> "new"]
  /\ qpc = [q \in Reads |-> "new"]
  /\ scan = [q \in Reads |-> {}]
  /\ due = [q \in Reads |-> {}]
  /\ answer = [q \in Reads |-> {}]
  /\ wiped = {}
  /\ restarts = 0
  /\ errors = 0

-----------------------------------------------------------------------------
\* create_document commits; the handler resumes later.
CreateDocument(d) ==
  /\ upc[d] = "new"
  /\ db' = db \union {d}
  /\ upc' = [upc EXCEPT ![d] = "register"]
  /\ UNCHANGED <<disabled, cache, loaded, cpc, about, dpc, readVars,
                 wiped, restarts, errors>>

\* register_tenant_document.
Register(d) ==
  /\ cache' = cache \union {d}
  /\ wiped' = wiped \ {d}

RegisterUpload(d) ==
  /\ upc[d] = "register"
  /\ Register(d)
  /\ upc' = [upc EXCEPT ![d] = "done"]
  /\ UNCHANGED <<disabled, db, loaded, cpc, about, dpc, readVars,
                 restarts, errors>>

\* _assert_document_owned of a chat: 404 unless the row is there.
CheckOwned(c, d) ==
  /\ cpc[c] = "new"
  /\ d \in db
  /\ cpc' = [cpc EXCEPT ![c] = "register"]
  /\ about' = [about EXCEPT ![c] = {d}]
  /\ UNCHANGED <<disabled, db, cache, loaded, upc, dpc, readVars,
                 wiped, restarts, errors>>

\* The chat registers its document after the session calls: the row may be
\* gone by then.
RegisterChat(c, d) ==
  /\ cpc[c] = "register"
  /\ d \in about[c]
  /\ Register(d)
  /\ cpc' = [cpc EXCEPT ![c] = "done"]
  /\ UNCHANGED <<disabled, db, loaded, upc, about, dpc, readVars,
                 restarts, errors>>

\* delete_document commits; only a document whose ingestion has ended is
\* deleted, so its upload has returned.
DeleteDocument(d) ==
  /\ dpc[d] = "new"
  /\ d \in db /\ upc[d] = "done"
  /\ db' = db \ {d}
  /\ dpc' = [dpc EXCEPT ![d] = "invalidate"]
  /\ UNCHANGED <<disabled, cache, loaded, upc, cpc, about, readVars,
                 wiped, restarts, errors>>

\* A read has its rows and has not merged them yet.
SnapshotWaits == \E q \in Reads : qpc[q] = "merge"

\* invalidate_tenant_cache: a scan in flight is neither waited for nor told.
Invalidate(d) ==
  /\ dpc[d] = "invalidate"
  /\ wiped' = IF SnapshotWaits THEN wiped \union cache ELSE {}
  /\ loaded' = FALSE
  /\ cache' = {}
  /\ dpc' = [dpc EXCEPT ![d] = "done"]
  /\ UNCHANGED <<disabled, db, upc, cpc, about, readVars, restarts, errors>>

-----------------------------------------------------------------------------
(* get_tenant_document_ids.                                                *)

\* Slip (the race the module's docstring describes): a cache with an entry is
\* taken for complete.
TrustedNonEmpty == loaded \/ cache # {}

\* The condition under which the cache answers alone.
Trusted == ~disabled /\ loaded

\* The cache answers, or the database is asked.  A read owes every document
\* registered by now; the cache cannot give what an invalidation wiped.
BeginRead(q) ==
  /\ qpc[q] = "new"
  /\ due' = [due EXCEPT ![q] = IF Trusted THEN Registered \ wiped ELSE Registered]
  /\ IF Trusted
     THEN /\ answer' = [answer EXCEPT ![q] = cache]
          /\ qpc' = [qpc EXCEPT ![q] = "done"]
     ELSE /\ qpc' = [qpc EXCEPT ![q] = "scan"]
          /\ UNCHANGED answer
  /\ UNCHANGED <<disabled, db, cache, loaded, scan, requestVars,
                 wiped, restarts, errors>>

\* list_tenant_documents takes its snapshot.
ScanRows(q) ==
  /\ qpc[q] = "scan"
  /\ scan' = [scan EXCEPT ![q] = db]
  /\ qpc' = [qpc EXCEPT ![q] = "merge"]
  /\ UNCHANGED <<disabled, db, cache, loaded, due, answer, requestVars,
                 wiped, restarts, errors>>

\* The query raises: the cache answers, and is not marked complete.
ScanFails(q) ==
  /\ qpc[q] = "scan"
  /\ errors < MaxScanErrors
  /\ errors' = errors + 1
  /\ answer' = [answer EXCEPT ![q] = cache]
  /\ qpc' = [qpc EXCEPT ![q] = "degraded"]
  /\ UNCHANGED <<disabled, db, cache, loaded, scan, due, requestVars,
                 wiped, restarts>>

\* Slip: the snapshot replaces the cache.
MergedReplacing(q) == scan[q]

\* The cache after the merge.
Merged(q) == cache \union scan[q]

\* With the registry disabled the rows are the answer; otherwise they are
\* merged into the cache, which is complete from now on.
FinishRead(q) ==
  /\ qpc[q] = "merge"
  /\ qpc' = [qpc EXCEPT ![q] = "done"]
  /\ IF disabled
     THEN /\ answer' = [answer EXCEPT ![q] = scan[q]]
          /\ UNCHANGED <<cache, loaded, wiped>>
     ELSE /\ cache' = Merged(q)
          /\ wiped' = wiped \ Merged(q)
          /\ loaded' = TRUE
          /\ answer' = [answer EXCEPT ![q] = Merged(q)]
  /\ UNCHANGED <<disabled, db, scan, due, requestVars, restarts, errors>>

-----------------------------------------------------------------------------
\* The process restarts: the registry is empty and the requests under way are
\* gone.  What they committed stays.
Gone(pc, states) == [i \in DOMAIN pc |-> IF pc[i] \in states THEN "done" ELSE pc[i]]

Restart ==
  /\ restarts < MaxRestarts
  /\ restarts' = restarts + 1
  /\ cache' = {}
  /\ wiped' = {}
  /\ loaded' = FALSE
  /\ upc' = Gone(upc, {"register"})
  /\ cpc' = Gone(cpc, {"register"})
  /\ dpc' = Gone(dpc, {"invalidate"})
  /\ qpc' = [q \in Reads |-> IF qpc[q] \in {"scan", "merge"} THEN "gone" ELSE qpc[q]]
  /\ UNCHANGED <<disabled, db, about, scan, due, answer, errors>>

Next ==
  \/ \E d \in Docs : \/ CreateDocument(d) \/ RegisterUpload(d)
                     \/ DeleteDocument(d) \/ Invalidate(d)
  \/ \E c \in Chats, d \in Docs : CheckOwned(c, d) \/ RegisterChat(c, d)
  \/ \E q \in Reads : BeginRead(q) \/ ScanRows(q) \/ ScanFails(q) \/ FinishRead(q)
  \/ Restart

Spec == Init /\ [][Next]_vars

-----------------------------------------------------------------------------
TypeOK ==
  /\ disabled \in BOOLEAN /\ loaded \in BOOLEAN
  /\ db \subseteq Docs /\ cache \subseteq Docs
  /\ upc \in [Docs -> {"new", "register", "done"}]
  /\ cpc \in [Chats -> {"new", "register", "done"}]
  /\ about \in [Chats -> SUBSET Docs]
  /\ dpc \in [Docs -> {"new", "invalidate", "done"}]
  /\ qpc \in [Reads -> {"new", "scan", "merge", "done", "degraded", "gone"}]
  /\ scan \in [Reads -> SUBSET Docs]
  /\ due \in [Reads -> SUBSET Docs]
  /\ answer \in [Reads -> SUBSET Docs]
  /\ wiped \subseteq Docs
  /\ restarts \in Nat /\ errors \in Nat

\* What a cache that is marked loaded misses, an invalidation wiped while a
\* snapshot older than the registration waited to be merged: restarts, failed
\* scans, racing reads and chats about deleted documents lose nothing.
MissesOnlyWiped == loaded /\ ~disabled => Registered \ wiped \subseteq cache

\* A read that asked the database returns every document that was registered when
\* it began and has not been deleted since, whatever happens to the cache
\* meanwhile; a read the cache answered misses no more than the cache does.
ReadsAreComplete ==
  \A q \in Reads : qpc[q] = "done" => due[q] \intersect db \subseteq answer[q]

-----------------------------------------------------------------------------
(* What the module's docstring claims and the code does not keep.          *)

\* The completeness guarantee of tenant_registry.py: once the tenant is marked
\* loaded, the cache holds every registered document that still has its row.
\* Violated: an invalidation between a scan's snapshot and its merge empties the
\* cache, and the merge marks it loaded without what was registered in between.
\* The document is then left out of every retrieval until the next delete.
LoadedIsComplete == loaded /\ ~disabled => Registered \subseteq cache
=============================================================================
