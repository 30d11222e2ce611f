------------------------- MODULE TenantRegistryProofs -------------------------
(***************************************************************************)
(* What the tenant registry keeps of its completeness guarantee, for any   *)
(* documents, chats, reads, failed scans and restarts, and invalidations   *)
(* at any time: it loses only what an invalidation took out of the cache   *)
(* under a waiting snapshot, and no read that asked the database loses it. *)
(***************************************************************************)
EXTENDS TenantRegistry, TLAPS

\* A row comes from an upload that has begun, and what a read owes is a row
\* whose upload had registered it: neither is ever inserted again.
Settled ==
  /\ \A d \in db : upc[d] # "new"
  /\ \A q \in Reads : due[q] \subseteq {d \in Docs : upc[d] = "done"}

\* What was registered is in the cache once it is marked complete, and in the
\* cache or in the snapshot while a scan waits to be merged, unless an
\* invalidation wiped it in between.
Covered ==
  ~disabled =>
    /\ loaded => Registered \ wiped \subseteq cache
    /\ \A q \in Reads : qpc[q] = "merge" => Registered \ wiped \subseteq cache \union scan[q]

\* A read keeps what it owes: in its snapshot, then in its answer.
Owed ==
  \A q \in Reads :
    /\ qpc[q] = "merge" => due[q] \intersect db \subseteq scan[q]
    /\ qpc[q] = "done" => due[q] \intersect db \subseteq answer[q]

RegistryInv == TypeOK /\ Settled /\ Covered /\ Owed

-----------------------------------------------------------------------------
\* A deployment does not change its setting.
LEMMA SettingStays == [Next]_vars => disabled' = disabled
BY DEF Next, vars, CreateDocument, RegisterUpload, DeleteDocument, Invalidate,
   CheckOwned, RegisterChat, BeginRead, ScanRows, ScanFails, FinishRead, Restart

\* The registry starts empty and unloaded.
LEMMA InitRegistry == Init => RegistryInv
<1>1. Init => TypeOK
  <2> SUFFICES ASSUME Init PROVE TypeOK
    OBVIOUS
  <2>1. disabled \in BOOLEAN /\ loaded \in BOOLEAN /\ restarts \in Nat /\ errors \in Nat
    BY DEF Init
  <2>2. db \subseteq Docs /\ cache \subseteq Docs /\ wiped \subseteq Docs
    BY DEF Init
  <2>3. /\ upc \in [Docs -> {"new", "register", "done"}]
        /\ cpc \in [Chats -> {"new", "register", "done"}]
        /\ dpc \in [Docs -> {"new", "invalidate", "done"}]
        /\ qpc \in [Reads -> {"new", "scan", "merge", "done", "degraded", "gone"}]
    BY DEF Init
  <2>4. /\ about \in [Chats -> SUBSET Docs] /\ scan \in [Reads -> SUBSET Docs]
        /\ due \in [Reads -> SUBSET Docs] /\ answer \in [Reads -> SUBSET Docs]
    BY DEF Init
  <2> QED
    BY <2>1, <2>2, <2>3, <2>4 DEF TypeOK
<1>2. Init => Settled /\ Covered /\ Owed
  BY DEF Init, Settled, Covered, Owed
<1> QED
  BY <1>1, <1>2 DEF RegistryInv

\* Every step keeps every variable in its type.
LEMMA TypeStep == TypeOK /\ [Next]_vars => TypeOK'
<1> SUFFICES ASSUME TypeOK, [Next]_vars PROVE TypeOK'
  OBVIOUS
<1> USE DEF TypeOK, requestVars, readVars
<1>1. ASSUME NEW d \in Docs,
             CreateDocument(d) \/ RegisterUpload(d) \/ DeleteDocument(d) \/ Invalidate(d)
      PROVE  TypeOK'
  BY <1>1 DEF CreateDocument, RegisterUpload, Register, DeleteDocument, Invalidate
<1>2. ASSUME NEW c \in Chats, NEW d \in Docs, CheckOwned(c, d) \/ RegisterChat(c, d)
      PROVE  TypeOK'
  BY <1>2 DEF CheckOwned, RegisterChat, Register
<1>3. ASSUME NEW q \in Reads, BeginRead(q) PROVE TypeOK'
  <2>1. Registered \subseteq Docs
    BY DEF Registered
  <2> QED
    BY <1>3, <2>1 DEF BeginRead
<1>4. ASSUME NEW q \in Reads, ScanRows(q) \/ ScanFails(q) PROVE TypeOK'
  BY <1>4 DEF ScanRows, ScanFails
<1>5. ASSUME NEW q \in Reads, FinishRead(q) PROVE TypeOK'
  <2>1. Merged(q) \subseteq Docs
    BY DEF Merged
  <2> QED
    BY <1>5, <2>1 DEF FinishRead
<1>6. CASE Restart
  <2>1. /\ upc' \in [Docs -> {"new", "register", "done"}]
        /\ cpc' \in [Chats -> {"new", "register", "done"}]
    BY <1>6 DEF Restart, Gone
  <2>2. dpc' \in [Docs -> {"new", "invalidate", "done"}]
    BY <1>6 DEF Restart, Gone
  <2>3. qpc' \in [Reads -> {"new", "scan", "merge", "done", "degraded", "gone"}]
    BY <1>6 DEF Restart
  <2>4. /\ restarts' \in Nat /\ cache' = {} /\ wiped' = {} /\ loaded' = FALSE
        /\ UNCHANGED <<disabled, db, about, scan, due, answer, errors>>
    BY <1>6 DEF Restart
  <2> QED
    BY <2>1, <2>2, <2>3, <2>4
<1>7. CASE UNCHANGED vars
  BY <1>7 DEF vars
<1> QED
  BY <1>1, <1>2, <1>3, <1>4, <1>5, <1>6, <1>7 DEF Next

\* No step inserts a document twice.
LEMMA SettledStep == TypeOK /\ Settled /\ [Next]_vars => Settled'
<1> SUFFICES ASSUME TypeOK, Settled, [Next]_vars PROVE Settled'
  OBVIOUS
<1> USE DEF TypeOK, Settled, requestVars, readVars
<1>1. ASSUME NEW d \in Docs,
             CreateDocument(d) \/ RegisterUpload(d) \/ DeleteDocument(d) \/ Invalidate(d)
      PROVE  Settled'
  BY <1>1 DEF CreateDocument, RegisterUpload, DeleteDocument, Invalidate
<1>2. ASSUME NEW c \in Chats, NEW d \in Docs, CheckOwned(c, d) \/ RegisterChat(c, d)
      PROVE  Settled'
  BY <1>2 DEF CheckOwned, RegisterChat
<1>3. ASSUME NEW q \in Reads, BeginRead(q) PROVE Settled'
  <2>1. Registered \subseteq {d \in Docs : upc[d] = "done"}
    BY DEF Registered
  <2> QED
    BY <1>3, <2>1 DEF BeginRead
<1>4. ASSUME NEW q \in Reads, ScanRows(q) \/ ScanFails(q) \/ FinishRead(q) PROVE Settled'
  BY <1>4 DEF ScanRows, ScanFails, FinishRead
<1>5. CASE Restart
  BY <1>5 DEF Restart, Gone
<1>6. CASE UNCHANGED vars
  BY <1>6 DEF vars
<1> QED
  BY <1>1, <1>2, <1>3, <1>4, <1>5, <1>6 DEF Next

\* No step loses a registered document from the cache and from a snapshot at
\* once: only an invalidation could, and what it takes counts as wiped.
LEMMA CoveredStep == RegistryInv /\ [Next]_vars => Covered'
<1> SUFFICES ASSUME RegistryInv, [Next]_vars, ~disabled
             PROVE  /\ loaded' => Registered' \ wiped' \subseteq cache'
                    /\ \A q \in Reads : qpc'[q] = "merge"
                         => Registered' \ wiped' \subseteq cache' \union scan'[q]
  BY SettingStays DEF Covered
<1> USE DEF RegistryInv, TypeOK, Covered, Registered, requestVars, readVars
<1>1. CASE \E d \in Docs : CreateDocument(d)
  BY <1>1 DEF CreateDocument
<1>2. CASE \E d \in Docs : RegisterUpload(d)
  BY <1>2 DEF RegisterUpload, Register
<1>3. CASE \E d \in Docs : DeleteDocument(d)
  BY <1>3 DEF DeleteDocument
<1>4. CASE \E d \in Docs : Invalidate(d)
  BY <1>4 DEF Invalidate, SnapshotWaits
<1>5. CASE \E c \in Chats, d \in Docs : CheckOwned(c, d)
  BY <1>5 DEF CheckOwned
<1>6. CASE \E c \in Chats, d \in Docs : RegisterChat(c, d)
  BY <1>6 DEF RegisterChat, Register
<1>7. CASE \E q \in Reads : BeginRead(q)
  BY <1>7 DEF BeginRead
<1>8. CASE \E q \in Reads : ScanRows(q)
  BY <1>8 DEF ScanRows
<1>9. CASE \E q \in Reads : ScanFails(q)
  BY <1>9 DEF ScanFails
<1>10. CASE \E q \in Reads : FinishRead(q)
  BY <1>10 DEF FinishRead, Merged
<1>11. CASE Restart
  BY <1>11 DEF Restart
<1>12. CASE UNCHANGED vars
  BY <1>12 DEF vars
<1> QED
  BY <1>1, <1>2, <1>3, <1>4, <1>5, <1>6, <1>7, <1>8, <1>9, <1>10, <1>11, <1>12 DEF Next

\* No step takes an owed document out of a snapshot or an answer.
LEMMA OwedStep == RegistryInv /\ [Next]_vars => Owed'
<1> SUFFICES ASSUME RegistryInv, [Next]_vars, NEW q \in Reads
             PROVE  /\ qpc'[q] = "merge" => due'[q] \intersect db' \subseteq scan'[q]
                    /\ qpc'[q] = "done" => due'[q] \intersect db' \subseteq answer'[q]
  BY SettingStays DEF Owed
<1> USE DEF RegistryInv, TypeOK, Settled, Owed, requestVars, readVars
<1>1. CASE \E d \in Docs : CreateDocument(d)
  BY <1>1 DEF CreateDocument
<1>2. CASE \E d \in Docs : RegisterUpload(d) \/ DeleteDocument(d) \/ Invalidate(d)
  BY <1>2 DEF RegisterUpload, DeleteDocument, Invalidate
<1>3. CASE \E c \in Chats, d \in Docs : CheckOwned(c, d) \/ RegisterChat(c, d)
  BY <1>3 DEF CheckOwned, RegisterChat
<1>4. ASSUME NEW p \in Reads, BeginRead(p)
      PROVE  /\ qpc'[q] = "merge" => due'[q] \intersect db' \subseteq scan'[q]
             /\ qpc'[q] = "done" => due'[q] \intersect db' \subseteq answer'[q]
  <2>1. CASE p # q
    BY <1>4, <2>1 DEF BeginRead
  <2>2. CASE p = q
    <3>1. Trusted => Registered \ wiped \subseteq cache
      BY DEF Trusted, Covered
    <3> QED
      BY <1>4, <2>2, <3>1 DEF BeginRead
  <2> QED
    BY <2>1, <2>2
<1>5. CASE \E p \in Reads : ScanRows(p) \/ ScanFails(p)
  BY <1>5 DEF ScanRows, ScanFails
<1>6. CASE \E p \in Reads : FinishRead(p)
  BY <1>6 DEF FinishRead, Merged
<1>7. CASE Restart
  BY <1>7 DEF Restart
<1>8. CASE UNCHANGED vars
  BY <1>8 DEF vars
<1> QED
  BY <1>1, <1>2, <1>3, <1>4, <1>5, <1>6, <1>7, <1>8 DEF Next

\* Every step preserves the invariant.
LEMMA RegistryStep == RegistryInv /\ [Next]_vars => RegistryInv'
BY TypeStep, SettledStep, CoveredStep, OwedStep DEF RegistryInv

\* The registry's guarantee, whatever the interleaving of uploads, chats, reads,
\* deletes, invalidations, failed scans and restarts: a cache marked loaded misses
\* only what an invalidation wiped under a waiting snapshot.
THEOREM RegistryComplete == Spec => []MissesOnlyWiped
<1>1. RegistryInv => MissesOnlyWiped
  BY DEF RegistryInv, Covered, MissesOnlyWiped
<1> QED
  BY InitRegistry, RegistryStep, <1>1, PTL DEF Spec

\* get_tenant_document_ids: an answer from the database holds every document that
\* was registered when the read began and still exists, even if the cache lost it;
\* an answer from the cache misses only what was wiped by then.
THEOREM AnswersComplete == Spec => []ReadsAreComplete
<1>1. RegistryInv => ReadsAreComplete
  BY DEF RegistryInv, Owed, ReadsAreComplete
<1> QED
  BY InitRegistry, RegistryStep, <1>1, PTL DEF Spec
=============================================================================
