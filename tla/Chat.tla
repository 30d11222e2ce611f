-------------------------------- MODULE Chat --------------------------------
(***************************************************************************)
(* Chat turns, sessions and feedback: POST /chat, /chat/stream and         *)
(* /chat/batch, POST /sessions, GET /sessions/{id}/history, DELETE         *)
(* /sessions/{id} and POST /feedback, with the tables they share           *)
(* (sessions, session_documents, chat_messages, retrieval_feedback).       *)
(* Each action is the work between two awaits; a database call commits in  *)
(* one action.  The registry of a tenant's documents is taken complete     *)
(* (module TenantRegistry) and the pure steps of retrieval are in module   *)
(* Retrieval.                                                              *)
(***************************************************************************)
EXTENDS Naturals, FiniteSets, SequencesExt

CONSTANTS
  Tenants, Docs, Names,  \* Names: the session ids callers choose
  DocOwner,       \* the tenant of each document
  Turns,          \* requests, or items of one batch request
  Request,        \* what each turn asks for, see RequestOK
  Mixes,          \* sets of turns sent together
  None,
  LlmLimit,       \* CHAT_BATCH_LLM_CONCURRENCY
  Deletable,      \* documents that may be deleted
  MaxDeletes,     \* bound on deletes of sessions
  MaxFeedback     \* bound on feedback requests

Kinds == {"ask", "stream", "item", "create", "read"}
Scopes == {"session", "tenant"}
\* `name` is the caller's session id or None, `filter` the documents that match
\* metadata_filter, or None; `limit` is history_load_limit of its windows, in
\* messages.
RequestOK(r) ==
  /\ r.kind \in Kinds /\ r.scope \in Scopes
  /\ r.tenant \in Tenants
  /\ r.docs \subseteq Docs
  /\ r.name \in Names \union {None}
  /\ r.filter \in (SUBSET Docs) \union {None}
  /\ r.limit \in Nat
ASSUME ChatAssumption ==
  /\ \A t \in Turns : RequestOK(Request[t])
  /\ DocOwner \in [Docs -> Tenants]
  /\ IsFiniteSet(Turns) /\ Names \intersect Turns = {}
  /\ None \notin Tenants \union Names \union Turns
  /\ LlmLimit \in Nat \ {0}

\* A turn that is given a fresh UUID calls it by its own name.
SessionIds == Names \union Turns

VARIABLES
  rows,      \* documents that have a row
  owner,     \* sessions: the tenant of each session id, or None
  links,     \* session_documents
  messages,  \* chat_messages of each session id, oldest first
  feedback,  \* retrieval_feedback
  pc,        \* where each turn is
  sid,       \* the session a turn works in
  history,   \* the messages a turn has loaded
  scope,     \* the documents a turn may search
  sources,   \* the documents its chunks come from
  sent,      \* what its client has been sent, in order
  stored,    \* turns whose store_chat_turn has returned
  permits,   \* free permits of the batch LLM semaphore
  deletes,   \* bound: deletes of each session id so far
  held,      \* tenants that have held each session id
  fpc        \* the feedback requests: where each is and what it checked

tables == <<rows, owner, links, messages, feedback>>
turnVars == <<pc, sid, history, scope, sources, sent, stored, permits>>
vars == <<tables, turnVars, deletes, held, fpc>>

Tenant(t) == Request[t].tenant
Kind(t) == Request[t].kind
Limit(t) == Request[t].limit

\* Slip: a document is found whatever its tenant.
Found(n) == rows

Owned(n) == {d \in rows : DocOwner[d] = n}
Message(t, role) == [turn |-> t, role |-> role]
Roles == {"user", "assistant"}

Init ==
  /\ rows = Docs
  /\ owner = [s \in SessionIds |-> None]
  /\ links = {}
  /\ messages = [s \in SessionIds |-> <<>>]
  /\ feedback = {}
  /\ \E mix \in Mixes :
       pc = [t \in Turns |-> IF t \notin mix THEN "off"
                             ELSE IF Kind(t) \in {"create", "read"} THEN "session"
                             ELSE "new"]
  /\ sid = [t \in Turns |-> None]
  /\ history = [t \in Turns |-> <<>>]
  /\ scope = [t \in Turns |-> {}]
  /\ sources = [t \in Turns |-> {}]
  /\ sent = [t \in Turns |-> <<>>]
  /\ stored = {}
  /\ permits = LlmLimit
  /\ deletes = [s \in SessionIds |-> 0]
  /\ held = [s \in SessionIds |-> {}]
  /\ fpc = [i \in 1..MaxFeedback |-> [at |-> "new", by |-> None, session |-> None, about |-> None]]

-----------------------------------------------------------------------------
(* Moving on, and what the client is sent.                                 *)

Preparing == {"new", "session", "insert", "select", "fresh", "bind", "link"}
Streaming == {"scope", "history", "search", "generate", "store", "complete", "marker"}
Over == {"done", "cancelled", "off"}
Items == {t \in Turns : Kind(t) = "item" /\ pc[t] # "off"}
\* Items are numbered in the order of the request by their position.
Before(t) == {u \in Items : Request[u].position < Request[t].position}

Goto(t, to) == pc' = [pc EXCEPT ![t] = to]
Send(t, event) == sent' = [sent EXCEPT ![t] = Append(@, event)]
Answer(t, event) == Goto(t, "done") /\ Send(t, event)

\* An exception: a stream that has begun ends in an error event, an item under
\* way in an error of its own, and preparing an item fails the whole batch.
FailBatch ==
  /\ pc' = [t \in Turns |-> IF t \in Items THEN "done" ELSE pc[t]]
  /\ sent' = [t \in Turns |-> IF t \in Items THEN <<"failed">> ELSE sent[t]]
Fail(t) ==
  IF Kind(t) = "item" /\ pc[t] \in Preparing THEN FailBatch
  ELSE IF Kind(t) = "stream" /\ pc[t] \in Streaming THEN Answer(t, "error")
  ELSE Answer(t, "failed")

\* The awaits of a turn in order, once it has a session.
First(t) == IF Kind(t) = "item" THEN "history" ELSE "scope"
AfterHistory(t) == IF Kind(t) = "item" THEN "transform" ELSE "search"
AfterScope(t) == IF Kind(t) = "item" THEN "search" ELSE "history"
\* An item waits until every item of the batch has left these steps
\* (asyncio.gather, or the loop of prepare_batch_chat_items).
Gathered(t, steps) == Kind(t) = "item" => \A u \in Items : pc[u] \notin steps

-----------------------------------------------------------------------------
(* Documents and sessions: _assert_document_owned, get_or_create_session,  *)
(* create_session, register_session_document.                              *)

\* get_document of each requested document.
AssertOwned(t) ==
  /\ pc[t] = "new"
  /\ Kind(t) = "item" => \A u \in Before(t) : pc[u] \notin Preparing
  /\ IF Request[t].docs \subseteq Owned(Tenant(t))
     THEN Goto(t, "session") /\ UNCHANGED sent
     ELSE Answer(t, "not_found")
  /\ UNCHANGED <<tables, sid, stored, history, scope, sources, permits, deletes, held, fpc>>

\* The turn has its session.
Enter(t, s) ==
  /\ sid' = [sid EXCEPT ![t] = s]
  /\ CASE Kind(t) = "create" -> Answer(t, "created")
       [] Kind(t) = "read" -> Goto(t, "history") /\ UNCHANGED sent
       [] OTHER -> Goto(t, "bind") /\ UNCHANGED sent

\* get_session_record.
GetSession(t) ==
  /\ pc[t] = "session"
  /\ LET s == Request[t].name IN
     CASE s = None -> Goto(t, "fresh") /\ UNCHANGED <<sid, sent>>
       [] s # None /\ owner[s] = Tenant(t) /\ Kind(t) = "create" ->
            Answer(t, "conflict") /\ UNCHANGED sid
       [] s # None /\ owner[s] = Tenant(t) /\ Kind(t) # "create" -> Enter(t, s)
       [] s # None /\ owner[s] # Tenant(t) /\ Kind(t) = "read" ->
            Answer(t, "not_found") /\ UNCHANGED sid
       [] OTHER -> Goto(t, "insert") /\ UNCHANGED <<sid, sent>>
  /\ UNCHANGED <<tables, stored, history, scope, sources, permits, deletes, held, fpc>>

Take(s, n) ==
  /\ owner' = [owner EXCEPT ![s] = n]
  /\ held' = [held EXCEPT ![s] = @ \union {n}]

\* get_or_create_session_record: INSERT ... ON CONFLICT DO NOTHING commits.
InsertSession(t) ==
  /\ pc[t] = "insert"
  /\ LET s == Request[t].name IN
     IF owner[s] = None THEN Take(s, Tenant(t)) ELSE UNCHANGED <<owner, held>>
  /\ Goto(t, "select")
  /\ UNCHANGED <<rows, links, messages, feedback, sid, stored, history, scope, sources,
                 sent, permits, deletes, fpc>>

\* Slip: only the request that inserted the row may use it.
SelectOwnInsert(t) ==
  /\ pc[t] = "select"
  /\ LET s == Request[t].name IN
     IF owner[s] = Tenant(t) /\ ~\E u \in Turns : sid[u] = s
     THEN Enter(t, s)
     ELSE Goto(t, "fresh") /\ UNCHANGED <<sid, sent>>
  /\ UNCHANGED <<tables, stored, history, scope, sources, permits, deletes, held, fpc>>

\* The SELECT after it: the row is ours, another tenant's, or deleted again
\* (scalar_one raises).
SelectSession(t) ==
  /\ pc[t] = "select"
  /\ LET s == Request[t].name IN
     CASE owner[s] = None -> Fail(t) /\ UNCHANGED sid
       [] owner[s] = Tenant(t) -> Enter(t, s)
       [] OTHER -> Goto(t, "fresh") /\ UNCHANGED <<sid, sent>>
  /\ UNCHANGED <<tables, stored, history, scope, sources, permits, deletes, held, fpc>>

\* create_session_record under a fresh UUID.
CreateFresh(t) ==
  /\ pc[t] = "fresh"
  /\ Take(t, Tenant(t))
  /\ Enter(t, t)
  /\ UNCHANGED <<rows, links, messages, feedback, stored, history, scope, sources, permits,
                 deletes, fpc>>

\* register_session_document: get_session, then add_session_document.
BindCheck(t) ==
  /\ pc[t] = "bind"
  /\ Goto(t, IF owner[sid[t]] = Tenant(t) THEN "link" ELSE First(t))
  /\ UNCHANGED <<tables, sid, stored, history, scope, sources, sent, permits,
                 deletes, held, fpc>>

\* session_id is a foreign key, document_id is none.
Link(t) ==
  /\ pc[t] = "link"
  /\ IF owner[sid[t]] = None
     THEN Fail(t) /\ UNCHANGED links
     ELSE /\ links' = links \union ({sid[t]} \X Request[t].docs)
          /\ Goto(t, First(t)) /\ UNCHANGED sent
  /\ UNCHANGED <<rows, owner, messages, feedback, sid, stored, history, scope, sources,
                 permits, deletes, held, fpc>>

-----------------------------------------------------------------------------
(* One turn: scope, history, retrieval, generation, storage.               *)

\* Slip: history is selected by session id alone.
HistoryOfSession(s, n) == messages[s]

\* The messages of `seq` that are in K, in their order.
Kept(seq, K) ==
  LET kept[i \in 0 .. Len(seq)] ==
        IF i = 0 THEN <<>>
        ELSE IF seq[i] \in K THEN Append(kept[i - 1], seq[i]) ELSE kept[i - 1]
  IN kept[Len(seq)]

\* get_session_history: the newest messages of session and tenant.
HistoryOf(s, n) == Kept(messages[s], {m \in ToSet(messages[s]) : Tenant(m.turn) = n})
Newest(seq, n) == SubSeq(seq, IF Len(seq) > n THEN Len(seq) - n + 1 ELSE 1, Len(seq))

\* A failed load leaves a turn without history; a read answers 500.
LoadHistory(t) ==
  /\ pc[t] = "history"
  /\ Gathered(t, Preparing)
  /\ \/ /\ history' = [history EXCEPT ![t] = Newest(HistoryOf(sid[t], Tenant(t)), Limit(t))]
        /\ IF Kind(t) = "read" THEN Answer(t, "ok")
                               ELSE Goto(t, AfterHistory(t)) /\ UNCHANGED sent
     \/ /\ UNCHANGED history
        /\ IF Kind(t) = "read" THEN Fail(t)
                               ELSE Goto(t, AfterHistory(t)) /\ UNCHANGED sent
  /\ UNCHANGED <<tables, sid, stored, scope, sources, permits, deletes, held, fpc>>

\* The batch items' transform, and below their generation, hold a permit.
BeginTransform(t) ==
  /\ pc[t] = "transform"
  /\ Gathered(t, Preparing \union {"history"})
  /\ permits > 0
  /\ permits' = permits - 1
  /\ Goto(t, "transforming")
  /\ UNCHANGED <<tables, sid, stored, history, scope, sources, sent, deletes, held, fpc>>

EndTransform(t) ==
  /\ pc[t] = "transforming"
  /\ permits' = permits + 1
  /\ Goto(t, "embed")
  /\ UNCHANGED <<tables, sid, stored, history, scope, sources, sent, deletes, held, fpc>>

\* One get_embeddings call for the queries of all items.
EmbedBatch ==
  /\ \E t \in Items : pc[t] = "embed"
  /\ \A t \in Items : pc[t] \in {"embed", "done"}
  /\ LET waiting == {t \in Items : pc[t] = "embed"} IN
     \/ /\ pc' = [t \in Turns |-> IF t \in waiting THEN "scope" ELSE pc[t]]
        /\ UNCHANGED sent
     \/ /\ pc' = [t \in Turns |-> IF t \in waiting THEN "done" ELSE pc[t]]
        /\ sent' = [t \in Turns |-> IF t \in waiting THEN Append(sent[t], "failed") ELSE sent[t]]
  /\ UNCHANGED <<tables, sid, stored, history, scope, sources, permits, deletes, held, fpc>>

\* _resolve_retrieval_doc_ids.
Resolved(t) ==
  LET r == Request[t]
      session == IF owner[sid[t]] = r.tenant THEN {d \in Docs : <<sid[t], d>> \in links} ELSE {}
      tenant == Owned(r.tenant)
      scoped == IF r.scope = "tenant" THEN (IF tenant # {} THEN tenant ELSE r.docs)
                ELSE IF session # {} THEN r.docs \intersect session ELSE r.docs
      isolated == IF tenant = {} THEN scoped ELSE scoped \intersect tenant
  IN IF r.filter = None THEN isolated ELSE isolated \intersect r.filter \intersect tenant

\* _scope_error: nothing to search, or a filter that excludes the anchors.
ScopeError(t, found) ==
  \/ found = {}
  \/ Request[t].filter # None /\ Request[t].docs \intersect found = {}

ResolveScope(t) ==
  /\ pc[t] = "scope"
  /\ LET found == Resolved(t) IN
     IF ScopeError(t, found)
     THEN /\ Answer(t, IF Kind(t) = "stream" THEN "error" ELSE "scope_error")
          /\ UNCHANGED scope
     ELSE /\ scope' = [scope EXCEPT ![t] = found]
          /\ Goto(t, AfterScope(t)) /\ UNCHANGED sent
  /\ UNCHANGED <<tables, sid, stored, history, sources, permits, deletes, held, fpc>>

\* find_similar_chunks of each document in scope, filtered by tenant in SQL.
Search(t) ==
  /\ pc[t] = "search"
  /\ \/ /\ sources' = [sources EXCEPT ![t] = scope[t] \intersect Owned(Tenant(t))]
        /\ Goto(t, "generate") /\ UNCHANGED sent
     \/ Fail(t) /\ UNCHANGED sources
  /\ UNCHANGED <<tables, sid, stored, history, scope, permits, deletes, held, fpc>>

\* A stream yields a token (one is enough to tell a begun stream).
Token(t) ==
  /\ pc[t] = "generate" /\ Kind(t) = "stream"
  /\ sent[t] = <<>>
  /\ Send(t, "token")
  /\ UNCHANGED <<tables, pc, sid, stored, history, scope, sources, permits, deletes, held, fpc>>

BeginGenerate(t) ==
  /\ pc[t] = "generate" /\ Kind(t) = "item"
  /\ permits > 0
  /\ permits' = permits - 1
  /\ Goto(t, "generating")
  /\ UNCHANGED <<tables, sid, stored, history, scope, sources, sent, deletes, held, fpc>>

Generating(t) == pc[t] = IF Kind(t) = "item" THEN "generating" ELSE "generate"

\* Slip: turns outside a batch give back a permit they never took.
ReleaseAny(t) == permits' = permits + 1

Release(t) == permits' = IF Kind(t) = "item" THEN permits + 1 ELSE permits

\* Slip: a soft failure is sent, and the turn goes on.
GenerateGoesOn(t) ==
  /\ Generating(t)
  /\ Release(t)
  /\ Goto(t, "store")
  /\ UNCHANGED sent \/ Send(t, "error")
  /\ UNCHANGED <<tables, sid, stored, history, scope, sources, deletes, held, fpc>>

\* Slip: the permit is given back only after an answer.
GenerateLeaks(t) ==
  /\ Generating(t)
  /\ \/ Goto(t, "store") /\ Release(t) /\ UNCHANGED sent
     \/ Answer(t, IF Kind(t) = "stream" THEN "error" ELSE "llm_error") /\ UNCHANGED permits
     \/ Fail(t) /\ UNCHANGED permits
  /\ UNCHANGED <<tables, sid, stored, history, scope, sources, deletes, held, fpc>>

\* The LLM answers, returns a soft failure string, or raises.
Generate(t) ==
  /\ Generating(t)
  /\ Release(t)
  /\ \/ Goto(t, "store") /\ UNCHANGED sent
     \/ Answer(t, IF Kind(t) = "stream" THEN "error" ELSE "llm_error")
     \/ Fail(t)
  /\ UNCHANGED <<tables, sid, stored, history, scope, sources, deletes, held, fpc>>

\* A single-document item is compare-style: no history in its prompt, and its
\* turn is not stored.
CompareStyle(t) == Kind(t) = "item" /\ Cardinality(Request[t].docs) = 1

\* Slip: a turn's two messages are stored one after the other.
StoreSplit(t) ==
  /\ pc[t] = "store"
  /\ \E parts \in {<<"user">>, <<"user", "assistant">>} :
       messages' = [messages EXCEPT ![sid[t]] =
                      @ \o [i \in 1..Len(parts) |-> Message(t, parts[i])]]
  /\ stored' = stored \union {t}
  /\ Goto(t, "complete")
  /\ UNCHANGED <<rows, owner, links, feedback, sid, history, scope, sources, sent,
                 permits, deletes, held, fpc>>

\* store_chat_turn, or its failure, which is only logged.
Store(t) ==
  /\ pc[t] = "store"
  /\ \/ /\ ~CompareStyle(t)
        /\ messages' = [messages EXCEPT ![sid[t]] =
                          @ \o <<Message(t, "user"), Message(t, "assistant")>>]
        /\ stored' = stored \union {t}
     \/ UNCHANGED <<messages, stored>>
  /\ Goto(t, "complete")
  /\ UNCHANGED <<rows, owner, links, feedback, sid, history, scope, sources, sent,
                 permits, deletes, held, fpc>>

\* Slip: message_id is made up before the store.
RespondWithId(t) ==
  /\ pc[t] = "complete"
  /\ IF Kind(t) = "stream"
     THEN Goto(t, "marker") /\ Send(t, "complete_with_id")
     ELSE Answer(t, "ok")
  /\ UNCHANGED <<tables, sid, stored, history, scope, sources, permits, deletes, held, fpc>>

\* The answer; of a stream the complete event, with message_id if the store
\* returned one, and then the legacy marker.
Respond(t) ==
  /\ pc[t] = "complete"
  /\ IF Kind(t) = "stream"
     THEN Goto(t, "marker") /\ Send(t, IF t \in stored THEN "complete_with_id" ELSE "complete")
     ELSE Answer(t, "ok")
  /\ UNCHANGED <<tables, sid, stored, history, scope, sources, permits, deletes, held, fpc>>

Marker(t) ==
  /\ pc[t] = "marker"
  /\ Answer(t, "done")
  /\ UNCHANGED <<tables, sid, stored, history, scope, sources, permits, deletes, held, fpc>>

\* The client leaves a stream: CancelledError at the await it is in.
Cancel(t) ==
  /\ Kind(t) = "stream" /\ pc[t] \in Streaming
  /\ Goto(t, "cancelled")
  /\ UNCHANGED <<tables, sid, stored, history, scope, sources, sent, permits, deletes, held, fpc>>

-----------------------------------------------------------------------------
(* Deletes and feedback.                                                   *)

\* The messages a delete of the session removes.
Removed(s) == {m \in ToSet(messages[s]) : Tenant(m.turn) = owner[s]}

\* message_id is ON DELETE SET NULL.
Cleared(gone) == {IF f.about \in gone THEN [f EXCEPT !.about = None] ELSE f : f \in feedback}

\* delete_session_record: one transaction, with the cascade to
\* session_documents.
DeleteSession(n, s) ==
  /\ deletes[s] < MaxDeletes
  /\ owner[s] = n
  /\ messages' = [messages EXCEPT ![s] = Kept(@, ToSet(@) \ Removed(s))]
  /\ feedback' = Cleared({m.turn : m \in Removed(s)})
  /\ owner' = [owner EXCEPT ![s] = None]
  /\ links' = {l \in links : l[1] # s}
  /\ deletes' = [deletes EXCEPT ![s] = @ + 1]
  /\ UNCHANGED <<rows, turnVars, held, fpc>>

\* delete_document drops the row and the session links of the document.
DeleteDocument(d) ==
  /\ d \in rows
  /\ rows' = rows \ {d}
  /\ links' = {l \in links : l[2] # d}
  /\ UNCHANGED <<owner, messages, feedback, turnVars, deletes, held, fpc>>

\* create_feedback: the session, then the message, then the row.  Feedback that
\* names no message skips the second check; `about` is the turn of the message.
FeedbackSession(i, n, s) ==
  /\ fpc[i].at = "new"
  /\ \E about \in stored \union {None} :
       fpc' = [fpc EXCEPT ![i] =
                 [at |-> IF owner[s] # n THEN "done"
                         ELSE IF about = None THEN "insert" ELSE "message",
                  by |-> n, session |-> s, about |-> about]]
  /\ UNCHANGED <<tables, turnVars, deletes, held>>

\* Slip: any message of the tenant will do.
AnyMessage(f) == \E s \in SessionIds : Message(f.about, "assistant") \in ToSet(messages[s])

\* _validate_message: a message of this tenant in this session.
ValidMessage(f) ==
  /\ Tenant(f.about) = f.by
  /\ Message(f.about, "assistant") \in ToSet(messages[f.session])

FeedbackMessage(i) ==
  /\ fpc[i].at = "message"
  /\ fpc' = [fpc EXCEPT ![i].at = IF ValidMessage(fpc[i]) THEN "insert" ELSE "done"]
  /\ UNCHANGED <<tables, turnVars, deletes, held>>

\* create_retrieval_feedback: message_id is a foreign key, session_id is none.
MessageExists(m) == \E s \in SessionIds : Message(m, "assistant") \in ToSet(messages[s])
FeedbackInsert(i) ==
  /\ fpc[i].at = "insert"
  /\ fpc' = [fpc EXCEPT ![i].at = "done"]
  /\ LET f == fpc[i] IN
     feedback' = IF f.about = None \/ MessageExists(f.about)
                 THEN feedback \union {[id |-> i, by |-> f.by, session |-> f.session, about |-> f.about]}
                 ELSE feedback
  /\ UNCHANGED <<rows, owner, links, messages, turnVars, deletes, held>>

-----------------------------------------------------------------------------
Step(t) ==
  \/ AssertOwned(t) \/ GetSession(t) \/ InsertSession(t) \/ SelectSession(t)
  \/ CreateFresh(t) \/ BindCheck(t) \/ Link(t)
  \/ LoadHistory(t) \/ BeginTransform(t) \/ EndTransform(t)
  \/ ResolveScope(t) \/ Search(t) \/ Token(t) \/ BeginGenerate(t) \/ Generate(t)
  \/ Store(t) \/ Respond(t) \/ Marker(t)

Next ==
  \/ \E t \in Turns : Step(t) \/ Cancel(t)
  \/ EmbedBatch
  \/ \E n \in Tenants, s \in Names : DeleteSession(n, s)
  \/ \E d \in Deletable : DeleteDocument(d)
  \/ \E i \in 1..MaxFeedback :
       \/ \E n \in Tenants, s \in Names : FeedbackSession(i, n, s)
       \/ FeedbackMessage(i) \/ FeedbackInsert(i)

Spec == Init /\ [][Next]_vars

\* The event loop resumes every await: database and LLM calls return or time
\* out, and the semaphore's waiters are woken.
FairSpec ==
  /\ Spec
  /\ \A t \in Turns : WF_vars(Step(t))
  /\ WF_vars(EmbedBatch)
=============================================================================
