--------------------------- MODULE ChatProperties ---------------------------
(* What must hold of chat turns, sessions and feedback (module Chat).      *)
EXTENDS Chat

TypeOK ==
  /\ rows \subseteq Docs
  /\ owner \in [SessionIds -> Tenants \union {None}]
  /\ links \subseteq SessionIds \X Docs
  /\ \A s \in SessionIds : messages[s] \in Seq([turn : Turns, role : Roles])
  /\ sid \in [Turns -> SessionIds \union {None}]
  /\ scope \in [Turns -> SUBSET Docs] /\ sources \in [Turns -> SUBSET Docs]
  /\ stored \subseteq Turns
  /\ permits \in 0..LlmLimit

\* A turn is stored whole or not at all, its question first, whatever runs beside
\* it.  What a request loads is cut to its limit, so an odd limit may begin with a
\* lone answer; no other message is ever read without the rest of its turn.
Whole(seq) == \A i \in 1..Len(seq) : (i % 2 = 1) =>
  i < Len(seq) /\ seq[i].turn = seq[i + 1].turn /\ seq[i].role = "user" /\ seq[i + 1].role = "assistant"
WholeButFirst(seq) ==
  /\ Len(seq) > 0 /\ seq[1].role = "assistant"
  /\ \A i \in 1..Len(seq) : (i % 2 = 0) =>
       i < Len(seq) /\ seq[i].turn = seq[i + 1].turn /\ seq[i].role = "user" /\ seq[i + 1].role = "assistant"
CutTo(seq, n) == Whole(seq) \/ (n % 2 = 1 /\ Len(seq) = n /\ WholeButFirst(seq))
TurnsAreWhole ==
  /\ \A s \in SessionIds : Whole(messages[s])
  /\ \A t \in Turns : CutTo(history[t], Limit(t))

\* No turn is shown a message of another tenant.
HistoryIsOwn ==
  \A t \in Turns : \A i \in 1..Len(history[t]) : Tenant(history[t][i].turn) = Tenant(t)

\* Answers are made from the tenant's own documents.
SourcesAreOwn == \A t \in Turns : \A d \in sources[t] : DocOwner[d] = Tenant(t)

\* Feedback about a message is feedback of that message's tenant and session.
FeedbackLinked ==
  \A f \in feedback : f.about # None =>
    Tenant(f.about) = f.by /\ Message(f.about, "assistant") \in ToSet(messages[f.session])

\* Tenants stay apart in all that a turn reads and a feedback refers to,
\* although session ids are chosen by callers and outlive their sessions'
\* deletes (get_session_history, get_document, _validate_message).
TenantsApart == HistoryIsOwn /\ SourcesAreOwn /\ FeedbackLinked

\* Concurrent first uses of a session id converge on it: a turn gets a fresh
\* session only if another tenant has held the id it asked for.
FreshOnlyForForeign ==
  \A t \in Turns :
    sid[t] = t /\ Request[t].name # None => held[Request[t].name] \ {Tenant(t)} # {}

\* message_id is only told of a stored answer, and nothing is stored of a turn
\* that ended in an error.
ToldAsStored ==
  \A t \in Turns :
    /\ "complete_with_id" \in ToSet(sent[t]) => t \in stored
    /\ ToSet(sent[t]) \intersect {"error", "failed", "llm_error", "scope_error", "not_found"} # {}
         => t \notin stored

\* The event contract of /chat/stream: tokens, then either complete and done, or
\* one error; nothing follows it.
Completes == {"complete", "complete_with_id"}
StreamContract ==
  \A t \in Turns : Kind(t) = "stream" => LET e == sent[t] IN
    \A i \in 1..Len(e) :
      /\ e[i] \in {"error", "failed", "not_found", "done"} => i = Len(e)
      /\ e[i] \in Completes => i = Len(e) \/ e[i + 1] = "done"
      /\ e[i] = "done" => i > 1 /\ e[i - 1] \in Completes

\* What the client was told of its turn, in the order it was told, is what was
\* done with it, whichever call of the turn failed or was cancelled.
TellsWhatWasStored == ToldAsStored /\ StreamContract

\* Every permit of the batch LLM semaphore is free or with an item at work: none
\* is released twice, and a failed item gives its permit back.
PermitsKept ==
  /\ TypeOK
  /\ permits + Cardinality({t \in Turns : pc[t] \in {"transforming", "generating"}}) = LlmLimit

\* Every turn ends: it is answered, or its client has left.
EveryTurnEnds == <>(\A t \in Turns : pc[t] \in Over)
=============================================================================
