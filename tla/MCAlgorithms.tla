----------------------------- MODULE MCAlgorithms -----------------------------
(***************************************************************************)
(* The pure functions of the system over bounded inputs: a step takes one  *)
(* input of one of them, and the invariants compare what the function      *)
(* makes of it with what it promises.                                      *)
(***************************************************************************)
EXTENDS DbCalls, QueryTransform, Retrieval, Selection, Chunking, Sse

Config == INSTANCE RetrievalConfig
History == INSTANCE TurnHistory

VARIABLE case

Of(kind) == case.kind = kind

Init == case = [kind |-> "none"]

\* The outcomes the four attempts of a call would have, and an exception.
TakeCall == \E op \in Operations, outcomes \in [1 .. MaxRetries + 1 -> Outcomes] :
              case' = [kind |-> "call", op |-> op, outcomes |-> outcomes]
TakeException == \E e \in Exceptions : case' = [kind |-> "exception", e |-> e]

\* A batch item over its batch, with the process's transformation settings.
Layers == [top : Config!FieldSets, nested : Config!FieldSets,
           preset : {Config!NoPreset} \union DOMAIN Config!Presets]
TakeLayers ==
  \E item, batch \in Layers, enabled \in BOOLEAN :
    /\ item.preset = Config!NoPreset \/ batch.top = Config!NoFields
    /\ case' = [kind |-> "layers", item |-> item, batch |-> batch,
                env |-> [enabled |-> enabled, strategy |-> "expand"]]

\* A session of up to five messages, the windows of a turn and its budget.
Sessions == UNION {[1 .. n -> 0 .. 2] : n \in 0 .. 5}
TakeTurn ==
  \E n \in 0 .. 5, item, batch \in -1 .. 3, env \in -1 .. 5, floor \in {-1, 0, 2, 6} :
    case' = [kind |-> "turn", session |-> [i \in 1 .. n |-> i], item |-> item, batch |-> batch,
             env |-> env, floor |-> floor]
TakeBudget == \E messages \in Sessions, max \in {-1} \union 1 .. 5 :
                case' = [kind |-> "budget", messages |-> messages, max |-> max]
TakePolicy == \E skip, envAware, transformation \in BOOLEAN, aware \in {"unset", "yes", "no"} :
                case' = [kind |-> "policy", skip |-> skip, envAware |-> envAware,
                         transformation |-> transformation, aware |-> aware]

\* An answer of the LLM to a question, and one to a follow-up.
Answers == UNION {[1 .. n -> Phrases \union {Blank}] : n \in 0 .. 4}
Resolutions == {Failed, <<"q">>, <<"r">>}
TakeAnswer == \E answer \in Answers : case' = [kind |-> "answer", answer |-> answer]
TakeQuery ==
  \E asked, apply \in BOOLEAN, resolution \in Resolutions, answer \in Answers,
     strategy \in {"none", "rewrite", "expand", "stepback"} :
    /\ Len(answer) <= 2
    /\ case' = [kind |-> "query", asked |-> asked, apply |-> apply, resolution |-> resolution,
                answer |-> answer, strategy |-> strategy]
TakeFollowUp ==
  \E shape \in Questions, history \in BOOLEAN, resolution \in Resolutions,
     policy \in {"never", "gated", "always"} :
    case' = [kind |-> "follow_up", shape |-> shape, history |-> history, resolution |-> resolution,
             policy |-> policy]

\* A turn's stream whose connection ends after `cut` lines, and a status stream.
TakeStream ==
  \E tokens \in UNION {[1 .. n -> {"hi", "[DONE]"}] : n \in 0 .. 2}, code \in Codes,
     cut \in 0 .. 12, torn \in Tears, lost \in BOOLEAN :
    /\ cut <= 3 * Len(TurnEvents(tokens, code))
    /\ case' = [kind |-> "stream", tokens |-> tokens, code |-> code, cut |-> cut, torn |-> torn,
                lost |-> lost]
TakePolls == \E rows \in [1 .. MaxPolls -> Rows] :
               case' = [kind |-> "polls", rows |-> rows]

\* Three documents of the tenant, one of which is not completed, and one foreign.
MCCorpus ==
  [a |-> [owner |-> "own", status |-> "completed", dept |-> "legal"],
   b |-> [owner |-> "own", status |-> "completed", dept |-> "hr"],
   p |-> [owner |-> "own", status |-> "processing", dept |-> "legal"],
   f |-> [owner |-> "other", status |-> "completed", dept |-> "legal"]]
MCDocOrder == [a |-> 1, b |-> 2, f |-> 3, p |-> 4]

\* The documents a question names, the session's and the registry's; the scores of
\* two chunks per document for one or two queries; the two rankings of four chunks.
ListsOf(docs) == {s \in UNION {[1 .. n -> docs] : n \in 0 .. 2} : Len(s) = 2 => s[1] # s[2]}
Own == {d \in Docs : Corpus[d].owner = "own"}
TakeScope ==
  \E scope \in {"session", "tenant"}, requested \in ListsOf(Docs), linked, registered \in ListsOf(Own),
     filter \in {NoFilter, {"legal"}, {"legal", "hr"}} :
    case' = [kind |-> "scope", scope |-> scope, requested |-> requested, linked |-> linked,
             registered |-> registered, filter |-> filter]
Shown == {d \in Docs : Visible(d)}
ById == {p \in Docs \X Docs : DocOrder[p[1]] < DocOrder[p[2]]}
Scores == [Shown \X {0, 1} -> 0 .. 2]
TakeSearch == \E first \in Scores, second \in Scores, single \in BOOLEAN, count \in 1 .. 3 :
                /\ single => second = first
                /\ case' = [kind |-> "search", count |-> count, docs |-> InOrder(Shown, ById),
                            queries |-> IF single THEN <<first>> ELSE <<first, second>>]
TakeFusion ==
  \E doc \in Shown, tied \in BOOLEAN, count \in 1 .. 2 :
    \E matched \in SUBSET ({doc} \X (0 .. 3)) :
      \E keyword \in [matched -> 1 .. 3] :
        case' = [kind |-> "fusion", doc |-> doc, keyword |-> keyword, count |-> count,
                 vector |-> [k \in {doc} \X (0 .. 3) |-> IF tied THEN 1 ELSE 4 - k[2]]]

\* Four chunks, the last of a document out of scope, that mention two entities.
GraphChunks == {<<1, 0>>, <<1, 1>>, <<2, 0>>, <<3, 0>>}
TakeGraph ==
  \E mentions \in SUBSET ({1, 2} \X GraphChunks), relations \in {{}, {<<1, 2>>, <<2, 1>>}},
     seeds \in {<<>>, <<<<1, 0>>>>}, limit \in 1 .. 2 :
    case' = [kind |-> "graph", mentions |-> mentions, relations |-> relations, seeds |-> seeds,
             limit |-> limit]
Ranked == UNION {[1 .. n -> [score : 0 .. 2, lexical : 0 .. 1]] : n \in 0 .. 3}
Results == UNION {[1 .. n -> [index : 0 .. 4, score : 0 .. 1]] : n \in 0 .. 2}
Plain == {[i \in 1 .. n |-> [score |-> 1, lexical |-> 0]] : n \in 0 .. 3}
TakeRerank ==
  \E provider \in {"off", "similarity", "cohere"}, scores \in Ranked, results \in Results,
     max, top \in 1 .. 3 :
    /\ IF provider = "cohere" THEN scores \in Plain ELSE results = <<>> /\ max = 1
    /\ case' = [kind |-> "rerank", provider |-> provider, results |-> results, max |-> max, top |-> top,
                candidates |-> [i \in DOMAIN scores |->
                  [id |-> i, score |-> scores[i].score, lexical |-> scores[i].lexical]]]
TakeContext == \E session \in 0 .. 3, chunks \in UNION {[1 .. n -> 1 .. 3] : n \in 0 .. 3}, limit \in 0 .. 8 :
                 case' = [kind |-> "context", session |-> session, chunks |-> chunks, limit |-> limit]
TakeBatch == \E failed \in UNION {[1 .. n -> BOOLEAN] : n \in 1 .. 4} :
               case' = [kind |-> "batch", failed |-> failed]

\* The sentences of a block, the pages of a document, the texts of a document.
TakeBlock ==
  \E lengths \in UNION {[1 .. n -> 1 .. 4] : n \in 1 .. 4}, base \in {0, 3}, size \in 1 .. 6, overlap \in 0 .. 3 :
    case' = [kind |-> "block", lengths |-> lengths, base |-> base, size |-> size, overlap |-> overlap]
TakePages == \E pages \in UNION {[1 .. n -> 0 .. 3] : n \in 0 .. 4} : case' = [kind |-> "pages", pages |-> pages]
TakeTexts == \E texts \in UNION {[1 .. n -> {"x", "y", "z"}] : n \in 0 .. 5}, cached \in SUBSET {"x", "y", "z"} :
               case' = [kind |-> "texts", texts |-> texts, cached |-> cached]

Next ==
  /\ Of("none")
  /\ \/ TakeCall
     \/ TakeException
     \/ TakeLayers
     \/ TakeTurn \/ TakeBudget \/ TakePolicy
     \/ TakeAnswer \/ TakeQuery \/ TakeFollowUp
     \/ TakeStream \/ TakePolls
     \/ TakeScope \/ TakeSearch \/ TakeFusion
     \/ TakeGraph \/ TakeRerank \/ TakeContext \/ TakeBatch
     \/ TakeBlock \/ TakePages \/ TakeTexts

Spec == Init /\ [][Next]_case

-----------------------------------------------------------------------------
\* db/__init__ and utils/retry: a call's own retries insert nothing twice and
\* mask the transient faults of what is safe to repeat; permanent errors are
\* final.
CallsAreSafe ==
  /\ Of("call") => InsertsOnce(case.op, case.outcomes) /\ FaultsMasked(case.op, case.outcomes)
  /\ Of("exception") => PermanentNotRetried(case.e)

\* retrieval_config and query_service: each field comes from the layer that
\* should decide it, and a strategy runs when it is asked for.
ConfigFollowsLayers ==
  Of("layers") => /\ Config!LayersRespected(case.item, case.batch, case.env)
                  /\ Config!TransformationRuns(case.item, case.batch, case.env)

\* history_config: the windows and the character budget count from the newest
\* message of the session, and who opted out of resolution is not resolved.
HistoryFromNewest ==
  /\ Of("turn") => History!WindowsHonoured(case)
  /\ Of("budget") => History!BudgetKeepsNewest(case.messages, case.max)
  /\ Of("policy") =>
       History!OptOutHolds(case.skip, case.aware, case.envAware, case.transformation, <<1, 2>>)

\* query_service: the queries of a retrieval are distinct, use what the LLM
\* answered, keep the references the gate must see, and the trace tells how they
\* came about.
QueriesFollowQuestion ==
  /\ Of("query") => QueriesDistinct(case.asked, case.resolution, case.apply, case.strategy, case.answer)
  /\ Of("answer") => AlternativesUsed(case.answer)
  /\ Of("follow_up") => /\ GateDecides(case.shape, case.history)
                        /\ TraceConsistent(case.policy, case.shape, case.history, case.resolution)

\* chat_service and routes/documents to _sse: a caller sees the tokens that were
\* sent and is told of the failure, wherever the connection is cut; a status
\* stream ends with the document's state.
StreamsConclude ==
  /\ Of("stream") => /\ Faithful(case.tokens, case.code, case.cut, case.torn, case.lost)
                     /\ FailureRaised(case.tokens, case.code, case.cut, case.torn, case.lost)
  /\ Of("polls") => Concludes(case.rows)

\* retrieval_service and graph_retrieval: a question reads its tenant's documents
\* in its scope, and so do the neighbours that are added.
SearchStaysInScope ==
  /\ Of("scope") =>
       SearchScoped(case.scope, case.requested, case.linked, case.registered, case.filter)
  /\ Of("graph") =>
       GraphInScope(case.seeds, case.mentions, case.relations, {1, 2}, case.limit)

\* chat_service, retrieval_service, reranker and context_service: from the
\* merged hits to the context, no chunk is passed over for a worse one.
BestChunksFirst ==
  /\ Of("search") => RetrievalRanks(case.docs, case.queries, case.count)
  /\ Of("fusion") => FusionRespects(case.doc, case.vector, case.keyword, case.count)
  /\ Of("rerank") => RerankKeeps(case.provider, case.candidates, case.results, case.max, case.top)
  /\ Of("context") => ContextLongest(case.session, case.chunks, case.limit)

\* ingestion_pipeline, embedding_service and chat_service: chunks cover the text
\* at their offsets and pages, and every vector and every batch answer is that of
\* its own text or item.
ResultsLineUp ==
  /\ Of("block") => TextCovered(case.lengths, case.base, case.size, case.overlap)
  /\ Of("pages") => PagesLineUp(case.pages)
  /\ Of("texts") => VectorsMatch(case.texts, case.cached)
  /\ Of("batch") => BatchAligned(case.failed)
=============================================================================
