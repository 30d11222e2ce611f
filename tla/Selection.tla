------------------------------ MODULE Selection ------------------------------
(***************************************************************************)
(* What is made of the chunks a retrieval found: neighbours in the entity  *)
(* graph (graph_retrieval.py), the rerankers and the fallback when one     *)
(* fails (reranker/), the context given to the LLM (context_service.py),   *)
(* and the answers of a batch put back at their places (chat_service.py).  *)
(***************************************************************************)
EXTENDS Lists

-----------------------------------------------------------------------------
(* The graph.  `mentions` is a set of pairs <<entity, key>>, a key being   *)
(* <<document, index>>, and `relations` a symmetric relation of entities.  *)

\* The mentions by entity, those of an entity by key.
EntityBefore(m, n) ==
  \/ m[1] < n[1]
  \/ m[1] = n[1] /\ m[2][1] < n[2][1]
  \/ m[1] = n[1] /\ m[2][1] = n[2][1] /\ m[2][2] < n[2][2]
ByEntity(mentions) == {p \in mentions \X mentions : EntityBefore(p[1], p[2])}

\* _neighbor_keys: the chunks that mention an entity of a seed, or one related to
\* it, in the order of the entities.
Neighbours(seeds, mentions, relations) ==
  LET of == {m[1] : m \in {n \in mentions : n[2] \in ToSet(seeds)}}
      near == of \union {e \in {m[1] : m \in mentions} : \E o \in of : <<o, e>> \in relations}
      new == {m \in mentions : m[1] \in near /\ m[2] \notin ToSet(seeds)}
      rows == InOrder(new, ByEntity(new))
      keys == [i \in DOMAIN rows |-> rows[i][2]]
  IN FirstOf(keys, keys)

\* The keys of the documents in scope.
Within(keys, allowed) == At(keys, {i \in DOMAIN keys : keys[i][1] \in allowed})

\* Slip: the limit is taken before the scope.
ExpandLimited(seeds, mentions, relations, allowed, limit) ==
  seeds \o Within(Take(Neighbours(seeds, mentions, relations), limit), allowed)

\* expand_chunks.
ExpandChunks(seeds, mentions, relations, allowed, limit) ==
  IF seeds = <<>> THEN <<>>
  ELSE seeds \o Take(Within(Neighbours(seeds, mentions, relations), allowed), limit)

-----------------------------------------------------------------------------
(* The rerankers.  A candidate is [id, score, lexical]; lexical is 0 or 1. *)

\* SimilarityRerankerProvider: 0.7 of the score over the best one, 0.3 of the words.
Combined(c, best) == IF best > 0 THEN 7 * c.score + 3 * c.lexical * best ELSE 3 * c.lexical
Similarity(candidates, top) ==
  LET best == CHOOSE s \in {c.score : c \in ToSet(candidates)} :
                \A c \in ToSet(candidates) : c.score <= s
      ahead == {p \in Pairs(candidates) :
                  Combined(candidates[p[1]], best) > Combined(candidates[p[2]], best)}
  IN Take(Ordered(candidates, ahead), top)

\* _parse_scores: the answer of the vendor is a list of [index, score].
Parsed(results, sent) ==
  /\ results # <<>>
  /\ \A i \in DOMAIN results : results[i].index \in 1 .. sent
  /\ \A i, j \in DOMAIN results : results[i].index = results[j].index => i = j

\* Slip: what the vendor does not score is left out.
CohereScoredOnly(candidates, results, max) ==
  [i \in DOMAIN results |-> candidates[results[i].index]]

\* CohereRerankerProvider: the scored ones by score, then the others as they were.
Cohere(candidates, results, max) ==
  LET ranked == Ordered(results, {p \in Pairs(results) : results[p[1]].score > results[p[2]].score})
      scored == {r.index : r \in ToSet(results)}
  IN [i \in DOMAIN ranked |-> candidates[ranked[i].index]] \o At(candidates, DOMAIN candidates \ scored)

Lost == <<[index |-> 0, score |-> 0]>>   \* no answer: no key, timeout, HTTP error

\* rerank_chunks_with_debug: a provider that fails leaves the order.
Rerank(provider, candidates, results, max, top) ==
  LET sent == Len(Take(candidates, max))
  IN CASE candidates = <<>> -> <<>>
       [] candidates # <<>> /\ provider = "off" -> candidates
       [] candidates # <<>> /\ provider = "similarity" -> Similarity(candidates, top)
       [] OTHER -> IF Parsed(results, sent) THEN Take(Cohere(candidates, results, max), top)
                   ELSE Take(candidates, top)

-----------------------------------------------------------------------------
(* The context: parts joined by a separator of one character.              *)

\* Slip: the separators are not counted.
FitsBare(parts, part, limit) == Sum(parts) + part <= limit

Fits(parts, part, limit) == Sum(parts) + Len(parts) + part <= limit

\* One chunk: taken, or the context is full.
AddPart(s, part, limit) ==
  IF s.full THEN s
  ELSE IF Fits(s.parts, part, limit) THEN [s EXCEPT !.parts = Append(@, part)]
  ELSE [full |-> TRUE, parts |-> IF s.parts = <<>> THEN <<part>> ELSE s.parts]

\* build_context_from_chunks: the session's part, then chunks while they fit.  The
\* first part is taken whatever its size.
Context(session, chunks, limit) ==
  LET start == [full |-> FALSE, parts |-> IF session = 0 THEN <<>> ELSE <<session>>]
      taken[i \in 0 .. Len(chunks)] == IF i = 0 THEN start ELSE AddPart(taken[i - 1], chunks[i], limit)
  IN taken[Len(chunks)].parts

-----------------------------------------------------------------------------
(* A batch.  An item that failed its setup has its error in its slot; the  *)
(* others go to the service, with the indices they came from.              *)

\* Slip: answers are put at the places they have in the service's list.
MergedByPlace(failed, answers) ==
  [i \in DOMAIN failed |-> IF failed[i] THEN i ELSE IF i <= Len(answers) THEN answers[i] ELSE 0]

\* The items that go to the service.
Served(failed) == At([i \in DOMAIN failed |-> i], {i \in DOMAIN failed : ~failed[i]})

\* merge_batch_results; an answer is the number of the item it is about.
Merged(failed, answers) ==
  LET indices == Served(failed)
  IN [i \in DOMAIN failed |-> IF failed[i] THEN i
                              ELSE answers[CHOOSE n \in DOMAIN indices : indices[n] = i]]

-----------------------------------------------------------------------------
\* The graph adds only chunks of documents in scope, none twice, and as many as the
\* limit allows: a neighbour out of scope takes no place.
GraphInScope(seeds, mentions, relations, allowed, limit) ==
  LET got == ExpandChunks(seeds, mentions, relations, allowed, limit)
      extras == SubSeq(got, Len(seeds) + 1, Len(got))
      possible == {k \in {m[2] : m \in mentions} \ ToSet(seeds) : k[1] \in allowed /\
                     \E m, n \in mentions : n[2] = k /\ m[2] \in ToSet(seeds) /\
                       (m[1] = n[1] \/ <<m[1], n[1]>> \in relations)}
  IN /\ IsPrefix(seeds, got)
     /\ ToSet(extras) \subseteq possible
     /\ Len(extras) = Cardinality(ToSet(extras))
     /\ Len(extras) = IF limit < Cardinality(possible) THEN limit ELSE Cardinality(possible)

\* A reranker reorders and cuts, it never invents, repeats or loses a chunk that
\* there is room for; when it cannot answer, the order is the retrieval's.
RerankKeeps(provider, candidates, results, max, top) ==
  LET got == Rerank(provider, candidates, results, max, top)
      ids == {c.id : c \in ToSet(got)}
      sent == Len(Take(candidates, max))
  IN /\ ToSet(got) \subseteq ToSet(candidates)
     /\ Cardinality(ids) = Len(got)
     /\ provider # "off" => Len(got) = Len(Take(candidates, top))
     /\ provider = "cohere" =>
          IF ~Parsed(results, sent) THEN got = Take(candidates, top)
          ELSE \A c \in ToSet(candidates) :
                 c.id \in {candidates[r.index].id : r \in ToSet(results)} /\ Len(results) <= top => c.id \in ids

\* The context is within its limit unless it is one part; it has the longest run of
\* best chunks that fits, and at least one chunk if there is no session part.
ContextLongest(session, chunks, limit) ==
  LET parts == Context(session, chunks, limit)
      kept == IF session = 0 THEN parts ELSE Tail(parts)
  IN /\ Len(parts) > 1 => Sum(parts) + Len(parts) - 1 <= limit
     /\ IsPrefix(kept, chunks)
     /\ Len(kept) < Len(chunks) =>
          Sum(parts) + Len(parts) + chunks[Len(kept) + 1] > limit
     /\ chunks # <<>> => parts # <<>>

\* Every item of a batch gets its own answer or its own error.
BatchAligned(failed) ==
  \A i \in DOMAIN failed : Merged(failed, Served(failed))[i] = i
=============================================================================
