------------------------------ MODULE Retrieval ------------------------------
(***************************************************************************)
(* The documents a question may search and the chunks that come back       *)
(* (retrieval_service.py, sqlalchemy_service.py, chat_service.py): scope,  *)
(* tenant and metadata filter; vector and hybrid search of each document;  *)
(* the merge of all queries' hits, its order and its cut.                  *)
(*                                                                         *)
(* Scores are small integers; a fused score is a multiple of 1/Common.     *)
(***************************************************************************)
EXTENDS Lists

\* The documents by their ids, each with its owner, its status and the value of its
\* metadata key, and the place of its id among the ids.
CONSTANTS Corpus, DocOrder

Docs == DOMAIN Corpus

ASSUME DocsAreOrdered ==
  /\ IsFiniteSet(Docs)
  /\ \A d \in Docs : DocOrder[d] \in Nat
  /\ \A d, e \in Docs : DocOrder[d] = DocOrder[e] => d = e

NoFilter == {}   \* metadata_filter: the values allowed of its key, if it is given

-----------------------------------------------------------------------------
(* Which documents are searched.                                           *)

\* resolve_scoped_doc_ids.
Scoped(scope, requested, linked, registered) ==
  CASE scope = "session" /\ linked # <<>> /\ requested # <<>> ->
         At(requested, {i \in DOMAIN requested : requested[i] \in ToSet(linked)})
    [] scope = "session" /\ linked # <<>> /\ requested = <<>> -> linked
    [] scope = "tenant" /\ registered # <<>> -> registered
    [] OTHER -> requested

\* filter_doc_ids_for_tenant: an empty registry filters nothing.
OfTenant(docs, registered) ==
  IF registered = <<>> THEN docs ELSE At(docs, {i \in DOMAIN docs : docs[i] \in ToSet(registered)})

\* filter_document_ids_by_metadata.
Matching(docs, filter) ==
  At(docs, {i \in DOMAIN docs : Corpus[docs[i]].owner = "own" /\ Corpus[docs[i]].dept \in filter})

\* _resolve_retrieval_doc_ids.
Searched(scope, requested, linked, registered, filter) ==
  LET docs == OfTenant(Scoped(scope, requested, linked, registered), registered)
  IN IF filter = NoFilter THEN docs ELSE Matching(docs, filter)

\* _scope_error.
ScopeFails(docs, requested, filter) ==
  \/ filter # NoFilter /\ ToSet(docs) \cap ToSet(requested) = {}
  \/ docs = <<>>

-----------------------------------------------------------------------------
(* The search of one document.  `vector` and `keyword` are partial         *)
(* functions from keys <<document, index>> to scores; a chunk that does    *)
(* not match the keywords has no keyword score.                            *)

\* Slip: the tenant is not in the WHERE.
VisibleToAll(doc) == Corpus[doc].status = "completed"

\* The rows a search may return.
Visible(doc) == Corpus[doc].status = "completed" /\ Corpus[doc].owner = "own"

\* The keys by score, those with the same as they are stored.
ByScore(keys, scores) ==
  {p \in keys \X keys : \/ scores[p[1]] > scores[p[2]]
                        \/ scores[p[1]] = scores[p[2]] /\ p[1][2] < p[2][2]}

\* _find_vector_chunks and _find_keyword_chunks: ORDER BY score, LIMIT.
Best(doc, scores, limit) ==
  LET keys == {k \in DOMAIN scores : k[1] = doc}
  IN IF Visible(doc) THEN Take(InOrder(keys, ByScore(keys, scores)), limit) ELSE <<>>

Common == 61 * 62 * 63 * 64
RankOf(k, list) == IF k \in ToSet(list) THEN CHOOSE i \in DOMAIN list : list[i] = k ELSE 0

\* What a list adds to the score of a key: 1 / (60 + rank).
Share(k, list) == IF RankOf(k, list) = 0 THEN 0 ELSE Common \div (60 + RankOf(k, list))

\* Slip: the score of the last list replaces the others.
FusedLast(k, lists) == IF RankOf(k, lists[2]) = 0 THEN Share(k, lists[1]) ELSE Share(k, lists[2])

\* reciprocal_rank_fusion_scores.
Fused(k, lists) == Sum([n \in DOMAIN lists |-> Share(k, lists[n])])

\* The fused order of ranked lists; equal scores stay as they were met.
Fuse(lists, limit) ==
  LET met == Joined(lists)
      keys == FirstOf(met, met)
      ahead == {p \in Pairs(keys) : Fused(keys[p[1]], lists) > Fused(keys[p[2]], lists)}
  IN Take(Ordered(keys, ahead), limit)

\* _search_similar_chunks: vector only, or both with twice the candidates.
Hits(doc, vector, keyword, hybrid, count) ==
  LET lists == <<Best(doc, vector, 2 * count), Best(doc, keyword, 2 * count)>>
      Hit(k, score) == [doc |-> doc, index |-> k[2], score |-> score]
  IN IF hybrid
     THEN LET keys == Fuse(lists, count) IN [i \in DOMAIN keys |-> Hit(keys[i], Fused(keys[i], lists))]
     ELSE LET keys == Best(doc, vector, count) IN [i \in DOMAIN keys |-> Hit(keys[i], vector[keys[i]])]

-----------------------------------------------------------------------------
(* The merge.                                                              *)

\* _chunk_global_order_key.
Before(c, d) ==
  \/ c.score > d.score
  \/ c.score = d.score /\ DocOrder[c.doc] < DocOrder[d.doc]
  \/ c.score = d.score /\ c.doc = d.doc /\ c.index < d.index

\* Slip: the chunks of two documents are told apart by their index alone.
ChunkKeyIndex(c) == c.index

\* What tells chunks apart.
ChunkKey(c) == <<c.doc, c.index>>

\* retrieve_for_documents, up to the reranker: every query searches every document,
\* the first hit of a chunk is kept.
Candidates(docs, queries, keyword, hybrid, count) ==
  LET OfQuery(q) == Joined([i \in DOMAIN docs |-> Hits(docs[i], queries[q], keyword, hybrid, count)])
      hits == Joined([q \in DOMAIN queries |-> OfQuery(q)])
      chunks == FirstOf(hits, [i \in DOMAIN hits |-> ChunkKey(hits[i])])
  IN Ordered(chunks, {p \in Pairs(chunks) : Before(chunks[p[1]], chunks[p[2]])})

\* ... and with no reranker.
Retrieved(docs, queries, keyword, hybrid, count) ==
  Take(Candidates(docs, queries, keyword, hybrid, count), count)

-----------------------------------------------------------------------------
\* What a question can read is the tenant's own completed documents, whatever is
\* requested, linked or missing from the registry; within the session's documents
\* when it has any, and within the filter, of which a requested one is left.
SearchScoped(scope, requested, linked, registered, filter) ==
  LET docs == Searched(scope, requested, linked, registered, filter)
      score == [k \in Docs \X {0} |-> 1]
      read == UNION {{c.doc : c \in ToSet(Candidates(docs, <<score>>, score, hybrid, 1))} : hybrid \in BOOLEAN}
  IN ScopeFails(docs, requested, filter) \/
     /\ \A d \in read : Corpus[d].owner = "own" /\ Corpus[d].status = "completed"
     /\ scope = "session" /\ linked # <<>> => read \subseteq ToSet(linked)
     /\ scope = "session" => read \subseteq ToSet(requested) \/ requested = <<>>
     /\ filter # NoFilter => /\ \A d \in read : Corpus[d].dept \in filter
                             /\ ToSet(requested) \cap ToSet(docs) # {}

\* One list comes of all queries and documents: no chunk twice, `count` of them if
\* there are as many, the better scores first; with one query, none that was left
\* out has a better score than one that is in.
RetrievalRanks(docs, queries, count) ==
  LET got == Retrieved(docs, queries, queries[1], FALSE, count)
      keys == {<<c.doc, c.index>> : c \in ToSet(got)}
      all == DOMAIN queries[1]
      top == IF got = <<>> THEN 0 ELSE got[Len(got)].score
  IN /\ Cardinality(keys) = Len(got)
     /\ Len(got) = IF count < Cardinality(all) THEN count ELSE Cardinality(all)
     /\ \A i, j \in DOMAIN got : i < j => got[i].score >= got[j].score
     /\ Len(queries) = 1 => \A k \in all \ keys : queries[1][k] <= top

\* A chunk that ranks no worse than another by meaning and by words, and better by
\* one, is ahead of it in the fused list, and in it if the other is.
FusionRespects(doc, vector, keyword, count) ==
  LET lists == <<Best(doc, vector, 2 * count), Best(doc, keyword, 2 * count)>>
      hits == Hits(doc, vector, keyword, TRUE, count)
      fused == [i \in DOMAIN hits |-> <<hits[i].doc, hits[i].index>>]
      NoWorse(k, l, list) == RankOf(l, list) = 0 \/ (RankOf(k, list) # 0 /\ RankOf(k, list) <= RankOf(l, list))
  IN \A k, l \in DOMAIN vector :
       /\ k # l /\ l \in ToSet(fused)
       /\ \A n \in 1 .. 2 : NoWorse(k, l, lists[n])
       => k \in ToSet(fused) /\ RankOf(k, fused) < RankOf(l, fused)
=============================================================================
