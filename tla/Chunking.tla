------------------------------ MODULE Chunking ------------------------------
(***************************************************************************)
(* From the text of a document to its chunk records: pages cleaned and     *)
(* joined (extraction_service.py), blocks split by sentences or windows    *)
(* (ingestion_pipeline.py), texts embedded in batches through the cache    *)
(* (embedding_service.py), each chunk with its offsets, its page and its   *)
(* vector.                                                                 *)
(*                                                                         *)
(* Text is measured, not spelt: a page is the length of its cleaned text,  *)
(* a span or a chunk the offsets [from, to) of its characters.             *)
(***************************************************************************)
EXTENDS Lists

CONSTANT ProgressBatch   \* _EMBEDDING_PROGRESS_BATCH_SIZE
ASSUME BatchesAdvance == ProgressBatch \in Nat \ {0}

Span(from, to) == [from |-> from, to |-> to]
Length(s) == s.to - s.from
Largest(S) == CHOOSE x \in S : \A y \in S : y <= x
Moved(spans, base) == [i \in DOMAIN spans |-> Span(base + spans[i].from, base + spans[i].to)]

-----------------------------------------------------------------------------
(* The pages.                                                              *)

\* Slip: the separator is in the text but not in the boundaries.
AddPageUnseparated(b, page, length) ==
  IF length = 0 THEN b
  ELSE LET from == IF b = <<>> THEN 0 ELSE Last(b).to
       IN Append(b, [page |-> page, from |-> from, to |-> from + length])

\* A page that is blank once cleaned goes, the others are joined by one character.
AddPage(b, page, length) ==
  IF length = 0 THEN b
  ELSE LET from == IF b = <<>> THEN 0 ELSE Last(b).to + 1
       IN Append(b, [page |-> page, from |-> from, to |-> from + length])

\* prepare_extracted_document_for_chunking.
Pages(pages) ==
  LET joined[n \in 0 .. Len(pages)] == IF n = 0 THEN <<>> ELSE AddPage(joined[n - 1], n, pages[n])
  IN joined[Len(pages)]

\* _resolve_page_number: bisect_right of the starts.
PageAt(offset, boundaries) ==
  LET before == {i \in DOMAIN boundaries : boundaries[i].from <= offset}
  IN boundaries[IF before = {} THEN 1 ELSE Largest(before)].page

-----------------------------------------------------------------------------
(* The splitters.                                                          *)

\* The module's own character splitter, used without langchain: windows of `size`
\* whose starts are size - overlap apart, up to the first that reaches the end.
Windows(length, size, overlap) ==
  LET step == IF size > overlap THEN size - overlap ELSE 1
      wanted == {k \in 0 .. length : k = 0 \/ (k - 1) * step + size < length}
  IN [n \in 1 .. Cardinality(wanted) |->
        Span((n - 1) * step, IF (n - 1) * step + size < length THEN (n - 1) * step + size ELSE length)]

\* _rebase_documents, _split_large_sentence.
Rebased(span, size, overlap) == Moved(Windows(Length(span), size, overlap), span.from)

\* ParagraphChunkingStrategy, one block.
Paragraph(block, size, overlap) ==
  IF Length(block) <= size THEN <<block>> ELSE Rebased(block, size, overlap)

\* Slip: without overlap, a sentence is skipped.
NextTooFar(spans, first, last, overlap) ==
  IF overlap = 0 THEN last + 2
  ELSE LET back == Largest({k \in first .. last : k = first \/ spans[last].to - spans[k].from >= overlap})
       IN IF back > first THEN back ELSE first + 1

\* _next_start_index: back until the overlap is reached, but always forward.
NextStart(spans, first, last, overlap) ==
  IF overlap = 0 THEN last + 1
  ELSE LET back == Largest({k \in first .. last : k = first \/ spans[last].to - spans[k].from >= overlap})
       IN IF back > first THEN back ELSE first + 1

\* A turn of the loop: sentences while they fit, a sentence that is too large by itself.
Chunked(s, spans, size, overlap) ==
  LET n == Len(spans)
      first == s.next
      end == Largest({j \in first .. n : j = first \/ spans[j].to - spans[first].from <= size})
  IN IF first > n THEN s
     ELSE IF Length(spans[first]) > size
     THEN [next |-> first + 1, chunks |-> s.chunks \o Rebased(spans[first], size, overlap)]
     ELSE [next |-> IF end = n THEN n + 1 ELSE NextStart(spans, first, end, overlap),
           chunks |-> Append(s.chunks, Span(spans[first].from, spans[end].to))]

\* SemanticChunkingStrategy, one block: the loop makes a turn per sentence at most.
Semantic(spans, size, overlap) ==
  LET loop[k \in 0 .. Len(spans)] ==
        IF k = 0 THEN [next |-> 1, chunks |-> <<>>] ELSE Chunked(loop[k - 1], spans, size, overlap)
  IN loop[Len(spans)].chunks

-----------------------------------------------------------------------------
(* The vectors.  A vector is the text it was made of.                      *)

\* Slip: the vectors of the misses go to the first places.
EmbeddingsByPlace(texts, cached) ==
  LET misses == {i \in DOMAIN texts : texts[i] \notin cached}
  IN At(texts, misses) \o At(texts, DOMAIN texts \ misses)

\* get_embeddings: hits at their places, the misses embedded in one call.
Embeddings(texts, cached) ==
  LET misses == At([i \in DOMAIN texts |-> i], {i \in DOMAIN texts : texts[i] \notin cached})
      vectors == [n \in DOMAIN misses |-> texts[misses[n]]]
  IN [i \in DOMAIN texts |-> IF texts[i] \in cached THEN texts[i]
                             ELSE vectors[CHOOSE n \in DOMAIN misses : misses[n] = i]]

\* _embed_documents_with_progress: batch after batch; what a batch set is in the
\* cache for the next.
EmbedAll(texts, cached) ==
  LET From[i \in 1 .. Len(texts) + ProgressBatch] ==
        IF i > Len(texts) THEN <<>>
        ELSE LET end == IF i + ProgressBatch - 1 < Len(texts) THEN i + ProgressBatch - 1 ELSE Len(texts)
             IN Embeddings(SubSeq(texts, i, end), cached \union {texts[j] : j \in 1 .. i - 1})
                  \o From[i + ProgressBatch]
  IN From[1]

\* _build_chunk_records.
Records(chunks, vectors, boundaries) ==
  [i \in DOMAIN chunks |-> [index |-> i - 1, from |-> chunks[i].from, to |-> chunks[i].to,
                            vector |-> vectors[i], page |-> PageAt(chunks[i].from, boundaries)]]

-----------------------------------------------------------------------------
Covers(chunks, span) == \A p \in span.from .. span.to - 1 : \E i \in DOMAIN chunks : p \in chunks[i].from .. chunks[i].to - 1

\* A sentence after another, one character apart.
Sentences(lengths) ==
  [i \in DOMAIN lengths |-> Span(Sums(lengths)[i - 1] + i - 1, Sums(lengths)[i] + i - 1)]

\* No chunk is over the size or outside the block, and every one starts after the
\* one before it.
Advances(chunks, block, size) ==
  \A i \in DOMAIN chunks :
    /\ chunks[i].from >= block.from /\ chunks[i].to <= block.to
    /\ Length(chunks[i]) \in 1 .. size
    /\ i > 1 => chunks[i - 1].from < chunks[i].from

\* No character of a sentence is lost between two chunks, no chunk is over the size
\* or outside the block, and every chunk starts after the one before it.
TextCovered(lengths, base, size, overlap) ==
  LET spans == Moved(Sentences(lengths), base)
      block == Span(base, spans[Len(spans)].to)
      semantic == Semantic(spans, size, overlap)
      paragraph == Paragraph(block, size, overlap)
  IN /\ \A i \in DOMAIN spans : Covers(semantic, spans[i])
     /\ Covers(paragraph, block)
     /\ Advances(semantic, block, size) /\ Advances(paragraph, block, size)

\* Every character of a page is found on that page by its offset in the joined text.
PagesLineUp(pages) ==
  LET boundaries == Pages(pages)
      before == Sums([n \in DOMAIN pages |-> IF pages[n] > 0 THEN pages[n] + 1 ELSE 0])
  IN \A n \in DOMAIN pages : \A o \in 0 .. pages[n] - 1 : PageAt(before[n - 1] + o, boundaries) = n

\* Every record has the vector of its own text, whatever was cached and however
\* often the text occurs.
VectorsMatch(texts, cached) ==
  LET chunks == [i \in DOMAIN texts |-> Span(i - 1, i)]
      records == Records(chunks, EmbedAll(texts, cached), <<[page |-> 1, from |-> 0, to |-> 9]>>)
  IN \A i \in DOMAIN texts : records[i].vector = texts[i] /\ records[i].index = i - 1
=============================================================================
