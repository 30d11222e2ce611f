---------------------------- MODULE QueryTransform ----------------------------
(***************************************************************************)
(* From a question to the queries of a retrieval (query_service.py): the   *)
(* gate before a follow-up is resolved against the history, the resolution, *)
(* and the strategies, with LLM calls that fail or answer nothing.         *)
(*                                                                         *)
(* A phrase is a model string; phrases that differ in case only have the   *)
(* same Key.  An answer of the LLM is the sequence of its lines.           *)
(***************************************************************************)
EXTENDS Naturals, Sequences, FiniteSets, SequencesExt

Phrases == {"q", "Q", "r", "a", "A", "b", "c"}
Key(phrase) == CASE phrase = "Q" -> "q" [] phrase = "A" -> "a" [] OTHER -> phrase

Blank == ""        \* a line that is empty once its list marker is removed
Failed == <<>>     \* _llm_transform: it raised, or the text was empty

-----------------------------------------------------------------------------
(* The strategies.                                                         *)

\* rewrite_query.
Rewrite(question, answer) == IF answer = Failed THEN question ELSE answer[1]

\* Slip: a phrase that only differs in case is another alternative.
TakeLineByCase(question, alternatives, line) ==
  IF line = Blank \/ line = question \/ line \in ToSet(alternatives) \/ Len(alternatives) = 2
  THEN alternatives ELSE Append(alternatives, line)

\* One line of _collect_unique_alternatives.
TakeLine(question, alternatives, line) ==
  IF \/ line = Blank
     \/ Key(line) \in {Key(question)} \union {Key(a) : a \in ToSet(alternatives)}
     \/ Len(alternatives) = 2
  THEN alternatives ELSE Append(alternatives, line)

\* _collect_unique_alternatives.
Alternatives(question, answer) ==
  LET taken[i \in 0 .. Len(answer)] ==
        IF i = 0 THEN <<>> ELSE TakeLine(question, taken[i - 1], answer[i])
  IN taken[Len(answer)]

\* expand_query.
Expand(question, answer) == <<question>> \o Alternatives(question, answer)

\* stepback_query: the answer is one phrase.
StepBack(question, answer) ==
  IF answer = Failed THEN <<question>>
  ELSE IF answer[1] = Blank \/ Key(answer[1]) = Key(question) THEN <<question>>
  ELSE <<question, answer[1]>>

-----------------------------------------------------------------------------
(* The resolution.                                                         *)

(* A question: whether it refers to something earlier, has a cue that the   *)
(* topic changes, is long enough to stand alone, or names a subject.       *)
Questions == [refers : BOOLEAN, switches : BOOLEAN, long : BOOLEAN, names : BOOLEAN]

\* Slip: the cue of a topic switch is looked for first.
NeedsCueFirst(shape, history) ==
  history /\ ~shape.switches /\ (shape.refers \/ (~shape.long /\ ~shape.names))

\* question_needs_history_resolution.
Needs(shape, history) ==
  history /\ (shape.refers \/ (~shape.switches /\ ~shape.long /\ ~shape.names))

\* _call_standalone_resolution: a failed call leaves the question.
Standalone(question, answer) == IF answer = Failed THEN question ELSE answer[1]

\* _resolve_with_policy, and the coupling without a policy: whether the LLM is
\* asked.
Asked(policy, shape, history, enabled) ==
  CASE policy = "none" -> enabled /\ history
    [] policy = "never" -> FALSE
    [] policy = "gated" -> Needs(shape, history)
    [] OTHER -> history

\* Slip: a call that failed counts too.
AppliedWhenAsked(asked, answer) == asked

\* What the trace calls applied: the LLM ran and answered.
Applied(asked, answer) == asked /\ answer # Failed

\* The trace's reason for not resolving.
Skipped(policy, shape, history, asked, answer) ==
  CASE policy = "never" -> "disabled"
    [] policy # "never" /\ ~history -> "empty_history"
    [] policy = "gated" /\ history /\ ~asked ->
         IF shape.switches /\ ~shape.refers THEN "topic_switch" ELSE "standalone_question"
    [] asked /\ answer = Failed -> "llm_failure"
    [] OTHER -> "none"

\* Slip: the strategy gets the question as it was asked.
TransformOriginal(question, asked, resolution, apply, strategy, answer) ==
  [queries |-> IF ~apply \/ strategy = "none" THEN <<Standalone(question, resolution)>>
               ELSE Expand(question, answer),
   resolved |-> IF asked THEN Standalone(question, resolution) ELSE question]

\* transform_query.
Transform(question, asked, resolution, apply, strategy, answer) ==
  LET standalone == IF asked THEN Standalone(question, resolution) ELSE question
  IN [queries |-> CASE ~apply \/ strategy = "none" -> <<standalone>>
                    [] apply /\ strategy = "rewrite" -> <<Rewrite(standalone, answer)>>
                    [] apply /\ strategy = "expand" -> Expand(standalone, answer)
                    [] OTHER -> StepBack(standalone, answer),
      resolved |-> standalone]

-----------------------------------------------------------------------------
\* Retrieval always has one to three queries, no two the same up to case, all
\* made from the resolved question: it is the first of them unless a rewrite
\* took its place.
QueriesDistinct(asked, resolution, apply, strategy, answer) ==
  LET t == Transform("q", asked, resolution, apply, strategy, answer)
  IN /\ Len(t.queries) \in 1 .. 3
     /\ \A i, j \in DOMAIN t.queries : Key(t.queries[i]) = Key(t.queries[j]) => i = j
     /\ strategy # "rewrite" \/ ~apply => t.queries[1] = t.resolved

\* No alternative is lost: what the answer offers beyond the question is used, up
\* to two phrases, in its order.
AlternativesUsed(answer) ==
  LET queries == Expand("q", answer)
      offered == {Key(line) : line \in ToSet(answer) \ {Blank}} \ {"q"}
  IN /\ Len(queries) = 1 + (IF Cardinality(offered) < 2 THEN Cardinality(offered) ELSE 2)
     /\ \A i \in 2 .. Len(queries) :
          \E n \in DOMAIN answer :
            /\ answer[n] = queries[i]
            /\ \A m \in 1 .. n - 1 : answer[m] = Blank \/ Key(answer[m]) \in
                 {"q"} \union {Key(queries[j]) : j \in 2 .. i - 1}

\* A question that points back is never answered without its history because of
\* a cue for a new topic, and one that stands alone costs no call.
GateDecides(shape, history) ==
  /\ shape.refers /\ history => Asked("gated", shape, history, FALSE)
  /\ ~shape.refers /\ (shape.long \/ shape.names \/ shape.switches) =>
       ~Asked("gated", shape, history, TRUE)
  /\ ~history => \A policy \in {"none", "never", "gated", "always"} :
                   ~Asked(policy, shape, history, TRUE)

\* The trace tells one story: applied, a reason, or neither because nothing asked
\* for it; a failed LLM leaves the question as it was.
TraceConsistent(policy, shape, history, resolution) ==
  LET asked == Asked(policy, shape, history, TRUE)
      reason == Skipped(policy, shape, history, asked, resolution)
  IN /\ Applied(asked, resolution) <=> reason = "none"
     /\ reason # "none" => Transform("q", asked, resolution, FALSE, "none", Failed).resolved = "q"
=============================================================================
