----------------------------- MODULE TurnHistory -----------------------------
(***************************************************************************)
(* What a turn sees of its session's history: how many messages are loaded, *)
(* the windows of retrieval and generation, the character budget, and      *)
(* whether the question is resolved against the history                    *)
(* (history_config.py).  A history is the sequence of the sizes of its     *)
(* messages, oldest first.                                                 *)
(***************************************************************************)
EXTENDS Integers, Sequences, FiniteSets, SequencesExt

MaxWindow == 4   \* MAX_HISTORY_WINDOW, 100 in the code

Min2(a, b) == IF a < b THEN a ELSE b
Max2(a, b) == IF a > b THEN a ELSE b

Unset == -1   \* a number the request does not give, or no budget

\* _bounded_window, not strict: a process value is clamped.  A request's is
\* rejected when it is out of bounds.
Clamped(window) == Max2(0, Min2(window, MaxWindow))
ValidWindow(window) == window \in 0 .. MaxWindow

\* merge_history_fields: the item's value of a field, or the batch's.
MergeField(item, batch) == IF item # Unset THEN item ELSE batch

\* resolve_history_config, a window.
Window(field, env) == IF field # Unset THEN field ELSE Clamped(env)

\* Slip: the floor alone is loaded.
LoadFloor(retrieval, generation, floor) == Min2(MaxWindow, Max2(0, floor))

\* history_load_limit.
LoadLimit(retrieval, generation, floor) ==
  Min2(MaxWindow, Max2(0, Max2(floor, Max2(retrieval, generation))))

Newest(s, n) == SubSeq(s, Len(s) - Min2(n, Len(s)) + 1, Len(s))

\* slice_history.
Slice(history, window) ==
  IF Len(history) = 0 \/ window <= 0 THEN <<>> ELSE Newest(history, window)

-----------------------------------------------------------------------------
(* trim_generation_history: the newest first, while the budget lasts.      *)

\* The characters of the messages after each place.
Newer(messages) ==
  LET sum[i \in 0 .. Len(messages)] ==
        IF i = Len(messages) THEN 0 ELSE messages[i + 1] + sum[i + 1]
  IN sum
Total(messages) == Newer(messages)[0]

\* Slip: a message that does not fit is left out, and older ones may follow.
TrimSkips(messages, max) ==
  [kept |-> SelectSeq(messages, LAMBDA m : m <= max),
   truncated |-> \E i \in DOMAIN messages : messages[i] > max]

Trim(messages, max) ==
  IF max = Unset \/ Len(messages) = 0 THEN [kept |-> messages, truncated |-> FALSE]
  ELSE LET reached == {i \in DOMAIN messages : Newer(messages)[i] < max}
           first == Len(messages) - Cardinality(reached) + 1
           cut == Min2(messages[first], max - Newer(messages)[first])
       IN IF reached = {} THEN [kept |-> <<>>, truncated |-> TRUE]
          ELSE [kept |-> <<cut>> \o SubSeq(messages, first + 1, Len(messages)),
                truncated |-> first > 1 \/ cut < messages[first]]

-----------------------------------------------------------------------------
(* build_resolution_policy, and what the turn uses of it.                  *)

\* Slip: the process flag of query transformation is asked first.
PolicyFlagFirst(skip, aware, envAware, transformation) ==
  CASE skip -> "never"
    [] ~skip /\ transformation -> "always"
    [] OTHER -> IF aware = "yes" \/ (aware = "unset" /\ envAware) THEN "gated" ELSE "never"

Policy(skip, aware, envAware, transformation) ==
  CASE skip -> "never"
    [] ~skip /\ aware = "no" -> "never"
    [] ~skip /\ aware # "no" /\ (aware = "yes" \/ envAware) -> "gated"
    [] OTHER -> IF transformation THEN "always" ELSE "never"

\* prepare_turn_history: what resolution and generation get.
Prepare(history, retrieval, generation, max, policy, generates) ==
  LET generated == Trim(Slice(history, generation), max)
      considered == Slice(history, retrieval)
  IN [transform |-> IF policy = "never" THEN <<>> ELSE considered,
      generation |-> IF generates THEN generated.kept ELSE <<>>,
      truncated |-> generates /\ generated.truncated,
      dropped |-> IF generates THEN Len(history) - Len(generated.kept) ELSE 0]

-----------------------------------------------------------------------------
(* A turn: the session in the database, the two windows as the item and the *)
(* batch give them, the process's windows and floor, and the budget.       *)

Loaded(t) ==
  Newest(t.session, LoadLimit(Window(MergeField(t.item, t.batch), t.env),
                            Window(Unset, t.env), t.floor))

\* The windows apply to the session, not to what happened to be loaded: each
\* gets the newest messages of the session it asked for, whatever the floor, the
\* other window or the batch say.
WindowsHonoured(t) ==
  LET retrieval == Window(MergeField(t.item, t.batch), t.env)
      generation == Window(Unset, t.env)
      plan == Prepare(Loaded(t), retrieval, generation, Unset, "gated", TRUE)
  IN /\ plan.transform = Newest(t.session, retrieval)
     /\ plan.generation = Newest(t.session, generation)

\* The budget keeps the newest characters, all of it that can be used, in order;
\* and the trace says so exactly when something was left out.
BudgetKeepsNewest(messages, max) ==
  LET trimmed == Trim(messages, max)
      total == Total(messages)
      kept == Total(trimmed.kept)
      n == Len(trimmed.kept)
  IN /\ max # Unset => kept = Min2(total, max)
     /\ n > 0 => Tail(trimmed.kept) = Newest(messages, n - 1)
     /\ trimmed.truncated <=> trimmed.kept # messages

\* A request that opts out, or an item of a comparison, is never resolved
\* against the history, whatever the process does for others.
OptOutHolds(skip, aware, envAware, transformation, session) ==
  skip \/ aware = "no" =>
    Prepare(session, MaxWindow, MaxWindow, Unset,
            Policy(skip, aware, envAware, transformation), TRUE).transform = <<>>
=============================================================================
