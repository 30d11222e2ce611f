------------------------------- MODULE MCChat -------------------------------
EXTENDS ChatProperties

CONSTANTS A, B, d1, d2, d3, chat1, ask, again, stream, pair, single, foreign, create, theirs, read

MCDocOwner == [d \in {d1, d2, d3} |-> IF d = d3 THEN B ELSE A]

\* A stream asks for a window of two messages, the others for one.
Ask(kind, n, ds, name, sc, filter, i) ==
  [kind |-> kind, tenant |-> n, docs |-> ds, name |-> name, scope |-> sc,
   filter |-> filter, position |-> i, limit |-> IF kind = "stream" THEN 2 ELSE 1]

MCRequest == [t \in {ask, again, stream, pair, single, foreign, create, theirs, read} |->
  CASE t = ask     -> Ask("ask", A, {d1}, chat1, "session", None, 1)
    [] t = again   -> Ask("ask", A, {d2}, chat1, "tenant", {d1}, 1)
    [] t = stream  -> Ask("stream", A, {d1}, chat1, "session", None, 1)
    [] t = pair    -> Ask("item", A, {d1, d2}, chat1, "session", None, 1)
    [] t = single  -> Ask("item", A, {d2}, chat1, "session", None, 2)
    [] t = foreign -> Ask("item", A, {d1, d3}, None, "session", None, 3)
    [] t = create  -> Ask("create", B, {}, chat1, "session", None, 1)
    [] t = theirs  -> Ask("ask", B, {d3}, chat1, "tenant", None, 1)
    [] t = read    -> Ask("read", B, {}, chat1, "session", None, 1)]

MCMixes == {{ask, theirs}, {ask, stream}, {stream, create, read}, {pair, single, foreign}, {again, create}}
=============================================================================
