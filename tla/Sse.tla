--------------------------------- MODULE Sse ---------------------------------
(***************************************************************************)
(* The two event streams, from the server's generator to the events of the *)
(* Python SDK: POST /chat/stream (chat_service.py) and                     *)
(* GET /documents/{id}/status/stream (routes/documents.py), read by        *)
(* _sse.py, over a connection that may end after any line, in the middle   *)
(* of one, or with a transport error.                                      *)
(***************************************************************************)
EXTENDS Lists

MaxPolls == 3   \* polls of a status stream before it times out, 300 in the code

\* A payload: JSON text, a JSON object, the bare marker [DONE], or no JSON at all.
Text(t) == [form |-> "text", of |-> t]
Object(o) == [form |-> "object", of |-> o]
Marker == [form |-> "bare", of |-> "[DONE]"]
Broken == [form |-> "broken", of |-> ""]

Event(name, payload) == [name |-> name, payload |-> payload]

-----------------------------------------------------------------------------
(* The server.                                                             *)

\* A turn's events: its tokens, then complete and the legacy marker, or the
\* error that ended it.
Codes == {"none", "llm_rate_limited", "llm_timeout_or_connection", "llm_invalid_api_key", "other"}
TurnEvents(tokens, code) ==
  [i \in DOMAIN tokens |-> Event("token", Text(tokens[i]))]
    \o IF code = "none" THEN <<Event("complete", Object("turn")), Event("done", Marker)>>
       ELSE <<Event("error", Object(code))>>

\* A document as one poll finds it.
Rows == {"missing", "queued", "completed", "failed", "replacing"}

\* Slip: a replacement's row is taken for the finished document it replaces.
SettledByStatus(row) == row \in {"completed", "failed", "replacing"}

\* A status the stream ends at.  A replacement keeps the old status while it runs.
Settled(row) == row \in {"completed", "failed"}

\* event_generator: a snapshot per poll, until one is settled, the document is
\* gone, or the time is over.
StatusEvents(rows) ==
  LET ends == {i \in DOMAIN rows : rows[i] = "missing" \/ Settled(rows[i])}
      last == IF ends = {} THEN Len(rows) ELSE CHOOSE i \in ends : \A j \in ends : i <= j
  IN [i \in 1 .. last |-> IF rows[i] = "missing" THEN Event("error", Object("not found"))
                          ELSE Event("status", Object(rows[i]))]
       \o IF ends = {} THEN <<Event("error", Object("timed out"))>> ELSE <<>>

\* An event on the wire, and what the parser has of a line that is cut short: within
\* its value, half a name or a datum that is no JSON; before it, nothing ("eve" is no
\* field, "event:" no name, and "data:" decodes as little as no data).
Tears == {"none", "early", "late"}
Lines(event) == <<[field |-> "event", value |-> event.name],
                  [field |-> "data", value |-> event.payload], [field |-> "blank"]>>
Wire(events) == [n \in 1 .. 3 * Len(events) |-> Lines(events[(n + 2) \div 3])[((n - 1) % 3) + 1]]
Torn(line, tear) ==
  CASE tear = "late" /\ line.field = "event" -> <<[line EXCEPT !.value = "torn"]>>
    [] tear = "late" /\ line.field = "data" -> <<[line EXCEPT !.value = Broken]>>
    [] OTHER -> <<>>

-----------------------------------------------------------------------------
(* The SDK.  A dispatcher turns an event into what it yields and the class *)
(* of the exception it raises.                                             *)

Yields(x) == [out |-> <<x>>, error |-> "none"]
Skips == [out |-> <<>>, error |-> "none"]
Throws(class) == [out |-> <<>>, error |-> class]

\* map_stream_error, map_document_status_stream_error.
TurnClass(code) == CASE code = "llm_invalid_api_key" -> "auth"
                     [] code = "llm_rate_limited" -> "rate_limit"
                     [] code = "llm_timeout_or_connection" -> "timeout"
                     [] OTHER -> "api"
StatusClass(message) == IF message = "timed out" THEN "timeout" ELSE "api"

\* The data lines of an event, joined and decoded.
Decoded(data) == IF Len(data) = 1 THEN data[1] ELSE Broken

\* Slip: the marker is compared with the decoded text.
DispatchDecoded(name, data) ==
  LET payload == Decoded(data)
  IN CASE name = "done" \/ payload.of = "[DONE]" -> Skips
       [] name = "error" /\ payload.form = "object" -> Throws(TurnClass(payload.of))
       [] name = "token" /\ payload.form = "text" -> Yields(Event(name, payload))
       [] name = "complete" /\ payload.form = "object" -> Yields(Event(name, payload))
       [] OTHER -> Throws("api")

\* _dispatch_sse_event.  A token that is no JSON raises the decoder's ValueError.
DispatchTurn(name, data) ==
  LET payload == Decoded(data)
  IN CASE name = "done" \/ payload = Marker -> Skips
       [] name = "error" /\ payload # Marker ->
            Throws(IF payload.form = "object" THEN TurnClass(payload.of) ELSE "api")
       [] name = "token" /\ payload # Marker ->
            CASE payload.form = "text" -> Yields(Event(name, payload))
              [] payload.form = "broken" -> Throws("ValueError")
              [] OTHER -> Throws("api")
       [] name = "complete" /\ payload.form = "object" -> Yields(Event(name, payload))
       [] OTHER -> Throws("api")

\* _dispatch_document_status_sse_event.
DispatchStatus(name, data) ==
  LET payload == Decoded(data)
  IN CASE payload.form # "object" -> Throws("api")
       [] payload.form = "object" /\ name = "error" -> Throws(StatusClass(payload.of))
       [] payload.form = "object" /\ name = "status" -> Yields(Event(name, payload))
       [] OTHER -> Throws("api")

\* Which of the two parsers reads the stream.
Dispatch(of, name, data) == IF of = "turn" THEN DispatchTurn(name, data) ELSE DispatchStatus(name, data)

None == "none"
Start == [name |-> None, data |-> <<>>, out |-> <<>>, error |-> "none"]

\* Slip: the data lines are not reset with the event name.
ResetName(s) == [s EXCEPT !.name = None]

Reset(s) == [s EXCEPT !.name = None, !.data = <<>>]

\* The event that is complete, if there is one.
Flush(of, s) ==
  IF s.name = None /\ s.data = <<>> THEN s
  ELSE LET d == Dispatch(of, s.name, s.data)
       IN [Reset(s) EXCEPT !.out = @ \o d.out, !.error = d.error]

\* One line; nothing is read after an exception.
Line(of, s, line) ==
  CASE s.error # "none" -> s
    [] s.error = "none" /\ line.field = "blank" -> Flush(of, s)
    [] s.error = "none" /\ line.field = "event" -> [s EXCEPT !.name = line.value]
    [] s.error = "none" /\ line.field = "data" -> [s EXCEPT !.data = Append(@, line.value)]
    [] OTHER -> s

Heard(of, lines) ==
  LET heard[n \in 0 .. Len(lines)] == IF n = 0 THEN Start ELSE Line(of, heard[n - 1], lines[n])
  IN heard[Len(lines)]

\* The whole stream: what is left when the lines end is an event too.
Parse(of, lines) == Flush(of, Heard(of, lines))

\* A connection that ends after `lines`: with a transport error, which becomes a
\* timeout, or as if the body were over.
Receive(of, lines, lost) ==
  LET s == IF lost THEN Heard(of, lines) ELSE Parse(of, lines)
  IN [out |-> s.out, error |-> IF lost /\ s.error = "none" THEN "timeout" ELSE s.error]
ReceiveTurn(lines, lost) == Receive("turn", lines, lost)
ReceiveStatus(lines, lost) == Receive("status", lines, lost)

-----------------------------------------------------------------------------
\* The lines that arrive when the connection ends after `cut` of them, or in the next.
Arrived(events, cut, torn) ==
  LET all == Wire(events)
  IN SubSeq(all, 1, cut) \o IF cut < Len(all) THEN Torn(all[cut + 1], torn) ELSE <<>>

\* The caller of a stream sees the server's tokens and the complete event, as they
\* were sent and in their order: every one whose lines arrived, never one of which
\* half arrived, none invented or changed, whatever their text.
Faithful(tokens, code, cut, torn, lost) ==
  LET events == TurnEvents(tokens, code)
      sent == At(events, {i \in DOMAIN events : events[i].name \in {"token", "complete"}})
      got == ReceiveTurn(Arrived(events, cut, torn), lost)
  IN /\ IsPrefix(got.out, sent)
     /\ Len(got.out) >= IF cut \div 3 < Len(sent) THEN cut \div 3 ELSE Len(sent)

\* A stream that fails raises: the server's error by its class, a lost connection
\* as a timeout.  Without an exception no event was received by half: the one that did
\* not come is the marker, wants only its blank line, or had not shown its name.
FailureRaised(tokens, code, cut, torn, lost) ==
  LET events == TurnEvents(tokens, code)
      got == ReceiveTurn(Arrived(events, cut, torn), lost)
  IN /\ code # "none" /\ cut = 3 * Len(events) => got.error = TurnClass(code)
     /\ lost => got.error # "none"
     /\ code = "none" /\ cut = 3 * Len(events) /\ ~lost => got.error = "none"
     /\ got.error = "none" /\ cut < 3 * Len(events) =>
          \/ cut % 3 = 2 \/ events[cut \div 3 + 1].name = "done"
          \/ (cut % 3 = 0 /\ torn # "late")

\* Who reads a status stream to its end knows how the document ended, or gets an
\* exception: the last snapshot is settled, and it is the first that is.
Concludes(rows) ==
  LET got == ReceiveStatus(Wire(StatusEvents(rows)), FALSE)
      shown == [i \in DOMAIN got.out |-> got.out[i].payload.of]
  IN /\ IsPrefix(shown, rows)
     /\ got.error = "none" => shown # <<>> /\ Last(shown) \in {"completed", "failed"}
     /\ \A i \in DOMAIN shown : i < Len(shown) => shown[i] \notin {"completed", "failed"}
     /\ got.error = "timeout" => Len(shown) = MaxPolls
=============================================================================
