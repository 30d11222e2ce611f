---------------------------- MODULE ActiveContent ----------------------------
(***************************************************************************)
(* What ingestion and replacement promise to whoever asks questions        *)
(* (documentation/content/api-reference.md, the notes on replacement): one *)
(* upload of a document is under way at a time; it ends by going into      *)
(* service, in one step, or by leaving in service what was there; a file   *)
(* that went out of service, or never came into it, does not come back.    *)
(***************************************************************************)
CONSTANTS Uploads, Docs, None

VARIABLES
  phase,    \* "new", "open" or "closed", of each upload
  aim,      \* the document an upload is for
  serving   \* whose file answers the questions about a document

active == <<phase, aim, serving>>

Init ==
  /\ phase = [u \in Uploads |-> "new"]
  /\ aim = [u \in Uploads |-> None]
  /\ serving = [d \in Docs |-> None]

\* An upload is admitted: no other one is open for the document.
Open(u, d) ==
  /\ phase[u] = "new"
  /\ \A v \in Uploads : ~(phase[v] = "open" /\ aim[v] = d)
  /\ phase' = [phase EXCEPT ![u] = "open"]
  /\ aim' = [aim EXCEPT ![u] = d]
  /\ UNCHANGED serving

\* An upload is refused.
Refuse(u, d) ==
  /\ phase[u] = "new"
  /\ phase' = [phase EXCEPT ![u] = "closed"]
  /\ aim' = [aim EXCEPT ![u] = d]
  /\ UNCHANGED serving

Close(u) ==
  /\ phase[u] = "open"
  /\ phase' = [phase EXCEPT ![u] = "closed"]
  /\ UNCHANGED aim

\* An upload succeeds: its file replaces what was in service.
Serve(u) ==
  /\ Close(u)
  /\ serving' = [serving EXCEPT ![aim[u]] = u]

\* An upload fails: what was in service stays.
GiveUp(u) == Close(u) /\ UNCHANGED serving

\* A document goes out of service.
Withdraw(d) ==
  /\ serving' = [serving EXCEPT ![d] = None]
  /\ UNCHANGED <<phase, aim>>

Next ==
  \/ \E u \in Uploads : Serve(u) \/ GiveUp(u)
  \/ \E u \in Uploads, d \in Docs : Open(u, d) \/ Refuse(u, d)
  \/ \E d \in Docs : Withdraw(d)

Spec == Init /\ [][Next]_active

\* What is in service is the file of an upload of that document which is over.
ServesOwn ==
  \A d \in Docs : serving[d] # None =>
    serving[d] \in Uploads /\ aim[serving[d]] = d /\ phase[serving[d]] = "closed"
=============================================================================
