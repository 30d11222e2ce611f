----------------------------- MODULE DocumentRow -----------------------------
(***************************************************************************)
(* One row of the `documents` table, and what each function of             *)
(* backend/db/sqlalchemy_service.py does to it in its one transaction.     *)
(*                                                                         *)
(* A row keeps the columns that decide what may happen next: `status`,     *)
(* `status_detail` (the replacement marker) and whether `artifact_uri` is  *)
(* set.  The file name, the user metadata, the progress counters, the      *)
(* error texts and the job metadata are left out: no condition of the      *)
(* ingestion code reads them.  A transaction on a missing row changes      *)
(* nothing, as the code logs a warning and returns.                        *)
(***************************************************************************)

\* Mid-flight statuses, STALE_INGESTION_STATUSES of core/config.py.
StaleStatuses == {"uploaded", "queued", "retrying",
                  "extracting", "chunking", "embedding", "storing"}

\* The statuses a replacement may start from, _REPLACEABLE_STATUSES.
ReplaceableStatuses == {"completed", "failed"}

Statuses == StaleStatuses \union ReplaceableStatuses

NoDetail == "none"
ReplacementInProgress == "replacement_in_progress"
ReplacementFailed == "replacement_failed"
Details == {NoDetail, ReplacementInProgress, ReplacementFailed}

Row == [exists : BOOLEAN, status : Statuses, detail : Details, uri : BOOLEAN]

\* No row: never inserted, or deleted.
MissingRow ==
  [exists |-> FALSE, status |-> "uploaded", detail |-> NoDetail, uri |-> FALSE]

\* create_document: the row a new upload starts with.
CreatedRow ==
  [exists |-> TRUE, status |-> "uploaded", detail |-> NoDetail, uri |-> FALSE]

\* update_document_status.
UpdateStatus(row, status) ==
  IF row.exists THEN [row EXCEPT !.status = status] ELSE row

\* set_document_status_detail.
SetStatusDetail(row, detail) ==
  IF row.exists THEN [row EXCEPT !.detail = detail] ELSE row

\* set_document_artifact_uri: with a URI (TRUE) or with None (FALSE).
SetArtifactUri(row, uri) ==
  IF row.exists THEN [row EXCEPT !.uri = uri] ELSE row

\* Slip: begin_document_replacement forgets the marker.
OutcomeWithoutMarker(row) ==
  CASE ~row.exists -> "not_found"
    [] row.exists /\ row.status \notin ReplaceableStatuses -> "not_eligible"
    [] OTHER -> "started"

\* The outcome begin_document_replacement returns for the row it has locked.
ReplacementOutcome(row) ==
  CASE ~row.exists                            -> "not_found"
    [] row.exists
       /\ row.detail = ReplacementInProgress  -> "in_progress"
    [] row.exists
       /\ row.detail # ReplacementInProgress
       /\ row.status \notin ReplaceableStatuses -> "not_eligible"
    [] OTHER                                  -> "started"

\* The row begin_document_replacement commits when it returns "started".
ClaimedRow(row) == [row EXCEPT !.detail = ReplacementInProgress]

\* The row replace_document_content commits with the new chunk set.
ReplacedRow(row) == [row EXCEPT !.status = "completed", !.detail = NoDetail]
=============================================================================
