----------------------------- MODULE MCIngestion -----------------------------
(***************************************************************************)
(* The safety scenarios of Ingestion in one state space.  A behaviour      *)
(* belongs to the scenario it starts in:                                   *)
(*   "races"    two replacements of a document compete, two workers, and   *)
(*              only calls before a job is queued fail                     *)
(*   "faults"   one replacement, two workers, and every fault but those    *)
(*              of the handler when its job is queued                      *)
(*   "removal"  a delete beside one replacement and one worker, where      *)
(*              those calls fail too, and the last write of a job          *)
(* Competing replacements are interchangeable, and so are the two workers; *)
(* what the other scenarios use has names of its own.                      *)
(***************************************************************************)
EXTENDS IngestionConstants, TLC

CONSTANTS
  Lone,   \* the replacement that has no competitor
  Single  \* the worker that has no other beside it

VARIABLES
  row, content, artifact, queue, dlq, sent, rpc, target, wpc, job, bytes,
  dpc, victim,
  scene

mcvars == <<row, content, artifact, queue, dlq, sent, rpc, target, wpc, job,
            bytes, dpc, victim, scene>>

\* TLC takes the definitions of a module that is only extended to be the same in
\* all instances; this one makes it evaluate those of Ingestion in each.
Base == INSTANCE Ingestion

Races == INSTANCE IngestionProperties WITH
  Deletes <- {}, Faults <- Faults \intersect {"enqueue"}

Faulty == INSTANCE IngestionProperties WITH
  Replaces <- {Lone}, Deletes <- {}, Faults <- Faults \ {"route"}

Removal == INSTANCE IngestionProperties WITH
  Replaces <- {Lone}, Workers <- {Single},
  Faults <- Faults \intersect {"route", "finish"}

MCInit ==
  \/ scene = "races" /\ Races!Init
  \/ scene = "faults" /\ Faulty!Init
  \/ scene = "removal" /\ Removal!Init

MCNext ==
  /\ \/ scene = "races" /\ Races!Next
     \/ scene = "faults" /\ Faulty!Next
     \/ scene = "removal" /\ Removal!Next
  /\ UNCHANGED scene

MCSpec == MCInit /\ [][MCNext]_mcvars

Symmetry == Permutations(Replaces) \union Permutations(Workers)

-----------------------------------------------------------------------------
\* The properties of IngestionProperties, in the scenarios they hold in.

\* The type invariant, and with it the bound on attempts, whatever fails.
TypeOK ==
  /\ scene = "races" => Races!TypeOK
  /\ scene = "faults" => Faulty!TypeOK
  /\ scene = "removal" => Removal!TypeOK

\* No file is ever in two places, whatever fails.
SingleCustody ==
  /\ scene = "races" => Races!SingleCustody
  /\ scene = "faults" => Faulty!SingleCustody
  /\ scene = "removal" => Removal!SingleCustody

\* The uploads of a document exclude each other, through all 409 answers.
OneUploadPerDocument == scene = "races" => Races!OneUploadPerDocument

\* What the row says of an upload in progress is what somebody is doing.
ProgressIsOwned == scene = "races" => Races!ProgressIsOwned

\* A worker works on the bytes of its own upload.
BytesMatch == scene = "races" => Races!BytesMatch

\* Each upload ends once, whatever fails.
OneOutcome ==
  /\ scene = "races" => Races!OneOutcome
  /\ scene = "faults" => Faulty!OneOutcome
  /\ scene = "removal" => Removal!OneOutcome

\* The content of a completed document outlives what fails around it.
ContentOutlivesUploads ==
  [][/\ scene = "races" => Races!ContentStep
     /\ scene = "faults" => Faulty!ContentStep
     /\ scene = "removal" => Removal!ContentStep]_mcvars
=============================================================================
