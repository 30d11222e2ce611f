--------------------------- MODULE MCSharedRecords ---------------------------
(***************************************************************************)
(* What racing requests share beside the database, in one state space: the *)
(* record of an Idempotency-Key in Redis ("key"), and the registry of a    *)
(* tenant's documents in an API process ("registry").  A behaviour belongs *)
(* to the part it starts in.                                               *)
(***************************************************************************)
EXTENDS Idempotency, TLC

CONSTANTS Docs, Chats, Reads, MaxRestarts, MaxScanErrors

VARIABLES
  part,
  disabled, db, cache, loaded, upc, cpc, about, dpc, qpc, scan, due, answer, wiped,
  restarts, errors

registryVars == <<disabled, db, cache, loaded, upc, cpc, about, dpc, qpc, scan, due,
                  answer, wiped, restarts, errors>>
mcvars == <<part, vars, registryVars>>

Registry == INSTANCE TenantRegistry

MCInit ==
  /\ part \in {"key", "registry"}
  /\ Init /\ Registry!Init
  /\ part = "key" => ~disabled

MCNext ==
  /\ \/ part = "key" /\ Next /\ UNCHANGED registryVars
     \/ part = "registry" /\ Registry!Next /\ UNCHANGED vars
  /\ UNCHANGED part

MCSpec == MCInit /\ [][MCNext]_mcvars

\* Documents and reads are interchangeable.
Symmetry == Permutations(Docs) \union Permutations(Reads)

-----------------------------------------------------------------------------
\* What a loaded registry misses was wiped under a waiting snapshot.
MissesOnlyWiped == Registry!MissesOnlyWiped

\* A read that asked the database returns all it owes.
ReadsAreComplete == Registry!ReadsAreComplete
=============================================================================
