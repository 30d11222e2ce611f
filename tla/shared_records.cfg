\* Two clients send each of two bodies under one key, which expires once; two
\* documents, a chat and two reads of a registry that restarts once.
SPECIFICATION MCSpec
CONSTANTS
  None = None
  Bodies = {a, b}
  Clients = {c1, c2}
  MaxExpiries = 1
  Docs = {d1, d2}
  Chats = {c1}
  Reads = {q1, q2}
  MaxRestarts = 1
  MaxScanErrors = 1
SYMMETRY Symmetry
CHECK_DEADLOCK FALSE
INVARIANTS
  OneAcceptance
  ReplaysOwnBody
  ClaimHasHolder
  MissesOnlyWiped
  ReadsAreComplete
PROPERTY
  KeepsPromise
