\* A delete's invalidation between a read's snapshot and its merge.
SPECIFICATION Spec
CONSTANTS
  Docs = {d1, d2}
  Chats = {}
  Reads = {q1}
  MaxRestarts = 0
  MaxScanErrors = 0
CHECK_DEADLOCK FALSE
INVARIANT
  LoadedIsComplete
