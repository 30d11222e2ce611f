\* The handler writes "queued" after the worker is done.
SPECIFICATION Spec
CONSTANTS
  None = None
  Creates = {c1}
  Replaces = {r1}
  Deletes = {}
  Workers = {w1}
  QueueMax = 1
  MaxRetries = 1
  Faults = {}
INVARIANT QueuedIsPending
