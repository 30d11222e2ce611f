\* Two workers: one cleans up the failed first ingestion, one replaces it.
SPECIFICATION Spec
CONSTANTS
  None = None
  Creates = {c1}
  Replaces = {r1}
  Deletes = {}
  Workers = {w1, w2}
  QueueMax = 1
  MaxRetries = 1
  Faults = {}
PROPERTY ActiveContentKept
