\* The last database write of a replacement raises after its cutover.
SPECIFICATION Spec
CONSTANTS
  None = None
  Creates = {c1}
  Replaces = {r1}
  Deletes = {}
  Workers = {w1}
  QueueMax = 1
  MaxRetries = 1
  Faults = {"finish"}
INVARIANT FailedReplacementNotServed
