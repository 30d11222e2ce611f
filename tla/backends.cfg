\* A new document and a replacement, two workers; four batches at 1.5 per second.
SPECIFICATION MCSpec
CONSTANTS
  None = None
  Uploads = {c1, r1}
  Replaces = {r1}
  Workers = {w1, w2}
  QueueMax = 1
  MaxRetries = 1
  DlqMax = 1
  MaxStarts = 2
  Callers = {b1, b2, b3, b4}
  Token = 10
  Rate = 3
  Capacity = 15
CHECK_DEADLOCK FALSE
INVARIANTS
  MirrorFollowsQueue
  JobTakesOnePath
  InProgressIsOwned
  RateKept
PROPERTIES
  AdmittedEnds
  EveryJobReported
  ClaimsReleased
  EveryBatchGoesOn
