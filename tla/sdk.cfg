\* Two uploads at a time, one retry each, a wait of two ticks.
SPECIFICATION FairSpec
CONSTANTS
  f1 = f1  f2 = f2  gone = gone
  Files <- MCFiles
  Missing = {gone}
  Replaced = {r1}
  Concurrency = 2
  MaxRetries = 1
  MaxLimitRetries = 1
  Timeout = 2
  Interval = 1
  FailFast = TRUE
CHECK_DEADLOCK FALSE
INVARIANTS
  NoDuplicateUploads
  ReadyIsIndexed
  BulkUploadSettles
PROPERTY
  CallsEnd
