\* Two files and a path that is none, two at a time, without fail_fast.
SPECIFICATION Spec
CONSTANTS
  f1 = f1  f2 = f2  gone = gone
  Files <- MCFiles
  Missing = {gone}
  Replaced = {}
  Concurrency = 2
  MaxRetries = 0
  MaxLimitRetries = 0
  Timeout = 1
  Interval = 1
  FailFast = FALSE
CHECK_DEADLOCK FALSE
INVARIANT
  BulkUploadAccounts
