\* One document; two replacements race, or calls fail, or a delete comes in.
SPECIFICATION MCSpec
CONSTANTS
  None = None
  Creates = {c1}
  Replaces = {r1, r2}
  Lone = r3
  Deletes = {x1}
  Workers = {w1, w2}
  Single = w3
  QueueMax = 1
  MaxRetries = 1
  Faults = {"enqueue", "route", "finish", "record", "payload", "redis", "cleanup"}
SYMMETRY Symmetry
INVARIANTS
  TypeOK
  SingleCustody
  OneUploadPerDocument
  ProgressIsOwned
  BytesMatch
  OneOutcome
PROPERTY
  ContentOutlivesUploads
