SPECIFICATION FairSpec
CONSTANTS
  A = A  B = B  d1 = d1  d2 = d2  d3 = d3  chat1 = chat1
  ask = ask  again = again  stream = stream  pair = pair  single = single
  foreign = foreign  create = create  theirs = theirs  read = read
  Tenants = {A, B}
  Docs = {d1, d2, d3}
  Names = {chat1}
  DocOwner <- MCDocOwner
  Turns = {ask, again, stream, pair, single, foreign, create, theirs, read}
  Request <- MCRequest
  Mixes <- MCMixes
  None = None
  LlmLimit = 1
  Deletable = {d1}
  MaxDeletes = 1
  MaxFeedback = 1
CHECK_DEADLOCK FALSE
INVARIANTS
  
  TenantsApart
  FreshOnlyForForeign
  TellsWhatWasStored
  PermitsKept
PROPERTY
  EveryTurnEnds
