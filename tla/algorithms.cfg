\* Every input of the bounded domains, one step each.
SPECIFICATION Spec
CONSTANTS
  Corpus <- MCCorpus
  DocOrder <- MCDocOrder
  ProgressBatch = 2
CHECK_DEADLOCK FALSE
INVARIANTS
  CallsAreSafe
  ConfigFollowsLayers
  HistoryFromNewest
  QueriesFollowQuestion
  StreamsConclude
  SearchStaysInScope
  BestChunksFirst
  ResultsLineUp
