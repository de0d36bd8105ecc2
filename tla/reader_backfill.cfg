SPECIFICATION FairReaderSpec
CONSTANTS
  Layers = {0}
  Experts = {0, 1}
  Values <- MCValues
  MaxExperts = 1
  LruEnabled = TRUE
  Fallback = TRUE
  ReadsMayFail = TRUE
  IdLists <- MCFewLists
  Workers = {w1}
  VictimCap = 1
  FutureIds = {1, 2, 3}
  Nobody = Nobody
INVARIANTS
  CachesHoldWholeExperts
  ServedAsAsked
PROPERTIES
  CallsReturn
  BackfillsSettle
