SPECIFICATION ReaderSpec
CONSTANTS
  Layers = {0, 1}
  Experts = {0, 1}
  Values <- MCValues
  MaxExperts = 2
  LruEnabled = TRUE
  Fallback = FALSE
  ReadsMayFail = TRUE
  IdLists <- MCIdLists
  Workers = {w1, w2}
  VictimCap = 1
  FutureIds = {1, 2}
  Nobody = Nobody
SYMMETRY WorkerSymmetry
INVARIANTS
  ReaderTypeOK
  CacheConsistent
  CachesHoldWholeExperts
  FilesOutliveReads
  SpeculationApart
  WorkingSetStays
PROPERTIES
  EvictionIsTrueLRU
  SpeculationNeverEvicts
  PrefetchMerges
  ReturnsAllAsked
