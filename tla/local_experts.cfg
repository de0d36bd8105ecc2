\* Slice as in hf_unlisted.cfg; for llama.cpp three experts, pages of four bytes
\* and a budget of two pages.
SPECIFICATION LocalSpec
CONSTANTS
  a = a
  b = b
  Ids = {a, b}
  Experts = {0, 1}
  TopScore = 2
  Score <- MCScore
  NumLayers = 2
  Hashed <- MCHashed
  Revised <- MCRevised
  Slices <- MCSlices
  MaxFetches = 3
  MaxKills = 2
  NoFile = NoFile
  TornFile = TornFile
  CacheSize = 1
  IdSets <- MCIdSets
  Kinds = {"weight", "scales"}
  Gaps <- MCGaps
  TableRows = 6
  MaxRows = 2
  Lookups <- MCLookups
  Tables = {tab0, tab1, tab2}
  TableWorkers = 2
  MaxDownloads = 2
  Me = a
  Rosters <- MCRosters
  Peers = {b}
  t1 = t1
  t2 = t2
  a1 = a1
  a2 = a2
  a3 = a3
  small = small
  large = large
  plain = plain
  Null = Null
  Free = Free
  Junk = Junk
  NumExperts = 3
  Page = 4
  MaxBytes = 8
  OnHost = {small, large}
  Threads <- MCThreads
  Addrs <- MCAddrs
  Tensors <- MCTensors
  Stride <- MCStride
  DataOf <- MCDataOf
  IdLists <- MCIdLists
SYMMETRY MCSymmetry
INVARIANTS
  DoneMeansComplete
  EngineReadsBlocks
  ReturnsWhatWasAsked
  RowsAsAsked
  TablesWhole
  BuffersOwnedOnce
  WithinBudget
  AdviceCoversExperts
  PackedAsAsked
PROPERTIES
  VerifiedNeverLost
CHECK_DEADLOCK FALSE
