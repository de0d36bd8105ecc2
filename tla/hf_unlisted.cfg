SPECIFICATION SliceSpec
CONSTANTS
  a = a
  b = b
  Ids = {a, b}
  Experts = {0, 1}
  TopScore = 2
  Score <- MCScore
  NumLayers = 2
  Hashed <- MCHashed
  Revised <- MCRevised
  Slices <- MCSlices
  MaxFetches = 3
  MaxKills = 2
  NoFile = NoFile
  TornFile = TornFile
  CacheSize = 1
  IdSets <- MCIdSets
  Kinds = {"weight", "scales"}
  Gaps <- MCGaps
  TableRows = 6
  MaxRows = 2
  Lookups <- MCLookups
  Tables = {t0, t1, t2}
  TableWorkers = 2
  MaxDownloads = 2
  Me = a
  Rosters <- MCRosters
  Peers = {b}
INVARIANTS DoneMeansVerified
CHECK_DEADLOCK FALSE
