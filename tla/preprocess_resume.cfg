SPECIFICATION FairPrepSpec
CONSTANTS
  Layers = {0, 1, 2}
  Shards = {1, 2, 3}
  Layouts <- MCLayouts
  MaxKills = 2
  KillsSpanning = FALSE
INVARIANTS
  NothingLost
  DeletedShardsFreed
  PinnedIsLast
PROPERTIES
  Finishes
