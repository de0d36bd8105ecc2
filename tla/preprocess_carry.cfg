SPECIFICATION PrepSpec
CONSTANTS
  Layers = {0, 1, 2}
  Shards = {1, 2, 3}
  Layouts <- MCSpanning
  MaxKills = 1
  KillsSpanning = TRUE
INVARIANTS NothingLost
