SPECIFICATION PrepSpec
CONSTANTS
  Layers = {0, 1, 2}
  Shards = {1, 2, 3}
  Layouts <- MCAligned
  MaxKills = 1
  KillsSpanning = FALSE
INVARIANTS ReadyMeansComplete
