SPECIFICATION NetworkSpec
CONSTANTS
  a = a
  b = b
  c = c
  aJoined = aJoined
  bJoined = bJoined
  Ids = {a, b, aJoined, bJoined}
  Machines = {a, b}
  Experts = {0, 1, 2}
  TopScore = 5
  Score <- MCTwoNames
  JoinsAs <- MCOtherNames
  Rooms = {1, 3}
  StaticRosters = {}
  MaxStarts = 3
  MaxFaults = 0
  NumLayers = 1
  Hashed <- MCHashed
  Revised <- MCRevised
  Slices <- MCSlices
  MaxFetches = 1
  MaxKills = 1
  NoFile = NoFile
  TornFile = TornFile
  Newcomer = c
  Damaged = {b}
INVARIANTS
  NoOrphan
CHECK_DEADLOCK FALSE
