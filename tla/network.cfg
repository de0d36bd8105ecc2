SPECIFICATION FairNetworkSpec
CONSTANTS
  a = a
  b = b
  c = c
  aJoined = aJoined
  bJoined = bJoined
  Ids = {a, b, c}
  Machines = {a, b, c}
  Experts = {0, 1, 2}
  TopScore = 5
  Score <- MCThree
  JoinsAs <- MCSelf
  Rooms = {1, 3}
  StaticRosters <- MCStatic
  MaxStarts = 3
  MaxFaults = 1
  NumLayers = 1
  Hashed <- MCHashed
  Revised <- MCRevised
  Slices <- MCSlices
  MaxFetches = 1
  MaxKills = 1
  NoFile = NoFile
  TornFile = TornFile
  Newcomer = c
  Damaged = {b}
INVARIANTS
  NoOrphan
  GrownRosterLoadsWhole
CHECK_DEADLOCK FALSE
PROPERTIES
  RecordCatchesUp
