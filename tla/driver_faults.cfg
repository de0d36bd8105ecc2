SPECIFICATION DriverSpec
CONSTANTS
  Layers = {0}
  Experts = {0, 1, 2, 3}
  Values <- MCValues
  MaxExperts = 2
  NumNodes = 2
  Serves <- MCServes
  Requests <- MCRequests
  FetchWorkers = {f1, f2}
  BlockFaults = TRUE
  Unknown = Unknown
  None = None
SYMMETRY FetchSymmetry
INVARIANTS
  PartialsExact
