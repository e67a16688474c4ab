\* Two concurrent requests over three backends: safety.
SPECIFICATION Spec
CONSTANTS
  Requests = {r1, r2}
  NoRequest = NoRequest
  N = 3
  Configs <- SafetyConfigs
  Faults = {"refusing"}
  MaxSkew = 0
SYMMETRY Symmetry
INVARIANTS
  TypeOK
  ScanInv
  NoHealthyIsHonest
  RetriesNeverSpent
PROPERTIES
  InTurn
  LongUrlStopsAll
