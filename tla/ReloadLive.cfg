\* Every requested reload is applied.
SPECIFICATION FairSpec
CONSTANTS
  Ports = {80}
  Operators = {o1, o2}
  LastVersion = 2
  LastStart = 1
  NoWorker = NoWorker
  Contents <- OnePortContents
  Modes = {"config", "docker"}
  BindErrors = {80}
INVARIANT RequestIsKept
PROPERTY ReloadTakesEffect
CHECK_DEADLOCK FALSE
