\* A port is removed and added again.
SPECIFICATION FairSpec
CONSTANTS
  Ports = {80, 443}
  Operators = {o1}
  LastVersion = 2
  LastStart = 0
  NoWorker = NoWorker
  Contents <- PortContents
  Modes = {"config"}
  BindErrors = {}
PROPERTY WorkersOpen
CHECK_DEADLOCK FALSE
