\* A certificate that cannot be read at a reload.
SPECIFICATION Spec
CONSTANTS
  Ports = {80, 443}
  Operators = {o1}
  LastVersion = 1
  LastStart = 0
  NoWorker = NoWorker
  Contents <- CertContents
  Modes = {"config"}
  BindErrors = {443}
INVARIANT ReloadKeepsServing
CHECK_DEADLOCK FALSE
