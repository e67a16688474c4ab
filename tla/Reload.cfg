\* Two edits, one crash or exit, every kind of configuration.  The loader and the
\* supervisor may end, and then nothing is left to happen.
SPECIFICATION Spec
CONSTANTS
  Ports = {80, 443}
  Operators = {o1}
  LastVersion = 2
  LastStart = 1
  NoWorker = NoWorker
  Contents <- AllContents
  Modes = {"config", "docker"}
  BindErrors = {443}
INVARIANTS
  MapIsConfigured
  NoStrayWorker
  ReloadInv
PROPERTIES
  IsReconfiguration
  WorkersAreWorkers
CHECK_DEADLOCK FALSE
