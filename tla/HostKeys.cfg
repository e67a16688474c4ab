\* One host that is written with its port.  A connection ends with its answer.
SPECIFICATION Spec
CONSTANTS
  Names = {"a", "b", "*"}
  StarNames = {"*"}
  PortNumbers = {80, 443, 8080}
  NoPort = NoPort
  BadPort = BadPort
  NoCert = NoCert
  Directives <- AllDirectives
  Services <- SomeServices
  Cbltfiles <- ReadmeCbltfile
  Labels = {}
  None = None
  Malformed = Malformed
  NoRange = NoRange
  Tunnelled = Tunnelled
  U64 = 8
  Requests <- SomeRequests
  FileSystems <- SomeFiles
  Dirs <- SomeDirs
  Lengths = {0, 1, 3}
INVARIANT HostsAnswerAtTheirAddress
CHECK_DEADLOCK FALSE
