\* Five Cbltfiles and three lists of docker services, hosts visited in any order,
\* one connection.  Without a configuration the server does not start, and a
\* connection ends with its answer.
SPECIFICATION Spec
CONSTANTS
  Names = {"a", "b", "*"}
  StarNames = {"*"}
  PortNumbers = {80, 443, 8080}
  NoPort = NoPort
  BadPort = BadPort
  NoCert = NoCert
  Directives <- AllDirectives
  Services <- SomeServices
  Cbltfiles <- SomeCbltfiles
  Labels <- SomeLabels
  None = None
  Malformed = Malformed
  NoRange = NoRange
  Tunnelled = Tunnelled
  U64 = 8
  Requests <- SomeRequests
  FileSystems <- SomeFiles
  Dirs <- SomeDirs
  Lengths = {0, 1, 3}
INVARIANTS
  TypeOK
  OrderDoesNotMatter
  NoForeignSite
  HostsShareServices
  DecidedInOrder
  FilesComeFromRoot
  HeadIsHonest
  NoSilentEnd
  OrdinaryFilesAreFound
  DispatchInv
CHECK_DEADLOCK FALSE
