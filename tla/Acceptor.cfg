\* Three clients, two permits, one update, and a stop at any point.  A worker
\* that is gone stays gone.
SPECIFICATION FairSpec
CONSTANTS
  Clients = {c1, c2, c3}
  NoClient = NoClient
  Max = 2
  LastVersion = 1
INVARIANTS
  TypeOK
  PermitsConserved
  AtMostOneLate
  SettingsAreFresh
  AcceptorInv
PROPERTIES
  SafeWorker
  QueuedAreServed
  IsWorker
CHECK_DEADLOCK FALSE
