\* A head of two units and a body of up to two, announced or not.  A
\* peer may do nothing for ever, and a connection ends.
SPECIFICATION FairSpec
CONSTANTS
  Units <- SomeUnits
  HeadLen = 2
  Capacity = 1
  ContentLengths = {0, 2, NoLength}
  NoLength = NoLength
INVARIANTS
  RequestStream
  ResponseStream
  WholeRequestFirst
  NothingCutOff
  TunnelInv
PROPERTIES
  TunnelEnds
  EveryUnitArrives
CHECK_DEADLOCK FALSE
