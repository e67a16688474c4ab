\* One request at a time, one backend that may never answer.
SPECIFICATION RetrySpec
CONSTANTS
  Requests = {r1}
  NoRequest = NoRequest
  N = 1
  Configs <- OneBackend
  Faults = {"hung"}
  MaxSkew = 0
INVARIANT RevivalsAreBounded
