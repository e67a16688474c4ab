\* Two backends that may hang, two requests, both policies, a clock that may be set
\* back behind the second a backend was marked dead.
SPECIFICATION FairSpec
CONSTANTS
  Requests = {r1, r2}
  NoRequest = NoRequest
  N = 2
  Configs <- PatientConfigs
  Faults = {"hung"}
  MaxSkew = 1
PROPERTIES
  RequestsEnd
  UpBackendsReturn
