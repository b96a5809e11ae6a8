SPECIFICATION Spec
CONSTANTS
  a1 = a1  a2 = a2  r1 = r1  r2 = r2
  Auths = {a1, a2}
  Requests = {r1, r2}
  Legacy = {}
  Services = {}
  Catalogs = {}
  Writers = {}
  Outcomes = {"ok", "limited", "server"}
  Retries <- FirstRetries
  MaxCredentials = 0
  MaxWait = 2
  Short = 1  Long = 2  RetryAfter = 2
  QuotaBase = 1  QuotaMax = 2
  None = None
INVARIANTS TypeOK
PROPERTIES RefusedForAReason EveryRequestEnds
CHECK_DEADLOCK FALSE
