SPECIFICATION Spec
CONSTANTS
  a1 = a1  a2 = a2  r1 = r1  r2 = r2
  Auths = {a1}
  Requests = {}
  Legacy = {}
  Services = {"service"}
  Catalogs = {"catalog"}
  Writers = {}
  Outcomes = {"ok"}
  Retries <- OneRetry
  MaxCredentials = 0
  MaxWait = 1
  Short = 1  Long = 2  RetryAfter = 1
  QuotaBase = 1  QuotaMax = 2
  None = None
INVARIANTS RegistryAgrees
CHECK_DEADLOCK FALSE
