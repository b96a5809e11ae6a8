SPECIFICATION Spec
CONSTANTS
  a1 = a1  a2 = a2  r1 = r1  r2 = r2
  Auths = {a1}
  Requests = {r1}
  Legacy = {}
  Services = {"service"}
  Catalogs = {"catalog"}
  Writers = {"writer"}
  Outcomes = {"ok", "refused", "quota", "invalid", "scoped", "other"}
  Retries <- OneRetry
  MaxCredentials = 1
  MaxWait = 0
  Short = 1  Long = 1  RetryAfter = 1
  QuotaBase = 1  QuotaMax = 2
  None = None
INVARIANTS RemovedStaysOut
CHECK_DEADLOCK FALSE
