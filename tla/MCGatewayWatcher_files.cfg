SPECIFICATION Spec
CONSTANTS
  f = f  r = r  v1 = v1  v2 = v2  ws = ws  m = m  n = n  p = p  q = q
  File = f  Relay = r
  Clients = {f, r}
  Models = {m, n}
  Providers = {p, q}
  Window = 1
  None = None
  Contents = {v1, v2}
  InitialFiles = {v1, None}
  RelayAuth = ws
  ProviderOf <- Provider
  ModelsOf <- ModelList
  QueueSize = 1
  MaxActs = 3
INVARIANTS CountsAgree CachedListIsCurrent LastQueuedWins FileIsServed
CHECK_DEADLOCK FALSE
