SPECIFICATION Spec
CONSTANTS
  a1 = a1
  w1 = w1
  c1 = c1
  Auths <- OneAuth
  Workers = {w1}
  Callers = {c1}
  JobBuffer = 1
  Life = 1
  Lead = 0
  Pending = 1
  FailureBackoff = 2
  IneffectiveBackoff = 1
  Interval = 1
  MaxLag = 1
INVARIANTS
  NeverLate
  NoLostWake
  OneFreshRefresh
PROPERTIES
  EveryDueAuthIsRefreshed
