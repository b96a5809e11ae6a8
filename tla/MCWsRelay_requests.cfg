\* A connection replaces another while a request waits on it.
SPECIFICATION FairSpec
CONSTANTS
    s1 = s1  s2 = s2  r1 = r1  r2 = r2  p1 = p1
    Session = {s1, s2}
    Provider = {p1}
    ProviderOf <- OneProvider
    None = None
    Request = {r1}
    Cap = 1
    MaxParts = 1
    MaxStops = 1
INVARIANTS NoneLeftBehind ConnectedIsRegistered TruncatedOnlyIfFull OpenWhilePending
PROPERTIES EveryRequestReturns
