\* Every pair of handlers side by side on an OAuth credential, an API key and
\* a credential without its key, with a failed write, an expiry or a restart.
SPECIFICATION Spec
CONSTANTS
    t1 = t1  t2 = t2  a1 = a1  a2 = a2  a3 = a3
    Task = {t1, t2}
    NoTask = NoTask
    Account = {a1, a2, a3}
    MaxFailures = 1
    InitialFiles <- MixedFile
    Models = {TRUE}
    Priorities = {0, 2}
    NewCredentials <- NewOAuth
    Ops = {"acquire", "force", "usage", "setDisabled", "setPriority", "reset", "delete", "add", "setMode"}
    Faults = {"restart", "writeFails"}
    MaxCalls = 2
    MaxFaults = 1
SYMMETRY Symmetric
INVARIANTS TypeOK DisabledIffReason
PROPERTIES RevivedByOperator SwitchedAway
