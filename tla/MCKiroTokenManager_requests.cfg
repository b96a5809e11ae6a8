\* Two requests side by side on two OAuth credentials.
SPECIFICATION Spec
CONSTANTS
    t1 = t1  t2 = t2  a1 = a1  a2 = a2  a3 = a3
    Task = {t1, t2}
    NoTask = NoTask
    Account = {a1, a2}
    MaxFailures = 2
    InitialFiles <- TwoFile
    Models = {FALSE}
    Priorities = {0}
    NewCredentials <- NoCredentials
    Ops = {"acquire"}
    Faults = {"expire", "lostReply", "revoke", "cancel"}
    MaxCalls = 3
    MaxFaults = 1
SYMMETRY Symmetric
INVARIANTS EnabledBelowThreshold OneRefreshAtATime CondemnedOnlyIfLost FileHasNewestToken
