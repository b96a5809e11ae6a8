\* Two requests race through two failing credentials to the healthy one.
SPECIFICATION ProviderSpec
CONSTANTS
    t1 = t1  t2 = t2  a1 = a1  a2 = a2  a3 = a3
    Task = {t1, t2}
    NoTask = NoTask
    Account = {a1, a2, a3}
    MaxFailures = 3
    RetriesPerCredential = 3
    MaxTotalRetries = 9
    Answers <- TwoFailOneServes
    InitialFiles <- ThreeFile
    Models = {FALSE}
    Priorities = {0}
    NewCredentials <- NoCredentials
    Ops = {"acquire", "force"}
    Faults = {"expire"}
    MaxCalls = 2
    MaxFaults = 1
SYMMETRY Symmetric
INVARIANTS FailoverReachesHealthy
