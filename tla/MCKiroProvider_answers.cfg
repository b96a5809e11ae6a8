\* Two requests meet every kind of answer, under fairness.
SPECIFICATION ProviderFairSpec
CONSTANTS
    t1 = t1  t2 = t2  a1 = a1  a2 = a2  a3 = a3
    Task = {t1, t2}
    NoTask = NoTask
    Account = {a1, a2}
    MaxFailures = 2
    RetriesPerCredential = 2
    MaxTotalRetries = 2
    Answers <- AnythingForToken
    InitialFiles <- TokenFile
    Models = {FALSE}
    Priorities = {0}
    NewCredentials <- NoCredentials
    Ops = {"acquire", "force"}
    Faults = {}
    MaxCalls = 2
    MaxFaults = 0
INVARIANTS SendsWithinBudget ForcedOncePerCredential
PROPERTIES BlamedBeforeDisabled EveryRequestEnds
