\* Three requests compete for one or two slots while the limit moves, the
\* configuration is replaced and the server stops.
SPECIFICATION FairSpec
CONSTANTS
    r1 = r1  r2 = r2  r3 = r3
    Request = {r1, r2, r3}
    Configs <- Reloads
    NoConfig = NoConfig
INVARIANTS NoLostWakeup CountIsExact LimitWithinBounds
PROPERTIES EveryWaiterIsAnswered
