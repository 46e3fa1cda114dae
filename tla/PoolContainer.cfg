\* Two users that get and give back regions, one completion handler; one chunk
\* and room for a second one beside it; the constructor and two calls of
\* setProtectionDomain.
CONSTANTS
    Thread = {t1, t2, c1}
    Completer = {c1}
    Owner = owner
    Region = {r1, r2}
    NumChunks = 1
    MaxCalls = 3
    None = None
SPECIFICATION FairSpec
INVARIANTS
    TypeOK
    NoDoubleGrant
    UseCountExact
    NoLostWakeup
PROPERTIES
    ReleasedOnlyWhenReturned
    WaiterProgress
    ImplementsRegionPool
