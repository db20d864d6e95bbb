\* Two threads make, share, fold and drop the objects of a small registry.
SPECIFICATION FairSpec
CONSTANTS
    Threads = {t1, t2}
    Handles = {h1, h2}
    IdBound = 3
    OperandBound = 1
    Offered = {"provider", "join"}
    Domains = {d1, d2}
    Values <- MCValues
    Join <- MCJoin
    Meet <- MCMeet
    Sources <- OneSource
    Foreign = {}
    ForeignSource <- NoForeign
    Null = Null
    t1 = t1
    t2 = t2
    h1 = h1
    h2 = h2
    h3 = h3
    d1 = d1
    d2 = d2
    f1 = f1
    f2 = f2
\* The ids run out, and then every handle may be closed and no thread inside.
CHECK_DEADLOCK FALSE
INVARIANTS
    OwnedAreRegistered
    NoRegistryLeak
PROPERTIES
    EntriesAreImmutable
    ImplementsHostedResource
    OperationsEnd
