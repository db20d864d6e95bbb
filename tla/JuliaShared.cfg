\* Two threads share two handles; addresses are used again.
SPECIFICATION FairSpec
CONSTANTS
    Threads = {t1, t2}
    Handles = {h1, h2}
    Addresses = {a1, a2}
    OperandBound = 1
    Operations = {"provider", "join", "equal"}
    Finalizers = FALSE
    Domains = {d1, d2}
    Values <- MCValues
    Join <- MCJoin
    Meet <- MCMeet
    Sources <- OneSource
    Foreign = {}
    ForeignSource <- NoForeign
    Null = Null
    t1 = t1
    t2 = t2
    h1 = h1
    h2 = h2
    h3 = h3
    a1 = a1
    a2 = a2
    a3 = a3
    d1 = d1
    d2 = d2
    f1 = f1
INVARIANTS
    CountsAreExact
    ContextsAreLive
PROPERTY
    ClosedIsCollected
