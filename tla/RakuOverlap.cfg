\* Two threads whose callbacks overlap.
SPECIFICATION Spec
CONSTANTS
    Threads = {t1, t2}
    Handles = {h1, h2}
    IdBound = 2
    OperandBound = 1
    Offered = {"provider", "equal"}
    Domains = {d1, d2}
    Values <- MCValues
    Join <- MCJoin
    Meet <- MCMeet
    Sources <- OneSource
    Foreign = {}
    ForeignSource <- NoForeign
    Null = Null
    t1 = t1
    t2 = t2
    h1 = h1
    h2 = h2
    h3 = h3
    d1 = d1
    d2 = d2
    f1 = f1
    f2 = f2
CHECK_DEADLOCK FALSE
INVARIANT
    OverlappingCallsFindTheirContexts
