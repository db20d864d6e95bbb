\* One thread, every operation.
SPECIFICATION Spec
CONSTANTS
    Threads = {t1}
    Handles = {h1, h2, h3}
    Addresses = {a1, a2, a3}
    OperandBound = 2
    Operations = {"provider", "join", "meet", "equal", "stable_bytes", "diagnostic", "host_value"}
    Finalizers = TRUE
    Domains = {d1, d2}
    Values <- MCValues
    Join <- MCJoin
    Meet <- MCMeet
    Sources <- TwoSources
    Foreign = {f1}
    ForeignSource <- MCForeignSource
    Null = Null
    t1 = t1
    t2 = t2
    h1 = h1
    h2 = h2
    h3 = h3
    a1 = a1
    a2 = a2
    a3 = a3
    d1 = d1
    d2 = d2
    f1 = f1
SYMMETRY Symmetry
INVARIANT
    ResultsAreRight
