\* One thread, every operation, arrays of up to two operands, two domains and
\* a foreign resource.
SPECIFICATION Spec
CONSTANTS
    Threads = {t1}
    Handles = {h1, h2, h3}
    IdBound = 3
    OperandBound = 2
    Offered = {"provider", "value", "join", "meet", "equal", "stable_bytes", "diagnostic"}
    Domains = {d1, d2}
    Values <- MCValues
    Join <- MCJoin
    Meet <- MCMeet
    Sources <- TwoSources
    Foreign = {f1, f2}
    ForeignSource <- MCForeignSource
    Null = Null
    t1 = t1
    t2 = t2
    h1 = h1
    h2 = h2
    h3 = h3
    d1 = d1
    d2 = d2
    f1 = f1
    f2 = f2
SYMMETRY Symmetry
\* The ids run out, and then every handle may be closed and no thread inside.
CHECK_DEADLOCK FALSE
INVARIANTS
    ResultsAreRight
    DomainsNeverMix
    FailureLeavesNothing
    DiagnosticIsRecorded
