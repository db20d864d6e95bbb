\* Every class, up to three samples.
SPECIFICATION Spec
CONSTANTS
    Algebras <- MCAlgebras
    Carrier <- MCCarrier
    Join <- MCJoin
    Meet <- MCMeet
    Equal <- MCEqual
    SampleBound = 3
    e1 = e1
    e2 = e2
\* The checker ends.
CHECK_DEADLOCK FALSE
INVARIANTS
    AcceptedAreBounds
    LatticesPass
    FirstCounterexample
