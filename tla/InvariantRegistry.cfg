\* Registries of up to four lines.
SPECIFICATION Spec
CONSTANTS
    Checkouts <- MCCheckouts
    Numbers <- MCNumbers
    NoRegistry = NoRegistry
\* The script returns.
CHECK_DEADLOCK FALSE
INVARIANTS
    AcceptsExactlyTheTraceable
    EveryFaultIsReported
