\* Two threads configure, create, share, call and release; two host contexts go
\* through two addresses.
SPECIFICATION FairSpec
CONSTANTS
    Threads = {t1, t2}
    Contexts = {c1, c2}
    Handles = {h1, h2, h3}
    HostContexts = {x1, x2}
    Null = Null
    drop = drop
    join = join
    f = f
    g = g
    Slots <- MCSlots
    DropSlot = drop
    Functions <- MCFunctions
    Tables <- MCTables
INVARIANTS
    InstalledWhole
    TableAgreement
    ReferencesExact
    NoDanglingContext
    CallsSeeLiveHosts
    DroppedExactlyOnce
PROPERTIES
    TableFrozen
    ImplementsHostedResource
    LockReleased
    RecordFreed
