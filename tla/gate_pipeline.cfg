SPECIFICATION Spec
CONSTANTS
    Ops = {"o1"}
    Sites = {"s1"}
    Targets = {"t1"}
    Commands <- ByTheBook
    Kinds <- SomeKinds
    Routes <- OneRoute
    Edits <- SomeEdits
    MaxChanges = 2
    None = None
INVARIANTS
    TypeOK
    UnprovenNeverAbsorbed
    DirtyHostIsKnown
    IInv
PROPERTIES
    KeepsPromise
    LedgerAppendOnly
    WriteBackRespectsChecked
CHECK_DEADLOCK FALSE
