SPECIFICATION Spec
CONSTANTS
    Clients = {c1, c2, c3}
    Foreign = {f1, f2}
    MaxStarts = 3
    MaxOps = 3
    None = None
SYMMETRY Symmetry
INVARIANTS
    TypeOK
    KernelMatches
    NeverFails
    StopLeavesNothing
    OpenIsAccepted
    WellPlaced
    LoggedIsAccepted
PROPERTIES
    ImplementsGate
CHECK_DEADLOCK FALSE
