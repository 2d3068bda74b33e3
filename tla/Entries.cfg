SPECIFICATION Spec
CONSTANTS
    Slots = {s1, s2, s3, s4}
    MarkBits = {0, 1}
    PortMax = 3
    Word = 4
    None = None
    Bad = Bad
    Undefined = Undefined
    MatchCalls <- MCMatchCalls
    TargetCalls <- MCTargetCalls
    EntryCalls <- MCEntryCalls
    Kernels <- MCKernels
    Packets <- MCPackets
    Devices <- MCDevices
    IfNamSiz = 4
    MaxMatches = 2
    MaxSent = 1
    MaxMade = 4
SYMMETRY Symmetry
INVARIANTS
    RuleDoesWhatItSays
    RefusedForAReason
    NeverFreedInUse
    BestRevision
CHECK_DEADLOCK FALSE
