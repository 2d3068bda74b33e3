SPECIFICATION Spec
CONSTANTS
    BuiltIns = {0}
    UserChains = {1, 2}
    Modules = {LOG}
    MaxInitial = 1
    MaxRules = 2
    MaxEdits = 2
    MaxReads = 1
    MaxPackets = 1
    Given = 7
    Modulus = 8
    None = None
INVARIANTS
    TypeOK
    ReferencesCount
    KeepsCounters
PROPERTIES
    CommitIsExact
CHECK_DEADLOCK FALSE
