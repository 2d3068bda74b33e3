SPECIFICATION Spec
CONSTANTS
    Names = {2, 4, 6, 8}
    Objects = {1, 2, 3, 4, 5}
    Address <- MCAddress
    BUCKET_LEN = 1
    INSERT_MAX = 1
    MaxDisturbances = 2
    ListHead = ListHead
    BuiltIn = BuiltIn
    NULL = NULL
INVARIANTS
    FindsExactly
    IndexIsLive
    BsearchIsLinear
    IteratorIsLive
CHECK_DEADLOCK FALSE
