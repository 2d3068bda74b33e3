SPECIFICATION FairSpec
CONSTANTS
    Clients = {c1, c2, c3}
    Durations = {1, 2, 3}
    MaxTime = 4
    MaxAdds = 4
    Faults = {}
    Ties = FALSE
    None = None
INVARIANTS
    BooksAgree
    TimerWatchesHead
PROPERTIES
    UnattendedNeverRaises
    NeverEarly
    ExpiredIsClosed
    ImplementsLeases
CHECK_DEADLOCK FALSE
