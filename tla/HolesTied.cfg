SPECIFICATION Spec
CONSTANTS
    Clients = {c1, c2}
    Durations = {1, 2}
    MaxTime = 3
    MaxAdds = 3
    Faults = {}
    Ties = TRUE
    None = None
INVARIANTS
    AlwaysWatched
CHECK_DEADLOCK FALSE
