SPECIFICATION FairSpec
CONSTANTS
    Ips = {i1, i2}
    Ports = {40001}
    Requests = {r1, r2}
    MaxSessions = 2
    Lengths = {2}
    MaxTime = 2
    MaxAdds = 2
    Faults = {"add", "remove"}
    Ties = TRUE
    None = None
INVARIANTS
    WithinSession
    RuleNeedsHole
PROPERTIES
    
    Answered
CHECK_DEADLOCK FALSE
