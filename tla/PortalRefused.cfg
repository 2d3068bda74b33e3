SPECIFICATION FairSpec
CONSTANTS
    Ips = {i1}
    Ports = {40001}
    Requests = {r1, r2}
    MaxSessions = 2
    Lengths = {2}
    MaxTime = 2
    MaxAdds = 2
    Faults = {}
    Ties = FALSE
    None = None
PROPERTIES
    NeverRefusedWithHole
CHECK_DEADLOCK FALSE
