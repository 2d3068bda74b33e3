SPECIFICATION Spec
CONSTANTS
    Clients = {c1, c2, c3}
    Durations = {1, 2}
    MaxTime = 4
    MaxAdds = 4
    Faults = {"add", "remove"}
    Ties = FALSE
    None = None
INVARIANTS
    TypeOK
    TimerNeverLate
PROPERTIES
    StoppedByFirewallOnly
CHECK_DEADLOCK FALSE
