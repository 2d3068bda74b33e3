SPECIFICATION SocketSpec
CONSTANTS
    Tables = {mangle}
    MaxChanges = 2
    Null = Null
INVARIANTS
    RetryHasSocket
CHECK_DEADLOCK FALSE
