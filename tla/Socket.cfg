SPECIFICATION SocketSpec
CONSTANTS
    Tables = {mangle, filter, nat}
    MaxChanges = 4
    Null = Null
INVARIANTS
    SocketTypeOK
    CountsUsers
    NeverLeaks
