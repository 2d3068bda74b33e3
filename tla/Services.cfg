SPECIFICATION Spec
CONSTANTS
    Ann = Ann
    Bob = Bob
    Clients <- MCClients
    Packets <- MCPackets
    Extra <- MCExtra
    LogGroup = 2
    MaxQueue = 2
INVARIANTS HolesAreHeard StopLeavesNoRedirection
PROPERTIES RedirectionIsServed WholeRequestsArePosted
