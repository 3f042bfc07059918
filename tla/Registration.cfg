\* A device serves in two processes, asks, is cut off, leaves and comes back.
SPECIFICATION FairSpec
CONSTANTS
    None = None
    NoHints = NoHints
    Name = {d}
    Process = {p, q}
    Conn = {c1, c2, c3}
    AskConn = {c3}
    Hint = {h1, h2}
    MaxFaults = 3
CHECK_DEADLOCK FALSE
INVARIANTS
    TypeOK
    LiveIsHeld
PROPERTIES
    DepartedIsForgotten
    ServingIsConnected
    MissingOnlyByDeparture
