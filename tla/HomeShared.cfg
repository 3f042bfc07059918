\* Two daemons in one home.
SPECIFICATION Spec
CONSTANTS
    None = None
    Torn = Torn
    Process = {p, q}
    Key = {home, peer1}
    Handshake = {home}
CHECK_DEADLOCK FALSE
INVARIANT
    FileIsWhole
