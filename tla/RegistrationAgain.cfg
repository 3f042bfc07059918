\* A device that does not ask is cut off, or restarted, once.
SPECIFICATION Spec
CONSTANTS
    None = None
    NoHints = NoHints
    Name = {d}
    Process = {p}
    Conn = {c1, c2}
    Hint = {h1}
    AskConn = {}
    MaxFaults = 1
SYMMETRY Interchangeable
CHECK_DEADLOCK FALSE
INVARIANTS
    ConnectedIsLive
