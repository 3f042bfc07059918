\* A retired address that no peer's reached_on names may be all a peer has.
SPECIFICATION Spec
CONSTANTS
    None = None
    Contact = {p}
    Spot = {home, v2}
    Default = home
CHECK_DEADLOCK FALSE
INVARIANT
    DrainedIsDone
