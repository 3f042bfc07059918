\* Addresses come and go, and a contact keeps asking.
SPECIFICATION Spec
CONSTANTS
    None = None
    Contact = {p}
    Spot = {home, v2, v3}
    Default = home
SYMMETRY Interchangeable
CHECK_DEADLOCK FALSE
INVARIANTS
    HeardFromIsKept
    FailureHasACause
    IInv
