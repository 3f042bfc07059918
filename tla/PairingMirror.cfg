\* An answer is lost after the inviter has saved.
SPECIFICATION Spec
CONSTANTS
    None = None
    a = a
    b = b
    ka = ka
    kb = kb
    home = home
    Key = {ka, kb, k1, k2}
    Alias = {x}
    Spot = {home}
    Name = {fs}
    Sirji = {a, b}
    Device = {}
    Job = {j}
    Default = home
    HomeKey <- MCHomeKey
    OneAtATime = FALSE
    MaxCrashes = 0
    MaxFailures = 0
SYMMETRY Interchangeable
CHECK_DEADLOCK FALSE
INVARIANTS
    MirrorAtRest
