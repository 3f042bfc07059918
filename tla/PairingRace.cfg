\* Two commands take the same alias at once.
SPECIFICATION Spec
CONSTANTS
    None = None
    a = a
    b = b
    ka = ka
    kb = kb
    home = home
    Key = {ka, kb, k1, k2, k3}
    Alias = {x}
    Spot = {home, away}
    Name = {fs}
    Sirji = {a, b}
    Device = {}
    Job = {j}
    Default = home
    HomeKey <- MCHomeKey
    OneAtATime = FALSE
    MaxCrashes = 1
    MaxFailures = 1
SYMMETRY Interchangeable
CHECK_DEADLOCK FALSE
INVARIANTS
    CanRestart
