\* One command for an alias at a time: the daemon starts again, every command ends.
SPECIFICATION FairSpec
CONSTANTS
    None = None
    a = a
    b = b
    ka = ka
    kb = kb
    home = home
    Key = {ka, kb, k1, k2, k3}
    Alias = {x}
    Spot = {home, away}
    Name = {fs}
    Sirji = {a, b}
    Device = {d}
    Job = {j}
    Default = home
    HomeKey <- MCHomeKey
    OneAtATime = TRUE
    MaxCrashes = 1
    MaxFailures = 1
CHECK_DEADLOCK FALSE
INVARIANTS
    CanRestart
    Restarts
PROPERTIES
    CommandsEnd
