\* Two sirjis and a device: overlapping commands, crashes and failed writes.
SPECIFICATION Spec
CONSTANTS
    None = None
    a = a
    b = b
    ka = ka
    kb = kb
    home = home
    Key = {ka, kb, k1, k2, k3}
    Alias = {x, y}
    Spot = {home}
    Name = {fs}
    Sirji = {a, b}
    Device = {d}
    Job = {j, l}
    Default = home
    HomeKey <- MCHomeKey
    OneAtATime = FALSE
    MaxCrashes = 2
    MaxFailures = 2
SYMMETRY Interchangeable
CHECK_DEADLOCK FALSE
INVARIANTS
    TypeOK
    KeyBeforeEntry
    Unlinkable
    AcceptedImpliesMirrored
    PeerKeysApart
    OneExchange
    EnrolledImpliesKnown
    IInv
    Once
PROPERTIES
    InvitationKept
    RelationshipsStay
