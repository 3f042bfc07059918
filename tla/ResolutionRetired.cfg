\* A parent retires the address its devices know it by.
SPECIFICATION Spec
CONSTANTS
    None = None
    r = r
    s = s
    kr = kr
    ks = ks
    d = d
    e = e
    f = f
    laptop = laptop
    nas = nas
    friend = friend
    Sirji = {r, s}
    Device = {d, e, f}
    Parent <- MCParent
    Name = {laptop, nas}
    NameOf <- MCNameOf
    Alias = {friend}
    Called <- MCCalled
    Key = {kr, ks, k1}
    HomeKey <- MCHomeKey
    Ask = {q}
    LIFETIME = 1
    MaxMinted = 2
    MaxNow = 0
CHECK_DEADLOCK FALSE
INVARIANTS
    AnswerAlwaysOpens
