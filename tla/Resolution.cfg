\* Tickets are asked for, lent, and outlive their time.
SPECIFICATION Spec
CONSTANTS
    None = None
    r = r
    s = s
    kr = kr
    ks = ks
    d = d
    e = e
    f = f
    laptop = laptop
    nas = nas
    friend = friend
    Sirji = {r, s}
    Device = {d, e, f}
    Parent <- MCParent
    Name = {laptop, nas}
    NameOf <- MCNameOf
    Alias = {friend}
    Called <- MCCalled
    Key = {kr, ks, k1}
    HomeKey <- MCHomeKey
    Ask = {q}
    LIFETIME = 0
    MaxMinted = 1
    MaxNow = 1
CHECK_DEADLOCK FALSE
INVARIANTS
    TypeOK
    IInv
    ServedIsAcquainted
    AnswerOpens
    Answering
PROPERTIES
    AdmissionKept
