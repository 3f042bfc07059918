\* Processes alone in a home or beside each other, killed and started again, and a
\* doctor that looks on.
SPECIFICATION Spec
CONSTANTS
    None = None
    Torn = Torn
    Process = {p, q}
    Key = {home, again, peer1}
    Handshake = {home, again}
VIEW Seen
SYMMETRY Interchangeable
CHECK_DEADLOCK FALSE
INVARIANTS
    NeverStuck
    WholeIsStartable
    AnsweredIsKept
    ForgottenIsGone
    DoctorIsCalm
    IInv
PROPERTIES
    SavesAreAtomic
