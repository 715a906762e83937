\* Three requests at a time on up to two accounts; people type passwords of their own.
\* Threads that may be held up for two ticks of a window of three.
SPECIFICATION ServicesSpec
CONSTANTS
    Requests = {r1, r2, r3}
    Ids = {u1, u2}
    Addresses = {a1, a2}
    Names = {n1, n2}
    Chosen = {c1, c2}
    Temporary = {p1, p2}
    NewPasswords = {c1, c2}
    None = None
    Threads = {t1, t2}
    Clients = {k1}
    Limit = 2
    Window = 3
    MaxDelay = 2
    MaxTime = 8
    MaxCount = 3
    Nothing = Nothing
SYMMETRY SymmetricServices
INVARIANTS
    TypeOK
    OneAccountPerAddress
    FlagFollowsPassword
    LimiterTypeOK
    FirstLimitAdmitted
    BurstBounded
PROPERTIES
    WindowsMoveOn
