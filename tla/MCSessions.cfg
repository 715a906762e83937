\* Two requests at a time, one user, chains of up to three tokens.
SPECIFICATION Spec
CONSTANTS
    Requests = {r1, r2}
    Users = {u1}
    Tokens = {t1, t2, t3}
    None = None
    MaxAudit = 2
SYMMETRY Symmetric
INVARIANTS
    IInv
    OneLivePerFamily
    OnlyOverlapSurvives
    OnlyReuseDeadlocks
PROPERTIES
    ImplementsTokenChains
    DeadFamilyStaysDead
