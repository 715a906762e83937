\* A suspension beside a login or a refresh of the same user.
SPECIFICATION Spec
CONSTANTS
    Requests = {r1, r2}
    Users = {u1}
    Tokens = {t1, t2}
    None = None
    MaxAudit = 2
SYMMETRY Symmetric
INVARIANTS
    SuspensionCutsSessions
