\* Two requests at a time; no symmetry, because the property is a liveness one.
SPECIFICATION FairSpec
CONSTANTS
    Requests = {r1, r2}
    Users = {u1}
    Tokens = {t1, t2}
    None = None
    MaxAudit = 2
PROPERTIES
    RequestsFinish
