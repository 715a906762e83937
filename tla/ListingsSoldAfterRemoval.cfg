\* A sale beside a moderator's removal.
SPECIFICATION Spec
CONSTANTS
    Requests = {r1, r2}
    Ids = {l1}
    Contents = {c1, c2}
    Keys = {k1}
    MaxImages = 1
    None = None
SYMMETRY Symmetric
INVARIANTS
    RemovalLasts
