\* A second reset beside the password change that the first one forced.
SPECIFICATION Spec
CONSTANTS
    Requests = {r1, r2}
    Ids = {u1}
    Addresses = {a1}
    Names = {n1}
    Chosen = {c1, c2}
    Temporary = {p1, p2}
    NewPasswords = {c1, c2}
    None = None
SYMMETRY Symmetric
INVARIANTS
    TemporaryMustBeReplaced
