\* Two requests on one listing that holds at most three images, with a key to spare.
\* No symmetry, because RequestsFinish is a liveness property.
SPECIFICATION FairSpec
CONSTANTS
    Requests = {r1, r2}
    Ids = {l1}
    Contents = {c1, c2}
    Keys = {k1, k2, k3, k4}
    MaxImages = 3
    None = None
INVARIANTS
    TypeOK
    ImagesInOrder
    NoDanglingImage
PROPERTIES
    ImagesOnlyWhileAvailable
    ImplementsListingLife
    RequestsFinish
