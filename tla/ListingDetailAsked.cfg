\* Two listings; the user goes from one to the other with the dialog open.
SPECIFICATION DetailSpec
CHECK_DEADLOCK FALSE
CONSTANTS
    Shelf = {"a", "b"}
    PhotosOf <- TwoAndOne
    MaxMoves = 2
    MaxRequests = 1
INVARIANTS
    ActsOnTheListingAskedAbout
