\* One edit here, one in another window.
SPECIFICATION EditSpec
CHECK_DEADLOCK FALSE
CONSTANTS
    Fields = {"title", "price"}
    MaxVersions = 3
INVARIANTS
    SubmitsDiff
