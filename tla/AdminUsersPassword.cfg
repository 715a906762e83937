\* Two accounts: one is reset, the page closes the dialog, the other is opened.
SPECIFICATION UsersSpec
CHECK_DEADLOCK FALSE
CONSTANTS
    Members = {"ana", "ben"}
INVARIANTS
    PasswordIsTheTargets
