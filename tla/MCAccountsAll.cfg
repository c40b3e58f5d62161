CONSTANTS
    Slots = {r1, r2}
    Operations = {"RequestReset", "reset", "UpdateUser", "ChangePassword", "ResetPassword"}
    Origins = {"bootstrap"}
    Roles = {"requester"}
    Requester = "requester"
    TTL = 2
    MaxAttempts = 2
    Lockout = 3
    MayFail = TRUE
    MaxTime = 0
    MaxCodes = 2
    MaxPasswords = 3
    MaxGuesses = 1
SPECIFICATION Spec
SYMMETRY SlotSymmetry
CHECK_DEADLOCK FALSE
INVARIANTS
    TypeOK
    TemporaryPasswordsMustBeChanged
PROPERTIES
    OnlyPatchesBringPasswordsBack
