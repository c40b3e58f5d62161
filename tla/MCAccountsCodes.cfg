CONSTANTS
    Slots = {r1, r2}
    Operations = {"RequestReset", "reset", "verification"}
    Origins = {"signed up", "provisioned", "bootstrap"}
    Roles = {"requester", "assignee"}
    Requester = "requester"
    TTL = 2
    MaxAttempts = 2
    Lockout = 2
    MayFail = TRUE
    MaxTime = 3
    MaxCodes = 3
    MaxPasswords = 2
    MaxGuesses = 4
SPECIFICATION Spec
SYMMETRY SlotSymmetry
CHECK_DEADLOCK FALSE
INVARIANTS
    CodesAreUsedOnce
    VerifiedByCode
    NewestCodeSurvives
    WrongGuessesAreSpaced
