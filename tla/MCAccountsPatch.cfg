CONSTANTS
    Slots = {r1, r2}
    Operations = {"UpdateUser", "ChangePassword"}
    Origins = {"provisioned"}
    Roles = {"requester", "assignee"}
    Requester = "requester"
    TTL = 2
    MaxAttempts = 2
    Lockout = 3
    MayFail = FALSE
    MaxTime = 1
    MaxCodes = 1
    MaxPasswords = 2
    MaxGuesses = 1
SPECIFICATION Spec
SYMMETRY SlotSymmetry
CHECK_DEADLOCK FALSE
PROPERTIES
    NilFieldsAreLeftUnchanged
