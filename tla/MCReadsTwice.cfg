CONSTANTS
    Recipients = {ann}
    ReadSlots = {r1, r2}
    ReadsMayFail = FALSE
    MaxNotifications = 1
    MaxTime = 2
SPECIFICATION ReadsSpec
CHECK_DEADLOCK FALSE
PROPERTIES
    ChangesOnce
