CONSTANTS
    Direct = TRUE
    Passwords <- MCPasswords
    UserRequests = {"create", "delete"}
    MaxEdits = 2
    MaxCrashes = 0
    MaxFaults = 0
    MaxTicks = 0
    MaxStaleReads = 0
SPECIFICATION Spec
INVARIANTS
    NoOrphan
CHECK_DEADLOCK FALSE
