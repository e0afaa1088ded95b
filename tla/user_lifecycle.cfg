CONSTANTS
    Direct = FALSE
    Passwords <- MCPasswords
    UserRequests = {"create", "delete", "rotate", "ref", "stop", "recreate"}
    MaxEdits = 3
    MaxCrashes = 1
    MaxFaults = 1
    MaxTicks = 0
    MaxStaleReads = 1
SPECIFICATION FairSpec
INVARIANTS
    UserInv
    FinalizerBeforeUser
PROPERTIES
    DropOnlyDeleted
    RotationComplete
    UserProvisioned
    DeletionCompletes
CHECK_DEADLOCK FALSE
