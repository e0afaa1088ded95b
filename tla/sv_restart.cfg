CONSTANTS
    Views = {v1}
    Groups = {1}
    ComponentOf <- OneComponent
    Policies <- OneGroup
    Split <- MCSplit
    MaxReplicas = 2
    UserReplicas = {2}
    InitialReplicas <- Ones
    UserRequests = {"create", "delete", "scale", "recreate"}
    MaxEdits = 4
    MaxCrashes = 1
    MaxStatusWrites = 1
    RetryLimit = 2
    ValidateScaleViews = TRUE
SPECIFICATION Spec
INVARIANTS
    ProgressInv
    LocksOfBoundViews
    SettledWhenIdle
PROPERTIES
    LiveLockKept
CHECK_DEADLOCK FALSE
