CONSTANTS
    Views = {v1}
    Groups = {1, 2}
    ComponentOf <- OneComponent
    Policies <- Reorderings
    Split <- MCSplit
    MaxReplicas = 2
    UserReplicas = {0, 1}
    InitialReplicas <- Ones
    UserRequests = {"create", "scale", "policy", "delete", "edit"}
    MaxEdits = 3
    MaxCrashes = 0
    MaxStatusWrites = 0
    RetryLimit = 2
    ValidateScaleViews = TRUE
SPECIFICATION FairSpec
INVARIANTS
    LockAgreesWithView
PROPERTIES
    LockedGroupsMoveTogether
    ViewsServed
    DeadLockReleased
CHECK_DEADLOCK FALSE
