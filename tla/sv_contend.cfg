CONSTANTS
    Views = {v1, v2}
    Groups = {1, 2}
    ComponentOf <- OneComponent
    Policies <- Contending
    Split <- MCSplit
    MaxReplicas = 2
    UserReplicas = {0, 2}
    InitialReplicas <- Ones
    UserRequests = {"create", "delete", "policy"}
    MaxEdits = 3
    MaxCrashes = 0
    MaxStatusWrites = 0
    RetryLimit = 1
    ValidateScaleViews = TRUE
SPECIFICATION Spec
INVARIANTS
    LockInv
    LockExclusive
PROPERTIES
    ImplementsLockService
SYMMETRY ViewSymmetry
CHECK_DEADLOCK FALSE
