CONSTANTS
    Views = {v1, v2}
    Groups = {1, 2, 3, 4, 5, 6}
    ComponentOf <- PairedComponents
    Policies <- TwoTriples
    Split <- MCSplit
    MaxReplicas = 3
    UserReplicas = {}
    InitialReplicas <- Unbalanced
    UserRequests = {"create"}
    MaxEdits = 2
    MaxCrashes = 0
    MaxStatusWrites = 0
    RetryLimit = 1
    ValidateScaleViews = TRUE
SPECIFICATION FairSpec
PROPERTIES
    ViewsServed
CHECK_DEADLOCK FALSE
