SPECIFICATION Spec
CONSTANTS
    Components = {"frontend", "compute"}
    Groups = {"g"}
    OpenKruiseAvailable = FALSE
    ForceUpdate = TRUE
    Specs <- Modes
    FirstSpecs <- MCFirst
    MaxEdits = 1
    MaxEvents = 0
    Informers <- SplitInformers
INVARIANT NothingExtra
CHECK_DEADLOCK FALSE
