SPECIFICATION FairSpec
CONSTANTS
    Components = {"meta"}
    Groups = {"g"}
    OpenKruiseAvailable = TRUE
    ForceUpdate = TRUE
    Specs <- Modes
    FirstSpecs <- MCFirst
    MaxEdits = 1
    MaxEvents = 1
    Informers <- MCInformers
INVARIANTS
    QuietInv
    SettledWhenQuiet
PROPERTIES
    StatusMovesForward
    TouchesOwnObjects
    Settles
CHECK_DEADLOCK FALSE
