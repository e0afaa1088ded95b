SPECIFICATION FairSpec
CONSTANTS
    MetaPods = {"m0", "m1"}
    MaxTroubles = 2
    Ordinals = {0, 1}
    Templates = {"a", "b"}
    FirstTemplate = "a"
    MaxChanges = 2
INVARIANTS
    LabelerInv
    StrategyInv
    RolledOutMeansUpdated
PROPERTIES
    LabelsSettle
    UpToDatePodsSpared
    RolloutSettles
CHECK_DEADLOCK FALSE
