SPECIFICATION Spec
CONSTANTS
    EnvNames <- MCEnvNames
    Paths = {"", "data", "data/", "/data", "other", "r1", "r2"}
    FirstSpecs <- MCFirstSpecs
    Edits <- MCEdits
    MaxEdits = 2
    MaxRestarts = 1
INVARIANTS
    FactoryInv
    EnvironmentSound
    TemplateScope
PROPERTIES
    IdentityKept
    RootRecordedOnce
CHECK_DEADLOCK FALSE
