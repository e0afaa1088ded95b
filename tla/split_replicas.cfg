CONSTANTS
    GroupCount = 3
    Priorities = {0, 1}
    Limits = {0, 1, 2}
    MaxInt32 = 6
SPECIFICATION Spec
INVARIANTS
    KeepsPromises
PROPERTIES
    OneGroupGrows
    Stable
CHECK_DEADLOCK FALSE
