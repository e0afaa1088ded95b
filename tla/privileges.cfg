SPECIFICATION FairSpec
CONSTANTS
    MaxIdleConns = 2
    MaxIncidents = 2
    Sessions = {"dev", "other"}
    Catalogue <- MCCatalogue
    Grants <- MCGrants
    FirstACLs <- MCFirstACLs
    PrivilegesOf <- MCPrivilegesOf
INVARIANTS
    SyncInv
    LeaksBounded
PROPERTIES
    RightPlace
    Converges
CHECK_DEADLOCK FALSE
