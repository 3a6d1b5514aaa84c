SPECIFICATION RelaysSpec
SYMMETRY Symmetry
ACTION_CONSTRAINT Reduced
CONSTANTS
    Offered = {{"f1", "f2", "f3", "f4"}, {"f1", "f2"}}
    Foreign = {"x1"}
    RegionOf <- Regions
    Place <- Order
    EntriesAuto = 3
    MaxVersion = 3
    Relay = {"m1", "m2"}
    Direct = {"d1"}
    NoID = "none"
    BadID = "bad"
    Lists <- MCLists
    Requests = {r1, r2, r3}
    PerExit = 1
    MaxObjects = 2
INVARIANTS
    CatalogSurvives
    LoadsMatch
    ListedCap
    KeepsServing
PROPERTIES
    ObjectsAllocate
    ForeignKept
    CacheServes
    EntriesSpread
