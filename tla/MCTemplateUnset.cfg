SPECIFICATION FairSpec
CONSTANTS
    ResourceNames = {"cpu", "memory", "gpu"}
    Quantities = {"1", "2", "4G", "4000M"}
    DefaultCPUResource = "1"
    DefaultMemResource = "4G"
    Canonical <- MCCanonical
    Values <- AnyValues
    MaxEdits = 1
    MaxCreates = 1
    MaxFaults = 0
    MaxCrashes = 0
    MaxPauses = 0
INVARIANT CapacityHonest
CHECK_DEADLOCK FALSE
