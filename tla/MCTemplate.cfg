SPECIFICATION FairSpec
CONSTANTS
    ResourceNames = {"cpu", "memory", "gpu"}
    Quantities = {"1", "2", "4G", "4000M"}
    DefaultCPUResource = "1"
    DefaultMemResource = "4G"
    Canonical <- MCCanonical
    Values <- SetValues
    MaxEdits = 1
    MaxCreates = 2
    MaxFaults = 1
    MaxCrashes = 1
    MaxPauses = 1
INVARIANT TypeOK
INVARIANT TemplateInv
INVARIANT CapacityComplete
INVARIANT CapacityAtRest
PROPERTY Settles
PROPERTY CapacityConverges
CHECK_DEADLOCK FALSE
