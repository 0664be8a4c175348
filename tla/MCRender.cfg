SPECIFICATION Spec
CONSTANTS
    ResourceNames = {"cpu", "memory", "gpu"}
    Quantities = {"1", "2", "4G", "4000M"}
    DefaultCPUResource = "1"
    DefaultMemResource = "4G"
    Canonical <- MCCanonical
    Releases <- MCReleases
    Values <- MCValues
    Remotes <- MCRemotes
    Paths <- MCPaths
    FileNames = {"kubeconfig", "cert.pem", "data", "logs", "etc"}
    Clean <- MCClean
    Mounts <- MCMounts
    MaxMounts = 2
INVARIANT RenderInv
INVARIANT FindsCredentials
INVARIANT MountsServed
INVARIANT AdvertisesCapacity
CHECK_DEADLOCK FALSE
