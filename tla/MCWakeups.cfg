SPECIFICATION FairSpec
CONSTANTS
    m1 = m1
    mgmt = mgmt
    external = external
    team = team
    other = other
    padded = padded
    alpha = alpha
    Nobody = Nobody
    Clusters = {mgmt, external}
    Namespaces = {team, other}
    RawNamespaces = {padded, other}
    TrimSpace <- MCTrimSpace
    ManagementCluster = mgmt
    DefaultNamespace = other
    Names = {alpha}
    Machines = {m1}
    NameOf <- OneName
    NamespaceOf <- OneNamespace
    Home <- ManagementHome
    HollowChoices <- ManagementHollow
    Versions = {"supported"}
    Options = {FALSE}
    Disruptions = {"clusterUnpause"}
    Resyncs = FALSE
    Labelled = {m1}
    MaxConcurrentReconciles = 1
    MaxFaults = 0
    MaxCrashes = 0
    MaxCreates = 2
    MaxPauses = 1
INVARIANT CleanupInv
INVARIANT PodHasSecret
PROPERTY LifeCycle
PROPERTY ProvisioningCompletes
PROPERTY DeletionCompletes
CHECK_DEADLOCK FALSE
