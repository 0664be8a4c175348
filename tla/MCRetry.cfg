SPECIFICATION FairSpec
CONSTANTS
    m1 = m1
    mgmt = mgmt
    external = external
    team = team
    other = other
    padded = padded
    alpha = alpha
    Nobody = Nobody
    Clusters = {mgmt, external}
    Namespaces = {team, other}
    RawNamespaces = {padded, other}
    TrimSpace <- MCTrimSpace
    ManagementCluster = mgmt
    DefaultNamespace = other
    Names = {alpha}
    Machines = {m1}
    NameOf <- OneName
    NamespaceOf <- OneNamespace
    Home <- OneHome
    HollowChoices <- VanishingHollow
    Versions = {"supported"}
    Options = {FALSE}
    Disruptions = {"foreground", "secretEdit"}
    Resyncs = TRUE
    Labelled = {m1}
    MaxConcurrentReconciles = 1
    MaxFaults = 2
    MaxCrashes = 1
    MaxCreates = 1
    MaxPauses = 0
INVARIANT FirstLifeInv
INVARIANT ReadyHasPod
PROPERTY ProvisioningCompletes
PROPERTY DeletionCompletes
CHECK_DEADLOCK FALSE
