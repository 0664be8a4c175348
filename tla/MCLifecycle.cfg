SPECIFICATION Spec
CONSTANTS
    m1 = m1
    mgmt = mgmt
    external = external
    team = team
    other = other
    padded = padded
    alpha = alpha
    Nobody = Nobody
    Clusters = {mgmt, external}
    Namespaces = {team, other}
    RawNamespaces = {padded, other}
    TrimSpace <- MCTrimSpace
    ManagementCluster = mgmt
    DefaultNamespace = other
    Names = {alpha}
    Machines = {m1}
    NameOf <- OneName
    NamespaceOf <- OneNamespace
    Home <- OneHome
    HollowChoices <- BrokenHollow
    Versions = {"old", "supported"}
    Options = {TRUE}
    Disruptions = {"foreground", "ownerLoss", "secretEdit"}
    Resyncs = FALSE
    Labelled = {m1}
    MaxConcurrentReconciles = 1
    MaxFaults = 1
    MaxCrashes = 1
    MaxCreates = 1
    MaxPauses = 0
INVARIANT TypeOK
INVARIANT NoOrphan
INVARIANT ReadyHasPod
INVARIANT ReadyHasProviderID
PROPERTY ForeignFinalizerKept
PROPERTY LifeCycle
CHECK_DEADLOCK FALSE
