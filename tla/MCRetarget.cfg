SPECIFICATION Spec
CONSTANTS
    m1 = m1
    mgmt = mgmt
    external = external
    team = team
    other = other
    padded = padded
    alpha = alpha
    Nobody = Nobody
    Clusters = {mgmt, external}
    Namespaces = {default, team, other}
    RawNamespaces = {padded, other}
    TrimSpace <- MCTrimSpace
    ManagementCluster = mgmt
    DefaultNamespace = default
    Names = {alpha}
    Machines = {m1}
    NameOf <- OneName
    NamespaceOf <- OneNamespace
    Home <- OneHome
    HollowChoices <- MovingHollow
    Versions = {"supported"}
    Options = {FALSE}
    Disruptions = {"secretEdit", "retarget"}
    Resyncs = TRUE
    Labelled = {m1}
    MaxConcurrentReconciles = 1
    MaxFaults = 0
    MaxCrashes = 0
    MaxCreates = 1
    MaxPauses = 0
INVARIANT NoOrphan
CHECK_DEADLOCK FALSE
