SPECIFICATION Spec
CONSTANTS
    m1 = m1
    mgmt = mgmt
    external = external
    team = team
    other = other
    padded = padded
    alpha = alpha
    Nobody = Nobody
    Clusters = {mgmt, external}
    Namespaces = {team, other}
    RawNamespaces = {padded, other}
    TrimSpace <- MCTrimSpace
    ManagementCluster = mgmt
    DefaultNamespace = other
    Names = {alpha}
    Machines = {m1}
    NameOf <- OneName
    NamespaceOf <- OneNamespace
    Home <- OneHome
    HollowChoices <- FixedHollow
    Versions = {"supported"}
    Options = {FALSE}
    Disruptions = {}
    Resyncs = TRUE
    Labelled = {m1}
    MaxConcurrentReconciles = 1
    MaxFaults = 0
    MaxCrashes = 0
    MaxCreates = 2
    MaxPauses = 0
INVARIANT ReadyHasPod
CHECK_DEADLOCK FALSE
