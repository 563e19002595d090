SPECIFICATION HostSpec
CONSTANTS
    Nil = Nil
    MaxFWMark = 100
    MaxFileChanges = 2
    IngressFlags <- Ingresses
    BalancerFlags <- Balancers
    MasterFlags <- Masters
    DaemonFlags <- Daemons
    ClientFlags <- ClientNodes
    EgressFlags <- ClientNodes
    Egresses <- ThreeEgresses
    EgressLists <- ThreeEgressLists
    Modes <- BothModes
    LabelMaps <- BothLabels
    Requests <- TwoRequests
    FlowIdle = 1
    MaxNow = 1
    MaxSelects = 3
    MaxReplaces = 1
    Own = "own"
    PeerLists <- FourLists
    MaxApplies = 3
    MaxBackoff = 5
    Procs = {p1, p2}
    Ifaces <- TwoIfaces
    CIDRs <- TwoRanges
    MaxCalls = 4
    PolicyLists <- FivePolicies
    ForeignRules <- TwoForeignRules
    HopLists <- ThreeHopLists
    Links = {"wg0", "wg1"}
    MaxPolicyCalls = 4
    MaxOps = 2
CHECK_DEADLOCK FALSE
INVARIANTS
    
    PolicySafe
    
PROPERTIES
    SelectionSafe
    ReloadSafe
    
