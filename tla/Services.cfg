SPECIFICATION ServicesSpec
CONSTANTS
    MaxFailures = 2
    RouteLists <- ThreeLists
    Conns = {c1}
    Clients = {k1}
    IdleTimeout = 1
    MaxTime = 3
    MaxRequests = 2
    MaxUpdates = 1
    NodeMaps <- ZoneMaps
    Asked = {"n1", "N1", "n2"}
    MaxZones = 2
    Writers = {w1, w2}
    Capacity = 2
    MaxEvents = 4
CHECK_DEADLOCK FALSE
INVARIANTS
    MasterSafe
    DnsSafe
    AuditSafe
PROPERTIES
    MasterStops
    
    
    RuntimeEnds
