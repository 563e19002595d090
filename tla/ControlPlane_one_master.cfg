SPECIFICATION Spec
CONSTANTS
    Nil = Nil
    m1 = 1
    m2 = 2
    m3 = 3
    c1 = 4
    c2 = 5
    r1 = r1
    r2 = r2
    k1 = k1
    k2 = k2
    cert = cert
    Names = {1, 4, 5}
    Overlays = {1, 4, 5}
    ValidOverlays = {1, 4}
    Regions = {r1, r2}
    Certs = {cert}
    Keys = {k1}
    HeartbeatKeys = {k1}
    Handlers = {p1, p2}
    Requests <- OneMaster
    Self = Nil
    MaxVersion = 4
SYMMETRY HandlerSymmetry
CHECK_DEADLOCK FALSE
INVARIANTS
    TypeOK
    RegistryIndexesAgree
    NobodyLeftUnseeded
