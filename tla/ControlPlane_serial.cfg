SPECIFICATION Spec
CONSTANTS
    Nil = Nil
    m1 = 1
    m2 = 2
    m3 = 3
    c1 = 4
    c2 = 5
    r1 = r1
    r2 = r2
    k1 = k1
    k2 = k2
    cert = cert
    Names = {1, 2, 4}
    Overlays = {1, 2, 4}
    ValidOverlays = {1, 2, 4}
    Regions = {r1, r2}
    Certs = {cert}
    Keys = {k1, k2}
    HeartbeatKeys = {}
    Handlers = {p1}
    Requests <- EmbeddedMaster
    Self <- M1
    MaxVersion = 7
SYMMETRY HandlerSymmetry
CHECK_DEADLOCK FALSE
INVARIANTS
    OwnersAreRegisteredMasters
    
