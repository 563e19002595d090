SPECIFICATION OperationsSpec
CONSTANTS
    Ops = {o1, o2}
    K0 = K0
    Nil = Nil
    Torn = Torn
    MaxFaults = 2
    m1 = m1
    m2 = m2
    Masters <- TwoMasters
    EndpointMasters = {m1, m2, m3}
    NoFile = NoFile
    TornFile = TornFile
    Nodes = {m, e}
    Endpoints = {e}
    Images = {v1, v2, bad}
    First = v1
    InvalidRefs = {bad}
    Budget = 2
    MaxAttempts = 2
    MaxUpgrades = 2
    MaxUpgradeFaults = 3
CHECK_DEADLOCK FALSE
INVARIANTS
    RotationOutcome
    AdminFileSafe
    UpgradeSafe
    TiersSafe
PROPERTIES
    RotationEnds
    
