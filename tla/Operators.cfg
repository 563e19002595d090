SPECIFICATION OperatorsSpec
CONSTANTS
    W = 3
    Nil = Nil
    NoText = NoText
    BadText = BadText
    Editors = {o1, o2}
    Commands <- RangeCommands
    Ops = {o1, o2}
    File0 <- Files
    MaxEdits = 3
    Overrides <- Orders
    Nodes = {n1}
    Cmds = {o1, o2}
    Absent = Absent
    HalfWritten = HalfWritten
    Torn = Torn
    MaxSetupFaults = 1
    Missing = Missing
    MaxArchiveEdits = 2
    MaxBackupFaults = 2
    MaxSaves = 4
    MeshNodes = {1, 2, 3}
    MeshRoles <- ThreeRoles
    Rotations = {r1, r2}
    MaxRegistry = 1
    Handshakes = {h1, h2}
    Calls = {c1, c2}
    MaxVersion = 2
SYMMETRY Symmetry
CHECK_DEADLOCK FALSE
INVARIANTS
    
    
    StateFileSafe
    MeshRotationSafe
PROPERTIES
    
    SetupSafe
    
    
