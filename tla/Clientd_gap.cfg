SPECIFICATION FairSpec
CONSTANTS
    Nil = Nil
    w1 = w1
    w2 = w2
    n1 = n1
    n2 = n2
    Names = {1}
    Overlays = {1}
    ValidOverlays = {1}
    Writers = {w1, w2}
    Nodes = {n1}
    Kinds = {"ownership"}
    subscriberBuffer = 1
    MaxVersion = 2
    MaxRestarts = 0
    MaxCrashes = 0
CHECK_DEADLOCK FALSE
PROPERTIES
    UpdatesArrive
