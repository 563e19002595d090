SPECIFICATION RolloverSpec
CONSTANTS
    Nil = Nil
    h1 = h1
    h2 = h2
    n = 1
    Names = {1}
    Overlays = {1}
    Regions = {}
    Keys = {}
    Handlers = {h1, h2}
    Certs = {1, 2, 3}
    ValidFor = 4
    RenewBefore = 2
    PollInterval = 1
    Grace = 1
    MaxTime = 5
    MaxFaults = 2
    MaxFileFaults = 2
    MaxCrashes = 1
    Prompt = FALSE
SYMMETRY HandlerSymmetry
CHECK_DEADLOCK FALSE
INVARIANTS
    CredentialAccepted
    PairIntact
    PinnedInTime
