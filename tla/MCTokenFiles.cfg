CONSTANTS
    a = a
    b = b
    c = c
    k = k
    quantum = quantum
    scalar = scalar
    model = model
    file = file
    shell = shell
    SafeCaps <- Safe
    GatedCaps <- Gated
    BlockedCaps <- Blocked
    OtherCaps = {}
    StableCaps <- Stable
    KeySize = 2
    SecretSizes = {1, 2}
    MaxContext = 1
    TimeLimit = 3
    Process <- Processes
    Scene <- Scenes
    Foreign <- ForeignTokens
SPECIFICATION Spec
INVARIANTS
    ApprovedAsIssued
    OneFilePerApproval
    IssuedIsHonoured
    KeysBelongTogether
CHECK_DEADLOCK FALSE
