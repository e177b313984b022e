SPECIFICATION Spec
CONSTANTS
    Process = {r1, r2}
    Token <- MCToken
    Session <- MCSession
    Issuer = {alice, mallory}
    Trustable = {alice}
    Revocable <- MCRevocable
    MaxClock = 3
    MaxShots = 2
    ShotWidth = 4
    TimeLimit = 8
    SafeCaps = {quantum}
    GatedCaps = {network}
    BlockedCaps = {shell}
    OtherCaps = {bit63}
    quantum = quantum
    network = network
    shell = shell
    bit63 = bit63
    alice = alice
    mallory = mallory
SYMMETRY Symmetry
INVARIANTS
    OneEntryPerToken
    RevokedNeverEnters
    SpentOnlyPastPreflight
    VmEntryAuthorised
    PreflightForesees
CHECK_DEADLOCK FALSE
