CONSTANTS
    a = a
    b = b
    Key <- Keys
    Question <- Questions
    First <- FirstTexts
    Text <- Texts
    Unit <- Units
    Loader = {p}
    MaxEntries = 2
    MaxUnits = 8
    File = {f1, f2}
    None = None
    MaxVersions = 2
    Faults = TRUE
SPECIFICATION Spec
SYMMETRY Symmetry
INVARIANTS
    VerdictsStand
    LoadsAsMeant
PROPERTY
    ImplementsStoreVersions
CHECK_DEADLOCK FALSE
