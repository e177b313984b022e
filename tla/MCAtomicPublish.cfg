SPECIFICATION Spec
CONSTANTS
    Publisher = {p1, p2}
    Reader = {r1}
    Pid = {n1, n2}
    Old = Old
    Stale = Stale
    None = None
    MaxTemp = 2
    Chunks = 2
    Faults = TRUE
    Kills = TRUE
    PowerFails = TRUE
SYMMETRY Symmetry
INVARIANTS
    ReadsWhole
    NamesOwned
PROPERTIES
    NoLitter
    ImplementsAtomicFile
CHECK_DEADLOCK FALSE
