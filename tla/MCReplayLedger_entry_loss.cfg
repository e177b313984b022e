SPECIFICATION Spec
CONSTANTS
    Proc = {p1, p2, p3}
    Token = {t1, t2}
    MaxRecords = 2
    Faults = FALSE
    Crashes = TRUE
    EntrySyncedByFile = FALSE
    Preexisting = FALSE
    Header = Header
    Torn = Torn
    Blank = Blank
SYMMETRY Symmetry
INVARIANTS
    AtMostOnce
CHECK_DEADLOCK FALSE
