SPECIFICATION Spec
CONSTANTS
    Proc = {p1, p2}
    Token = {t1, t2}
    MaxRecords = 2
    Faults = FALSE
    Crashes = FALSE
    EntrySyncedByFile = TRUE
    Preexisting = FALSE
    Header = Header
    Torn = Torn
    Blank = Blank
SYMMETRY Symmetry
INVARIANTS
    ConcurrentCallsSucceed
CHECK_DEADLOCK FALSE
