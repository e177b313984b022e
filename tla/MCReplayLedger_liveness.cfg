SPECIFICATION FairSpec
CONSTANTS
    Proc = {p1, p2}
    Token = {t1, t2}
    MaxRecords = 1
    Faults = TRUE
    Crashes = TRUE
    EntrySyncedByFile = TRUE
    Preexisting = FALSE
    Header = Header
    Torn = Torn
    Blank = Blank
PROPERTIES
    EveryCallReturns
CHECK_DEADLOCK FALSE
