SPECIFICATION Spec
CONSTANTS
    Proc = {p1, p2, p3}
    Token = {t1, t2, t3}
    MaxRecords = 2
    Faults = TRUE
    Crashes = TRUE
    EntrySyncedByFile = TRUE
    Preexisting = FALSE
    Header = Header
    Torn = Torn
    Blank = Blank
SYMMETRY Symmetry
INVARIANTS
    TypeOK
    AtMostOnce
    GrantedIsDurable
    LookupNeverForgets
    CreationRaceLostOnce
PROPERTIES
    SyncedPrefixStable
    ImplementsAttemptOnce
CHECK_DEADLOCK FALSE
