---------------------------- MODULE ReplayLedger ----------------------------
(***************************************************************************)
(* The persistent replay ledger (src/replay_ledger.c): qnova processes     *)
(* that share one QNRL1 file, coordinate through a POSIX advisory lock on  *)
(* it, and may fail, crash or lose power between any two system calls.     *)
(*                                                                         *)
(* A process makes one call, consume or contains, as the command line does *)
(* (main.c calls the ledger once per run).  The file is abstracted to      *)
(* cells: cell 0 is the 6-byte header, cell i > 0 the i-th 65-byte record, *)
(* and Torn is a cell only some of whose bytes were written, which every   *)
(* validation refuses (bad size, header, LF or hex digit).  A process's    *)
(* pc names the system call it makes next.                                 *)
(*                                                                         *)
(* Not modelled: someone else replacing, truncating or re-permissioning    *)
(* the ledger (the documentation requires a trusted directory).            *)
(***************************************************************************)
EXTENDS Naturals

CONSTANTS
    Proc,                   \* processes, each making one call
    Token,                  \* token digests, never all-zero
    MaxRecords,             \* QN_REPLAY_LEDGER_MAX_RECORDS
    Faults,                 \* may a system call fail?
    Crashes,                \* may a process die or the power go?
    EntrySyncedByFile,      \* does fsync(file) also persist its directory entry?
    Preexisting,            \* does a header-only ledger exist at the start?
    Header, Torn, Blank     \* cell contents that are not tokens

ASSUME LedgerAssumption ==
    /\ MaxRecords \in Nat \ {0}
    /\ Faults \in BOOLEAN /\ Crashes \in BOOLEAN
    /\ EntrySyncedByFile \in BOOLEAN /\ Preexisting \in BOOLEAN
    /\ Header \notin Token /\ Torn \notin Token /\ Blank \notin Token
    /\ Header # Torn /\ Header # Blank /\ Torn # Blank

MaxAttempts == 3            \* the loop of open_for_consume

VARIABLES
    pc, op, tok,            \* the call of each process and where it is
    created, attempt,       \* locals of qn_replay_ledger_consume / open_for_consume
    at,                     \* append_at, in cells
    status, seen,           \* the call's status and the lookup's answer
    lock,                   \* the advisory lock each process holds
    exists, entrySynced,    \* the directory entry, and whether it is on disk
    eof, cell,              \* the file as processes see it
    synced,                 \* how many leading cells are on disk
    grants,                 \* history: calls that returned consumed = true
    known                   \* history: was the token granted when the call began?

callVars == <<op, tok, created, attempt, at, seen, known>>
fileVars == <<exists, entrySynced, eof, cell, synced>>
vars == <<pc, op, tok, created, attempt, at, status, seen, lock, exists,
          entrySynced, eof, cell, synced, grants, known>>

Slot == 0..MaxRecords
Cell == Token \cup {Header, Torn, Blank}
PC == {"idle", "open", "create", "lock", "validate", "header", "headerTorn",
       "record", "recordTorn", "fsync", "dirsync", "unlock", "close",
       "done", "dead"}
Status == {"ok", "io", "malformed", "replayed", "full"}

TypeOK ==
    /\ pc \in [Proc -> PC]
    /\ op \in [Proc -> {"consume", "contains"}]
    /\ tok \in [Proc -> Token]
    /\ created \in [Proc -> BOOLEAN]
    /\ attempt \in [Proc -> 0..MaxAttempts]
    /\ at \in [Proc -> 0..MaxRecords + 1]
    /\ status \in [Proc -> Status]
    /\ seen \in [Proc -> BOOLEAN]
    /\ lock \in [Proc -> {"none", "shared", "exclusive"}]
    /\ exists \in BOOLEAN /\ entrySynced \in BOOLEAN
    /\ eof \in 0..MaxRecords + 1
    /\ cell \in [Slot -> Cell]
    /\ synced \in 0..MaxRecords + 1
    /\ grants \in [Token -> Nat]
    /\ known \in [Proc -> BOOLEAN]

-----------------------------------------------------------------------------
(* The file *)

NoCells == [s \in Slot |-> Blank]

\* Mutant of RecordedIn: the loop stops before the last record.
RecordedInMissesLast(t) == \E s \in 1..(eof - 2) : cell[s] = t

\* The records a loop over the validated file reads.
RecordedIn(t) == \E s \in 1..(eof - 1) : cell[s] = t

\* validate_fd accepts: full header, then full records only.
WellFormed ==
    /\ eof > 0 /\ cell[0] = Header
    /\ \A s \in 1..(eof - 1) : cell[s] \in Token

\* pwrite of (part of) cell x at position s, extending the file if needed.
Put(s, x) ==
    /\ cell' = [cell EXCEPT ![s] = x]
    /\ eof' = IF s >= eof THEN s + 1 ELSE eof
    /\ UNCHANGED <<exists, entrySynced, synced>>

\* Mutant of LockFree: a consumer asks for a shared lock.
LockFreeShared(p) == \A q \in Proc \ {p} : lock[q] = "exclusive" => op[p] = "consume"

\* fcntl(F_SETLKW) is granted: shared locks exclude an exclusive one, an
\* exclusive lock excludes every other.
LockFree(p) ==
    \A q \in Proc \ {p} :
        /\ lock[q] # "exclusive"
        /\ op[p] = "consume" => lock[q] = "none"

-----------------------------------------------------------------------------
(* One process *)

Init ==
    /\ pc = [p \in Proc |-> "idle"]
    /\ op \in [Proc -> {"consume", "contains"}]
    /\ tok \in [Proc -> Token]
    /\ created = [p \in Proc |-> FALSE]
    /\ attempt = [p \in Proc |-> 0]
    /\ at = [p \in Proc |-> 0]
    /\ status = [p \in Proc |-> "ok"]
    /\ seen = [p \in Proc |-> FALSE]
    /\ lock = [p \in Proc |-> "none"]
    /\ exists = Preexisting /\ entrySynced = Preexisting
    /\ eof = IF Preexisting THEN 1 ELSE 0
    /\ cell = [NoCells EXCEPT ![0] = IF Preexisting THEN Header ELSE Blank]
    /\ synced = IF Preexisting THEN 1 ELSE 0
    /\ grants = [t \in Token |-> 0]
    /\ known = [p \in Proc |-> FALSE]

GoTo(p, l) == pc' = [pc EXCEPT ![p] = l]

\* The rest of a call after an error found while the descriptor is open:
\* a creator still synchronizes the directory.
Tail(p) == IF created[p] THEN "dirsync" ELSE "unlock"

\* Entry of either function: the arguments are valid, the directory opens.
Begin(p) ==
    /\ pc[p] = "idle"
    /\ GoTo(p, "open")
    /\ known' = [known EXCEPT ![p] = grants[tok[p]] > 0]
    /\ UNCHANGED <<op, tok, created, attempt, at, status, seen, lock, grants>>
    /\ UNCHANGED fileVars

\* openat without O_CREAT finds the ledger.
OpenExisting(p) ==
    /\ pc[p] = "open"
    /\ exists
    /\ GoTo(p, "lock")
    /\ created' = [created EXCEPT ![p] = FALSE]
    /\ UNCHANGED <<op, tok, attempt, at, status, seen, lock, grants, known>>
    /\ UNCHANGED fileVars

\* ENOENT: a lookup answers "not seen", a consumer goes on to create.
OpenMissing(p) ==
    /\ pc[p] = "open"
    /\ ~exists
    /\ GoTo(p, IF op[p] = "consume" THEN "create" ELSE "done")
    /\ UNCHANGED <<status, lock, grants>>
    /\ UNCHANGED callVars /\ UNCHANGED fileVars

\* openat(O_CREAT | O_EXCL) makes the file, empty and not yet on disk.
Create(p) ==
    /\ pc[p] = "create"
    /\ ~exists
    /\ exists' = TRUE
    /\ GoTo(p, "lock")
    /\ created' = [created EXCEPT ![p] = TRUE]
    /\ UNCHANGED <<op, tok, attempt, at, status, seen, lock, grants, known>>
    /\ UNCHANGED <<entrySynced, eof, cell, synced>>

\* Mutant of CreateLost: the loop tries to create again instead of reopening.
CreateLostRecreates(p) ==
    /\ pc[p] = "create"
    /\ exists
    /\ attempt' = [attempt EXCEPT ![p] = @ + 1]
    /\ IF attempt[p] + 1 < MaxAttempts
       THEN GoTo(p, "create") /\ UNCHANGED status
       ELSE GoTo(p, "done") /\ status' = [status EXCEPT ![p] = "io"]
    /\ UNCHANGED <<op, tok, created, at, seen, lock, grants, known>>
    /\ UNCHANGED fileVars

\* EEXIST: another process created it first; reopen, at most MaxAttempts times.
CreateLost(p) ==
    /\ pc[p] = "create"
    /\ exists
    /\ attempt' = [attempt EXCEPT ![p] = @ + 1]
    /\ IF attempt[p] + 1 < MaxAttempts
       THEN GoTo(p, "open") /\ UNCHANGED status
       ELSE GoTo(p, "done") /\ status' = [status EXCEPT ![p] = "io"]
    /\ UNCHANGED <<op, tok, created, at, seen, lock, grants, known>>
    /\ UNCHANGED fileVars

\* fchmod on the file just created fails: the empty file stays behind.
ProtectFails(p) ==
    /\ Faults /\ pc[p] = "create"
    /\ ~exists
    /\ exists' = TRUE
    /\ GoTo(p, "done")
    /\ status' = [status EXCEPT ![p] = "io"]
    /\ UNCHANGED <<lock, grants, entrySynced, eof, cell, synced>>
    /\ UNCHANGED callVars

\* The directory or the ledger cannot be opened, created or locked.
EarlyFault(p) ==
    /\ Faults /\ pc[p] \in {"idle", "open", "create", "lock"}
    /\ GoTo(p, "done")
    /\ status' = [status EXCEPT ![p] = "io"]
    /\ UNCHANGED <<lock, grants>>
    /\ UNCHANGED callVars /\ UNCHANGED fileVars

Lock(p) ==
    /\ pc[p] = "lock"
    /\ LockFree(p)
    /\ lock' = [lock EXCEPT ![p] =
                    IF op[p] = "consume" THEN "exclusive" ELSE "shared"]
    /\ GoTo(p, "validate")
    /\ UNCHANGED <<status, grants>>
    /\ UNCHANGED callVars /\ UNCHANGED fileVars

\* Mutant of Verdict: the record limit is not checked.
VerdictUncapped(p) ==
    IF eof = 0 THEN IF op[p] = "consume" /\ created[p] THEN "ok" ELSE "malformed"
    ELSE IF ~WellFormed THEN "malformed"
    ELSE IF op[p] = "consume" /\ RecordedIn(tok[p]) THEN "replayed"
    ELSE "ok"

\* What validate_fd and the two checks after it make of the file.
Verdict(p) ==
    IF eof = 0 THEN IF op[p] = "consume" /\ created[p] THEN "ok" ELSE "malformed"
    ELSE IF ~WellFormed THEN "malformed"
    ELSE IF op[p] = "consume" /\ RecordedIn(tok[p]) THEN "replayed"
    ELSE IF op[p] = "consume" /\ eof - 1 >= MaxRecords THEN "full"
    ELSE "ok"

\* Mutant of Validate: the record always goes right after the header.
ValidateAppendsAtHeader(p) ==
    /\ pc[p] = "validate"
    /\ status' = [status EXCEPT ![p] = Verdict(p)]
    /\ seen' = [seen EXCEPT ![p] = WellFormed /\ RecordedIn(tok[p])]
    /\ at' = [at EXCEPT ![p] = IF eof = 0 THEN 0 ELSE 1]
    /\ GoTo(p, IF op[p] = "contains" THEN "unlock"
               ELSE IF Verdict(p) # "ok" THEN Tail(p)
               ELSE IF eof = 0 THEN "header" ELSE "record")
    /\ UNCHANGED <<op, tok, created, attempt, lock, grants, known>>
    /\ UNCHANGED fileVars

\* Mutant of Validate: an error returns at once, with the lock still held.
ValidateKeepsLock(p) ==
    /\ pc[p] = "validate"
    /\ status' = [status EXCEPT ![p] = Verdict(p)]
    /\ seen' = [seen EXCEPT ![p] = WellFormed /\ RecordedIn(tok[p])]
    /\ at' = [at EXCEPT ![p] = eof]
    /\ GoTo(p, IF op[p] = "contains" THEN "unlock"
               ELSE IF Verdict(p) # "ok" THEN "done"
               ELSE IF eof = 0 THEN "header" ELSE "record")
    /\ UNCHANGED <<op, tok, created, attempt, lock, grants, known>>
    /\ UNCHANGED fileVars

\* fstat, the reads and every check on them, under the lock.
Validate(p) ==
    /\ pc[p] = "validate"
    /\ status' = [status EXCEPT ![p] = Verdict(p)]
    /\ seen' = [seen EXCEPT ![p] = WellFormed /\ RecordedIn(tok[p])]
    /\ at' = [at EXCEPT ![p] = eof]
    /\ GoTo(p, IF op[p] = "contains" THEN "unlock"
               ELSE IF Verdict(p) # "ok" THEN Tail(p)
               ELSE IF eof = 0 THEN "header" ELSE "record")
    /\ UNCHANGED <<op, tok, created, attempt, lock, grants, known>>
    /\ UNCHANGED fileVars

\* fstat or a read fails.
ReadFault(p) ==
    /\ Faults /\ pc[p] = "validate"
    /\ status' = [status EXCEPT ![p] = "io"]
    /\ GoTo(p, IF op[p] = "contains" THEN "unlock" ELSE Tail(p))
    /\ UNCHANGED <<lock, grants>>
    /\ UNCHANGED callVars /\ UNCHANGED fileVars

\* pwrite_exact puts down the first bytes of the header or of the record.
WriteStart(p) ==
    /\ \/ pc[p] = "header" /\ Put(0, Torn) /\ GoTo(p, "headerTorn")
       \/ pc[p] = "record" /\ Put(at[p], Torn) /\ GoTo(p, "recordTorn")
    /\ UNCHANGED <<status, lock, grants>>
    /\ UNCHANGED callVars

\* pwrite_exact puts down the rest; after the header, append_at is its size.
WriteHeader(p) ==
    /\ pc[p] = "headerTorn"
    /\ Put(0, Header)
    /\ at' = [at EXCEPT ![p] = 1]
    /\ GoTo(p, "record")
    /\ UNCHANGED <<op, tok, created, attempt, status, seen, lock, grants, known>>

WriteRecord(p) ==
    /\ pc[p] = "recordTorn"
    /\ Put(at[p], tok[p])
    /\ GoTo(p, "fsync")
    /\ UNCHANGED <<status, lock, grants>>
    /\ UNCHANGED callVars

\* A write fails before its first byte or part of the way through.
WriteFault(p) ==
    /\ Faults /\ pc[p] \in {"header", "headerTorn", "record", "recordTorn"}
    /\ status' = [status EXCEPT ![p] = "io"]
    /\ GoTo(p, Tail(p))
    /\ UNCHANGED <<lock, grants>>
    /\ UNCHANGED callVars /\ UNCHANGED fileVars

\* Mutant of Fsync: the call is left out.
FsyncSkipped(p) ==
    /\ pc[p] = "fsync"
    /\ GoTo(p, Tail(p))
    /\ UNCHANGED <<status, lock, grants>>
    /\ UNCHANGED callVars /\ UNCHANGED fileVars

\* fsync of the file.
Fsync(p) ==
    /\ pc[p] = "fsync"
    /\ synced' = eof
    /\ entrySynced' = (entrySynced \/ EntrySyncedByFile)
    /\ GoTo(p, Tail(p))
    /\ UNCHANGED <<status, lock, exists, eof, cell, grants>>
    /\ UNCHANGED callVars

FsyncFault(p) ==
    /\ Faults /\ pc[p] = "fsync"
    /\ status' = [status EXCEPT ![p] = "io"]
    /\ GoTo(p, Tail(p))
    /\ UNCHANGED <<lock, grants>>
    /\ UNCHANGED callVars /\ UNCHANGED fileVars

\* fsync of the parent directory, by the process that created the file.
DirSync(p) ==
    /\ pc[p] = "dirsync"
    /\ entrySynced' = TRUE
    /\ GoTo(p, "unlock")
    /\ UNCHANGED <<status, lock, exists, eof, cell, synced, grants>>
    /\ UNCHANGED callVars

\* It fails: the first error of the call is the one reported.
DirSyncFault(p) ==
    /\ Faults /\ pc[p] = "dirsync"
    /\ status' = [status EXCEPT ![p] = IF @ = "ok" THEN "io" ELSE @]
    /\ GoTo(p, "unlock")
    /\ UNCHANGED <<lock, grants>>
    /\ UNCHANGED callVars /\ UNCHANGED fileVars

Unlock(p) ==
    /\ pc[p] = "unlock"
    /\ lock' = [lock EXCEPT ![p] = "none"]
    /\ GoTo(p, "close")
    /\ UNCHANGED <<status, grants>>
    /\ UNCHANGED callVars /\ UNCHANGED fileVars

\* Mutant of Close: consumed is set whatever the status.
CloseAlwaysGrants(p) ==
    /\ pc[p] = "close"
    /\ GoTo(p, "done")
    /\ grants' = IF op[p] = "consume"
                 THEN [grants EXCEPT ![tok[p]] = @ + 1] ELSE grants
    /\ UNCHANGED <<status, lock>>
    /\ UNCHANGED callVars /\ UNCHANGED fileVars

\* close succeeds and the call returns; consumed is true only with QN_OK.
Close(p) ==
    /\ pc[p] = "close"
    /\ GoTo(p, "done")
    /\ grants' = IF op[p] = "consume" /\ status[p] = "ok"
                 THEN [grants EXCEPT ![tok[p]] = @ + 1] ELSE grants
    /\ UNCHANGED <<status, lock>>
    /\ UNCHANGED callVars /\ UNCHANGED fileVars

CloseFault(p) ==
    /\ Faults /\ pc[p] = "close"
    /\ status' = [status EXCEPT ![p] = IF @ = "ok" THEN "io" ELSE @]
    /\ GoTo(p, "done")
    /\ UNCHANGED <<lock, grants>>
    /\ UNCHANGED callVars /\ UNCHANGED fileVars

-----------------------------------------------------------------------------
(* Crashes *)

Running(p) == pc[p] \notin {"idle", "done", "dead"}

\* The process is killed: the kernel closes its descriptors and drops its
\* lock, and everything it wrote stays in the page cache.
Crash(p) ==
    /\ Crashes /\ Running(p)
    /\ GoTo(p, "dead")
    /\ lock' = [lock EXCEPT ![p] = "none"]
    /\ UNCHANGED <<status, grants>>
    /\ UNCHANGED callVars /\ UNCHANGED fileVars

AllDie ==
    /\ pc' = [p \in Proc |-> IF Running(p) THEN "dead" ELSE pc[p]]
    /\ lock' = [p \in Proc |-> "none"]
    /\ UNCHANGED <<status, grants>>
    /\ UNCHANGED callVars

\* Power is lost: synced cells survive; of the others any may have been
\* written back, some torn, and a hole before a surviving cell reads as Torn.
PowerLoss ==
    /\ Crashes
    /\ AllDie
    /\ \E e \in synced..eof : \E hurt \in SUBSET (synced..(e - 1)) :
        /\ eof' = e
        /\ synced' = e
        /\ cell' = [s \in Slot |-> IF s >= e THEN Blank
                                   ELSE IF s \in hurt THEN Torn ELSE cell[s]]
    /\ entrySynced' = exists
    /\ UNCHANGED exists

\* Power is lost and takes a directory entry that was never synchronized.
EntryLoss ==
    /\ Crashes
    /\ AllDie
    /\ exists /\ ~entrySynced
    /\ exists' = FALSE
    /\ eof' = 0 /\ synced' = 0 /\ cell' = NoCells
    /\ UNCHANGED entrySynced

-----------------------------------------------------------------------------

\* What a process does when the system calls it makes succeed.
Step(p) ==
    \/ Begin(p) \/ OpenExisting(p) \/ OpenMissing(p)
    \/ Create(p) \/ CreateLost(p) \/ Lock(p) \/ Validate(p)
    \/ WriteStart(p) \/ WriteHeader(p) \/ WriteRecord(p)
    \/ Fsync(p) \/ DirSync(p) \/ Unlock(p) \/ Close(p)

Fault(p) ==
    \/ EarlyFault(p) \/ ProtectFails(p) \/ ReadFault(p) \/ WriteFault(p)
    \/ FsyncFault(p) \/ DirSyncFault(p) \/ CloseFault(p)

Next ==
    \/ \E p \in Proc : Step(p) \/ Fault(p) \/ Crash(p)
    \/ PowerLoss
    \/ EntryLoss

Spec == Init /\ [][Next]_vars

\* A started process keeps running until its call returns: the scheduler
\* runs every process, and a blocked F_SETLKW is granted once no conflicting
\* lock stays.  Starting a process is nobody's obligation.
Fairness == \A p \in Proc : WF_vars(pc[p] # "idle" /\ Step(p))

FairSpec == Spec /\ Fairness
-----------------------------------------------------------------------------
(* Properties *)

Finished(p) == pc[p] = "done"

\* A token is granted to at most one call, whatever crashes and power
\* failures happen: qn_replay_ledger_consume is the replay-prevention primitive.
AtMostOnce == \A t \in Token : grants[t] <= 1

\* A granted token is on disk, in a file whose directory entry is on disk:
\* consumed is only reported after both fsyncs.
GrantedIsDurable ==
    \A t \in Token : grants[t] > 0 =>
        /\ exists /\ entrySynced
        /\ \E s \in 1..(synced - 1) : cell[s] = t

\* No token is written down twice, not even by two processes that both
\* looked for it before either wrote: check and append are one critical section.
NoDuplicateRecord ==
    \A r, s \in 1..(eof - 1) : r # s /\ cell[r] \in Token => cell[r] # cell[s]

\* A lookup that began after its token was granted never answers "not seen";
\* it says seen or it fails.
LookupNeverForgets ==
    \A p \in Proc :
        Finished(p) /\ op[p] = "contains" /\ status[p] = "ok" /\ known[p] => seen[p]

\* The reopening loop of open_for_consume never runs out of attempts: nobody
\* removes the ledger, so a process loses the creation race at most once.
CreationRaceLostOnce == \A p \in Proc : attempt[p] <= 1

\* What is on disk stays there unchanged: the ledger is append-only.
SyncedPrefixStable ==
    [][\A s \in 0..(synced - 1) : s < synced' /\ cell'[s] = cell[s]]_vars

\* Every call that begins returns, unless its process dies: nobody keeps the
\* lock, waits for its own lock or retries for ever.
EveryCallReturns ==
    \A p \in Proc : Running(p) ~> pc[p] \in {"done", "dead"}

\* With no failing system call and no crash, concurrent consumers of one
\* ledger each succeed or find their token consumed
\* (tests/test_replay_ledger.c, expect_child_results: no failures).
ConcurrentCallsSucceed ==
    \A p \in Proc : Finished(p) => status[p] \in {"ok", "replayed"}

\* The ledger implements AttemptOnce: a token is recorded when its record
\* is complete in the file.
Abstract == INSTANCE AttemptOnce WITH
    recorded <- {t \in Token : RecordedIn(t)}

ImplementsAttemptOnce == Abstract!Spec
=============================================================================
