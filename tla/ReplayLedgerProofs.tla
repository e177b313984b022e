------------------------- MODULE ReplayLedgerProofs -------------------------
(***************************************************************************)
(* Proofs about ReplayLedger: its type invariant, at-most-once grants,     *)
(* durability of a grant and the absence of duplicate records, for any     *)
(* number of processes, tokens and records, under faults, crashes and      *)
(* power loss.  The two theorems about grants assume that the ledger was   *)
(* initialised beforehand or that fsync of a new file also persists its    *)
(* directory entry; run ledger_entry_loss shows that one is needed.        *)
(***************************************************************************)
EXTENDS ReplayLedger, TLAPS

\* The calls that hold the advisory lock.
InSection(p) == pc[p] \in {"validate", "header", "headerTorn", "record",
                           "recordTorn", "fsync", "dirsync", "unlock"}

\* A consumer whose record is complete and which no error has stopped yet.
Appended(p) ==
    /\ op[p] = "consume" /\ status[p] = "ok"
    /\ pc[p] \in {"fsync", "dirsync", "unlock", "close"}

\* The directory entry cannot be lost once a token was granted: the ledger
\* was there from the start, or fsync of the file persists its entry.
EntryKept == EntrySyncedByFile \/ Preexisting

Durable(t) ==
    /\ exists /\ entrySynced
    /\ \E s \in 1..(synced - 1) : cell[s] = t

\* Attempts remain while open_for_consume may still loop.
AttemptInv ==
    \A p \in Proc : pc[p] \in {"idle", "open", "create"} => attempt[p] < MaxAttempts

\* The critical section is the lock: a lookup never writes, and a consumer
\* inside excludes everybody else.
LockInv ==
    \A p \in Proc :
        /\ lock[p] = IF ~InSection(p) THEN "none"
                     ELSE IF op[p] = "consume" THEN "exclusive" ELSE "shared"
        /\ op[p] = "contains" =>
               pc[p] \notin {"create", "header", "headerTorn", "record",
                             "recordTorn", "fsync", "dirsync"}
        /\ InSection(p) /\ op[p] = "consume" =>
               \A q \in Proc \ {p} : ~InSection(q)

\* The shape of the file, and that whoever opened it finds it there.
FileInv ==
    /\ synced <= eof
    /\ ~exists => eof = 0
    /\ Preexisting => exists /\ entrySynced
    /\ EntryKept /\ synced > 0 => entrySynced
    /\ \A p \in Proc : InSection(p) \/ pc[p] \in {"lock", "close"} => exists

\* Where a consumer is about to write, and what it has already checked.
WriteInv ==
    \A p \in Proc :
        /\ pc[p] \in {"header", "headerTorn", "record", "recordTorn", "fsync"} =>
               status[p] = "ok"
        /\ pc[p] = "header" => eof = 0
        /\ pc[p] = "headerTorn" => eof = 1
        /\ pc[p] \in {"headerTorn", "recordTorn"} => synced < eof
        /\ pc[p] = "record" =>
               at[p] = eof /\ 1 <= eof /\ eof <= MaxRecords /\ ~RecordedIn(tok[p])
        /\ pc[p] = "recordTorn" =>
               /\ at[p] + 1 = eof /\ 1 <= at[p] /\ cell[at[p]] = Torn
               /\ ~RecordedIn(tok[p])

\* A record that is complete belongs to one live consumer at most, was
\* granted to nobody yet, and is durable once that consumer is past fsync
\* (the last two where the directory entry is kept).
AppendInv ==
    \A p \in Proc : Appended(p) =>
        /\ RecordedIn(tok[p])
        /\ EntryKept =>
               grants[tok[p]] = 0 /\ (pc[p] # "fsync" => Durable(tok[p]))
        /\ \A q \in Proc \ {p} : Appended(q) => tok[q] # tok[p]

GrantInv ==
    EntryKept =>
        \A t \in Token : grants[t] > 0 => grants[t] = 1 /\ Durable(t)

IInv ==
    /\ TypeOK /\ AttemptInv /\ LockInv /\ FileInv
    /\ WriteInv /\ AppendInv /\ GrantInv /\ NoDuplicateRecord
-----------------------------------------------------------------------------
(* What a step that leaves the file and the grants alone cannot disturb *)

\* Positions before a bound are positions before a larger one.
LEMMA RangeMono ==
    ASSUME NEW m \in Nat, NEW n \in Nat, m <= n
    PROVE  \A s \in 1..(m - 1) : s \in 1..(n - 1)
OBVIOUS

LEMMA InitInv == ASSUME Init PROVE IInv
<1>. USE LedgerAssumption DEF Init, NoCells
<1>1. TypeOK
    BY DEF TypeOK, PC, Status, Slot, Cell, MaxAttempts
<1>2. AttemptInv /\ LockInv /\ FileInv
    BY DEF AttemptInv, MaxAttempts, LockInv, FileInv, InSection
<1>3. WriteInv /\ AppendInv /\ GrantInv /\ NoDuplicateRecord
    BY DEF WriteInv, AppendInv, Appended, GrantInv, NoDuplicateRecord
<1>. QED  BY <1>1, <1>2, <1>3 DEF IInv

\* Records that stay, and durable records that stay durable, keep AppendInv
\* as long as no further call joins the appended ones or leaves its fsync.
LEMMA AppendKept ==
    ASSUME IInv, UNCHANGED <<tok, grants>>,
           \A t \in Token : /\ RecordedIn(t) => RecordedIn(t)'
                            /\ Durable(t) => Durable(t)',
           \A q \in Proc : Appended(q)' =>
               Appended(q) /\ (pc'[q] # "fsync" => pc[q] # "fsync")
    PROVE  AppendInv'
<1>. SUFFICES ASSUME NEW p \in Proc, Appended(p)'
              PROVE  /\ RecordedIn(tok[p])'
                     /\ EntryKept =>
                            /\ grants'[tok'[p]] = 0
                            /\ pc'[p] # "fsync" => Durable(tok[p])'
                     /\ \A q \in Proc \ {p} : Appended(q)' => tok'[q] # tok'[p]
    BY DEF AppendInv
<1>1. tok'[p] = tok[p] /\ tok[p] \in Token
    BY DEF IInv, TypeOK
<1>2. /\ Appended(p) /\ RecordedIn(tok[p])
      /\ EntryKept /\ pc'[p] # "fsync" => Durable(tok[p])
    BY DEF IInv, AppendInv
<1>3. /\ RecordedIn(tok[p])'
      /\ EntryKept /\ pc'[p] # "fsync" => Durable(tok[p])'
    <2>. DEFINE t == tok[p]
    <2>1. RecordedIn(t) => RecordedIn(tok[p])'
        BY <1>1 DEF RecordedIn
    <2>2. Durable(t) => Durable(tok[p])'
        BY <1>1 DEF Durable
    <2>. QED  BY <1>2, <2>1, <2>2
<1>4. EntryKept => grants'[tok'[p]] = 0
    BY <1>1, <1>2 DEF IInv, AppendInv
<1>5. \A q \in Proc \ {p} : Appended(q)' => tok'[q] # tok'[p]
    BY <1>2 DEF IInv, AppendInv
<1>. QED  BY <1>3, <1>4, <1>5

LEMMA QuietData ==
    ASSUME IInv, UNCHANGED <<tok, grants>>, UNCHANGED fileVars,
           \A q \in Proc : Appended(q)' =>
               Appended(q) /\ (pc'[q] # "fsync" => pc[q] # "fsync")
    PROVE  AppendInv' /\ GrantInv' /\ NoDuplicateRecord'
<1>1. \A t \in Token : /\ RecordedIn(t) => RecordedIn(t)'
                       /\ Durable(t) => Durable(t)'
    BY DEF RecordedIn, Durable, fileVars
<1>2. AppendInv'
    BY <1>1, AppendKept
<1>3. GrantInv' /\ NoDuplicateRecord'
    BY <1>1 DEF IInv, GrantInv, NoDuplicateRecord, fileVars
<1>. QED  BY <1>2, <1>3

LEMMA BeginStep ==
    ASSUME NEW p \in Proc, IInv, Begin(p)
    PROVE  IInv'
<1>. USE LedgerAssumption DEF Begin, GoTo, callVars, fileVars, IInv, TypeOK
<1>1. TypeOK'
    BY DEF PC
<1>2. AttemptInv'
    BY DEF AttemptInv
<1>3. LockInv'
    BY DEF LockInv, InSection
<1>4. FileInv'
    BY DEF FileInv, InSection
<1>5. WriteInv'
    BY DEF WriteInv, RecordedIn
<1>6. \A q \in Proc : Appended(q)' =>
          Appended(q) /\ (pc'[q] # "fsync" => pc[q] # "fsync")
    BY DEF Appended
<1>. QED  BY <1>1, <1>2, <1>3, <1>4, <1>5, <1>6, QuietData DEF IInv

LEMMA OpenExistingStep ==
    ASSUME NEW p \in Proc, IInv, OpenExisting(p)
    PROVE  IInv'
<1>. USE LedgerAssumption DEF OpenExisting, GoTo, callVars, fileVars, IInv, TypeOK
<1>1. TypeOK'
    BY DEF PC
<1>2. AttemptInv'
    BY DEF AttemptInv
<1>3. LockInv'
    BY DEF LockInv, InSection
<1>4. FileInv'
    BY DEF FileInv
<1>5. WriteInv'
    BY DEF WriteInv, RecordedIn
<1>6. \A q \in Proc : Appended(q)' =>
          Appended(q) /\ (pc'[q] # "fsync" => pc[q] # "fsync")
    BY DEF Appended
<1>. QED  BY <1>1, <1>2, <1>3, <1>4, <1>5, <1>6, QuietData DEF IInv

LEMMA OpenMissingStep ==
    ASSUME NEW p \in Proc, IInv, OpenMissing(p)
    PROVE  IInv'
<1>. USE LedgerAssumption DEF OpenMissing, GoTo, callVars, fileVars, IInv, TypeOK
<1>1. TypeOK'
    BY DEF PC
<1>2. AttemptInv'
    BY DEF AttemptInv
<1>3. LockInv'
    BY DEF LockInv, InSection
<1>4. FileInv'
    BY DEF FileInv, InSection
<1>5. WriteInv'
    BY DEF WriteInv, FileInv
<1>6. \A q \in Proc : Appended(q)' =>
          Appended(q) /\ (pc'[q] # "fsync" => pc[q] # "fsync")
    BY DEF Appended
<1>. QED  BY <1>1, <1>2, <1>3, <1>4, <1>5, <1>6, QuietData DEF IInv

LEMMA CreateLostStep ==
    ASSUME NEW p \in Proc, IInv, CreateLost(p)
    PROVE  IInv'
<1>. USE LedgerAssumption DEF CreateLost, GoTo, callVars, fileVars, IInv, TypeOK
<1>1. TypeOK'
    <2>1. attempt' \in [Proc -> 0..MaxAttempts]
        BY DEF AttemptInv, MaxAttempts
    <2>2. pc' \in [Proc -> PC] /\ status' \in [Proc -> Status]
        BY DEF PC, Status
    <2>. QED  BY <2>1, <2>2
<1>2. AttemptInv'
    BY DEF AttemptInv
<1>3. LockInv'
    BY DEF LockInv, InSection
<1>4. FileInv'
    BY DEF FileInv
<1>5. WriteInv'
    BY DEF WriteInv, RecordedIn
<1>6. \A q \in Proc : Appended(q)' =>
          Appended(q) /\ (pc'[q] # "fsync" => pc[q] # "fsync")
    BY DEF Appended
<1>. QED  BY <1>1, <1>2, <1>3, <1>4, <1>5, <1>6, QuietData DEF IInv

LEMMA EarlyFaultStep ==
    ASSUME NEW p \in Proc, IInv, EarlyFault(p)
    PROVE  IInv'
<1>. USE LedgerAssumption DEF EarlyFault, GoTo, callVars, fileVars, IInv, TypeOK
<1>1. TypeOK'
    BY DEF PC, Status
<1>2. AttemptInv'
    BY DEF AttemptInv
<1>3. LockInv'
    BY DEF LockInv, InSection
<1>4. FileInv'
    BY DEF FileInv, InSection
<1>5. WriteInv'
    BY DEF WriteInv, RecordedIn
<1>6. \A q \in Proc : Appended(q)' =>
          Appended(q) /\ (pc'[q] # "fsync" => pc[q] # "fsync")
    BY DEF Appended
<1>. QED  BY <1>1, <1>2, <1>3, <1>4, <1>5, <1>6, QuietData DEF IInv

LEMMA LockStep ==
    ASSUME NEW p \in Proc, IInv, Lock(p)
    PROVE  IInv'
<1>. USE LedgerAssumption DEF Lock, GoTo, callVars, fileVars, IInv, TypeOK
<1>1. TypeOK'
    BY DEF PC
<1>2. AttemptInv'
    BY DEF AttemptInv
<1>3. LockInv'
    BY DEF LockInv, InSection, LockFree
<1>4. FileInv'
    BY DEF FileInv
<1>5. WriteInv'
    BY DEF WriteInv, RecordedIn
<1>6. \A q \in Proc : Appended(q)' =>
          Appended(q) /\ (pc'[q] # "fsync" => pc[q] # "fsync")
    BY DEF Appended
<1>. QED  BY <1>1, <1>2, <1>3, <1>4, <1>5, <1>6, QuietData DEF IInv

LEMMA ValidateStep ==
    ASSUME NEW p \in Proc, IInv, Validate(p)
    PROVE  IInv'
<1>. USE LedgerAssumption DEF Validate, GoTo, callVars, fileVars, IInv, TypeOK
<1>1. TypeOK'
    BY DEF PC, Status, Verdict, Tail
<1>2. AttemptInv'
    BY DEF AttemptInv, Tail
<1>3. LockInv'
    BY DEF LockInv, InSection, Tail
<1>4. FileInv'
    BY DEF FileInv, InSection
<1>5. WriteInv'
    BY DEF WriteInv, RecordedIn, Verdict, Tail
<1>6. \A q \in Proc : Appended(q)' =>
          Appended(q) /\ (pc'[q] # "fsync" => pc[q] # "fsync")
    BY DEF Appended
<1>. QED  BY <1>1, <1>2, <1>3, <1>4, <1>5, <1>6, QuietData DEF IInv

LEMMA ReadFaultStep ==
    ASSUME NEW p \in Proc, IInv, ReadFault(p)
    PROVE  IInv'
<1>. USE LedgerAssumption DEF ReadFault, GoTo, callVars, fileVars, IInv, TypeOK
<1>1. TypeOK'
    BY DEF PC, Status, Tail
<1>2. AttemptInv'
    BY DEF AttemptInv, Tail
<1>3. LockInv'
    BY DEF LockInv, InSection, Tail
<1>4. FileInv'
    BY DEF FileInv, InSection
<1>5. WriteInv'
    BY DEF WriteInv, RecordedIn, Tail
<1>6. \A q \in Proc : Appended(q)' =>
          Appended(q) /\ (pc'[q] # "fsync" => pc[q] # "fsync")
    BY DEF Appended
<1>. QED  BY <1>1, <1>2, <1>3, <1>4, <1>5, <1>6, QuietData DEF IInv

LEMMA WriteFaultStep ==
    ASSUME NEW p \in Proc, IInv, WriteFault(p)
    PROVE  IInv'
<1>. USE LedgerAssumption DEF WriteFault, GoTo, callVars, fileVars, IInv, TypeOK
<1>1. TypeOK'
    BY DEF PC, Status, Tail
<1>2. AttemptInv'
    BY DEF AttemptInv, Tail
<1>3. LockInv'
    BY DEF LockInv, InSection, Tail
<1>4. FileInv'
    BY DEF FileInv, InSection
<1>5. WriteInv'
    BY DEF WriteInv, RecordedIn, Tail
<1>6. \A q \in Proc : Appended(q)' =>
          Appended(q) /\ (pc'[q] # "fsync" => pc[q] # "fsync")
    BY DEF Appended
<1>. QED  BY <1>1, <1>2, <1>3, <1>4, <1>5, <1>6, QuietData DEF IInv

LEMMA FsyncFaultStep ==
    ASSUME NEW p \in Proc, IInv, FsyncFault(p)
    PROVE  IInv'
<1>. USE LedgerAssumption DEF FsyncFault, GoTo, callVars, fileVars, IInv, TypeOK
<1>1. TypeOK'
    BY DEF PC, Status, Tail
<1>2. AttemptInv'
    BY DEF AttemptInv, Tail
<1>3. LockInv'
    BY DEF LockInv, InSection, Tail
<1>4. FileInv'
    BY DEF FileInv, InSection
<1>5. WriteInv'
    BY DEF WriteInv, RecordedIn, Tail
<1>6. \A q \in Proc : Appended(q)' =>
          Appended(q) /\ (pc'[q] # "fsync" => pc[q] # "fsync")
    BY DEF Appended
<1>. QED  BY <1>1, <1>2, <1>3, <1>4, <1>5, <1>6, QuietData DEF IInv

LEMMA DirSyncFaultStep ==
    ASSUME NEW p \in Proc, IInv, DirSyncFault(p)
    PROVE  IInv'
<1>. USE LedgerAssumption DEF DirSyncFault, GoTo, callVars, fileVars, IInv, TypeOK
<1>1. TypeOK'
    BY DEF PC, Status
<1>2. AttemptInv'
    BY DEF AttemptInv
<1>3. LockInv'
    BY DEF LockInv, InSection
<1>4. FileInv'
    BY DEF FileInv, InSection
<1>5. WriteInv'
    BY DEF WriteInv, RecordedIn
<1>6. \A q \in Proc : Appended(q)' =>
          Appended(q) /\ (pc'[q] # "fsync" => pc[q] # "fsync")
    BY DEF Appended
<1>. QED  BY <1>1, <1>2, <1>3, <1>4, <1>5, <1>6, QuietData DEF IInv

LEMMA UnlockStep ==
    ASSUME NEW p \in Proc, IInv, Unlock(p)
    PROVE  IInv'
<1>. USE LedgerAssumption DEF Unlock, GoTo, callVars, fileVars, IInv, TypeOK
<1>1. TypeOK'
    BY DEF PC
<1>2. AttemptInv'
    BY DEF AttemptInv
<1>3. LockInv'
    BY DEF LockInv, InSection
<1>4. FileInv'
    BY DEF FileInv, InSection
<1>5. WriteInv'
    BY DEF WriteInv, RecordedIn
<1>6. \A q \in Proc : Appended(q)' =>
          Appended(q) /\ (pc'[q] # "fsync" => pc[q] # "fsync")
    BY DEF Appended
<1>. QED  BY <1>1, <1>2, <1>3, <1>4, <1>5, <1>6, QuietData DEF IInv

LEMMA CloseFaultStep ==
    ASSUME NEW p \in Proc, IInv, CloseFault(p)
    PROVE  IInv'
<1>. USE LedgerAssumption DEF CloseFault, GoTo, callVars, fileVars, IInv, TypeOK
<1>1. TypeOK'
    BY DEF PC, Status
<1>2. AttemptInv'
    BY DEF AttemptInv
<1>3. LockInv'
    BY DEF LockInv, InSection
<1>4. FileInv'
    BY DEF FileInv
<1>5. WriteInv'
    BY DEF WriteInv, RecordedIn
<1>6. \A q \in Proc : Appended(q)' =>
          Appended(q) /\ (pc'[q] # "fsync" => pc[q] # "fsync")
    BY DEF Appended
<1>. QED  BY <1>1, <1>2, <1>3, <1>4, <1>5, <1>6, QuietData DEF IInv

LEMMA CrashStep ==
    ASSUME NEW p \in Proc, IInv, Crash(p)
    PROVE  IInv'
<1>. USE LedgerAssumption DEF Crash, GoTo, callVars, fileVars, IInv, TypeOK
<1>1. TypeOK'
    BY DEF PC
<1>2. AttemptInv'
    BY DEF AttemptInv
<1>3. LockInv'
    BY DEF LockInv, InSection
<1>4. FileInv'
    BY DEF FileInv, InSection
<1>5. WriteInv'
    BY DEF WriteInv, RecordedIn
<1>6. \A q \in Proc : Appended(q)' =>
          Appended(q) /\ (pc'[q] # "fsync" => pc[q] # "fsync")
    BY DEF Appended
<1>. QED  BY <1>1, <1>2, <1>3, <1>4, <1>5, <1>6, QuietData DEF IInv

LEMMA CreateStep ==
    ASSUME NEW p \in Proc, IInv, Create(p)
    PROVE  IInv'
<1>. USE LedgerAssumption DEF Create, GoTo, callVars, IInv, TypeOK
<1>1. TypeOK'
    BY DEF PC
<1>2. AttemptInv'
    BY DEF AttemptInv
<1>3. LockInv'
    BY DEF LockInv, InSection
<1>4. FileInv'
    BY DEF FileInv
<1>5. WriteInv'
    BY DEF WriteInv, FileInv
<1>6. \A q \in Proc : Appended(q)' =>
          Appended(q) /\ (pc'[q] # "fsync" => pc[q] # "fsync")
    BY DEF Appended
<1>7. \A t \in Token : /\ RecordedIn(t) => RecordedIn(t)'
                       /\ Durable(t) => Durable(t)'
    BY DEF RecordedIn, Durable
<1>8. GrantInv' /\ NoDuplicateRecord'
    BY <1>7 DEF GrantInv, NoDuplicateRecord
<1>. QED  BY <1>1, <1>2, <1>3, <1>4, <1>5, <1>6, <1>7, <1>8, AppendKept DEF IInv

LEMMA ProtectFailsStep ==
    ASSUME NEW p \in Proc, IInv, ProtectFails(p)
    PROVE  IInv'
<1>. USE LedgerAssumption DEF ProtectFails, GoTo, callVars, IInv, TypeOK
<1>1. TypeOK'
    BY DEF PC, Status
<1>2. AttemptInv'
    BY DEF AttemptInv
<1>3. LockInv'
    BY DEF LockInv, InSection
<1>4. FileInv'
    BY DEF FileInv
<1>5. WriteInv'
    BY DEF WriteInv, FileInv
<1>6. \A q \in Proc : Appended(q)' =>
          Appended(q) /\ (pc'[q] # "fsync" => pc[q] # "fsync")
    BY DEF Appended
<1>7. \A t \in Token : /\ RecordedIn(t) => RecordedIn(t)'
                       /\ Durable(t) => Durable(t)'
    BY DEF RecordedIn, Durable
<1>8. GrantInv' /\ NoDuplicateRecord'
    BY <1>7 DEF GrantInv, NoDuplicateRecord
<1>. QED  BY <1>1, <1>2, <1>3, <1>4, <1>5, <1>6, <1>7, <1>8, AppendKept DEF IInv

LEMMA WriteStartStep ==
    ASSUME NEW p \in Proc, IInv, WriteStart(p)
    PROVE  IInv'
<1>. USE LedgerAssumption DEF WriteStart, GoTo, callVars, IInv, TypeOK
<1>1. TypeOK'
    <2>1. pc' \in [Proc -> PC]
        BY DEF PC
    <2>2. eof' \in 0..MaxRecords + 1
        BY DEF Put, WriteInv
    <2>3. cell' \in [Slot -> Cell]
        BY DEF Put, Cell
    <2>. QED  BY <2>1, <2>2, <2>3 DEF Put
<1>2. AttemptInv'
    BY DEF AttemptInv
<1>3. LockInv'
    BY DEF LockInv, InSection
<1>4. FileInv'
    BY DEF FileInv, InSection, Put
<1>5. WriteInv'
    BY DEF WriteInv, LockInv, InSection, RecordedIn, Verdict, Tail, FileInv, Put, Slot
<1>6. \A q \in Proc : Appended(q)' =>
          Appended(q) /\ (pc'[q] # "fsync" => pc[q] # "fsync")
    BY DEF Appended
<1>7. /\ eof <= eof' /\ synced' = synced
      /\ \A s \in 1..(eof - 1) : cell'[s] = cell[s]
      /\ \A s \in 1..(eof' - 1) : s >= eof => cell'[s] = Torn
    BY DEF Put, WriteInv, Slot
<1>8. \A t \in Token : /\ RecordedIn(t) => RecordedIn(t)'
                       /\ Durable(t) => Durable(t)'
    BY <1>7 DEF RecordedIn, Durable, FileInv, Put
<1>9. GrantInv' /\ NoDuplicateRecord'
    <2>1. GrantInv'
        BY <1>8 DEF GrantInv
    <2>2. NoDuplicateRecord'
        <3>. SUFFICES ASSUME NEW r \in 1..(eof' - 1), NEW s \in 1..(eof' - 1),
                             r # s, cell'[r] \in Token
                      PROVE  cell'[r] # cell'[s]
            BY DEF NoDuplicateRecord
        <3>1. eof \in Nat /\ eof' \in Nat
            BY <1>1
        <3>2. r \in 1..(eof - 1) /\ cell'[r] = cell[r]
            <4>1. ~(r >= eof)
                BY <1>7
            <4>. QED  BY <1>7, <3>1, <4>1
        <3>3. CASE s >= eof
            BY <1>7, <3>3
        <3>4. CASE s < eof
            BY <1>7, <3>1, <3>2, <3>4 DEF NoDuplicateRecord
        <3>. QED  BY <3>1, <3>3, <3>4
    <2>. QED  BY <2>1, <2>2
<1>. QED  BY <1>1, <1>2, <1>3, <1>4, <1>5, <1>6, <1>8, <1>9, AppendKept DEF IInv

LEMMA WriteHeaderStep ==
    ASSUME NEW p \in Proc, IInv, WriteHeader(p)
    PROVE  IInv'
<1>. USE LedgerAssumption DEF WriteHeader, GoTo, callVars, IInv, TypeOK
<1>1. TypeOK'
    BY DEF PC, Put, Slot, Cell
<1>2. AttemptInv'
    BY DEF AttemptInv
<1>3. LockInv'
    BY DEF LockInv, InSection
<1>4. FileInv'
    BY DEF FileInv, Put, WriteInv
<1>5. WriteInv'
    BY DEF WriteInv, RecordedIn, Put
<1>6. \A q \in Proc : Appended(q)' =>
          Appended(q) /\ (pc'[q] # "fsync" => pc[q] # "fsync")
    BY DEF Appended
<1>7. \A t \in Token : /\ RecordedIn(t) => RecordedIn(t)'
                       /\ Durable(t) => Durable(t)'
    BY DEF RecordedIn, Durable, WriteInv
<1>8. GrantInv' /\ NoDuplicateRecord'
    BY <1>7 DEF GrantInv, NoDuplicateRecord, Put
<1>. QED  BY <1>1, <1>2, <1>3, <1>4, <1>5, <1>6, <1>7, <1>8, AppendKept DEF IInv

LEMMA WriteRecordStep ==
    ASSUME NEW p \in Proc, IInv, WriteRecord(p)
    PROVE  IInv'
<1>. USE LedgerAssumption DEF WriteRecord, GoTo, callVars, IInv, TypeOK
<1>1. TypeOK'
    BY DEF PC, Put, Cell, WriteInv
<1>2. AttemptInv'
    BY DEF AttemptInv
<1>3. LockInv'
    BY DEF LockInv, InSection
<1>4. FileInv'
    BY DEF FileInv, Put, WriteInv
<1>5. WriteInv'
    BY DEF WriteInv, LockInv, InSection
<1>6. /\ at[p] \in 1..(eof - 1) /\ eof' = eof /\ synced' = synced
      /\ cell' = [cell EXCEPT ![at[p]] = tok[p]]
      /\ cell[at[p]] = Torn /\ ~RecordedIn(tok[p]) /\ at[p] \in Slot
    BY DEF Put, WriteInv, Slot
<1>7. \A t \in Token : /\ RecordedIn(t) => RecordedIn(t)'
                       /\ Durable(t) => Durable(t)'
    BY <1>6 DEF RecordedIn, Durable, Put
<1>8. RecordedIn(tok[p])'
    BY <1>6 DEF RecordedIn
<1>9. GrantInv'
    BY <1>7 DEF GrantInv
<1>10. NoDuplicateRecord'
    BY <1>6 DEF NoDuplicateRecord, RecordedIn
<1>11. AppendInv'
    <2>1. \A q \in Proc \ {p} : Appended(q)' <=> Appended(q)
        BY DEF Appended
    <2>2. EntryKept => grants[tok[p]] = 0
        BY <1>6 DEF GrantInv, Durable, RecordedIn, FileInv
    <2>3. \A q \in Proc \ {p} : Appended(q) => tok[q] # tok[p]
        BY <1>6 DEF AppendInv
    <2>4. \A q \in Proc \ {p} : Appended(q)' =>
              /\ RecordedIn(tok[q])'
              /\ EntryKept /\ pc'[q] # "fsync" => Durable(tok[q])'
        <3>. SUFFICES ASSUME NEW q \in Proc \ {p}, Appended(q)'
                      PROVE  /\ RecordedIn(tok[q])'
                             /\ EntryKept /\ pc'[q] # "fsync" => Durable(tok[q])'
            OBVIOUS
        <3>1. /\ tok[q] \in Token /\ RecordedIn(tok[q])
              /\ EntryKept /\ pc[q] # "fsync" => Durable(tok[q])
            BY <2>1 DEF AppendInv
        <3>2. pc'[q] = pc[q] /\ tok' = tok
            OBVIOUS
        <3>3. RecordedIn(tok[q])'
            BY <1>7, <3>1, <3>2 DEF RecordedIn
        <3>4. Durable(tok[q]) => Durable(tok[q])'
            BY <1>7, <3>1, <3>2 DEF Durable
        <3>. QED  BY <3>1, <3>2, <3>3, <3>4
    <2>5. pc'[p] = "fsync"
        OBVIOUS
    <2>. QED  BY <1>8, <2>1, <2>2, <2>3, <2>4, <2>5 DEF AppendInv
<1>. QED  BY <1>1, <1>2, <1>3, <1>4, <1>5, <1>9, <1>10, <1>11 DEF IInv

LEMMA FsyncStep ==
    ASSUME NEW p \in Proc, IInv, Fsync(p)
    PROVE  IInv'
<1>. USE LedgerAssumption DEF Fsync, GoTo, callVars, IInv, TypeOK
<1>1. TypeOK'
    BY DEF PC, Tail
<1>2. AttemptInv'
    BY DEF AttemptInv, Tail
<1>3. LockInv'
    BY DEF LockInv, InSection, Tail
<1>4. FileInv'
    BY DEF FileInv, InSection, EntryKept
<1>5. WriteInv'
    BY DEF WriteInv, LockInv, InSection, Tail
<1>6. \A t \in Token : /\ RecordedIn(t) => RecordedIn(t)'
                       /\ Durable(t) => Durable(t)'
                       /\ RecordedIn(t) /\ EntryKept => Durable(t)'
    BY DEF RecordedIn, Durable, FileInv, EntryKept
<1>7. GrantInv'
    BY <1>6 DEF GrantInv
<1>8. NoDuplicateRecord'
    BY DEF NoDuplicateRecord
<1>9. AppendInv'
    <2>1. \A q \in Proc : Appended(q)' => Appended(q)
        BY DEF Appended
    <2>2. \A q \in Proc : Appended(q) =>
              RecordedIn(tok[q])' /\ (EntryKept => Durable(tok[q])')
        <3>. SUFFICES ASSUME NEW q \in Proc, Appended(q)
                      PROVE  RecordedIn(tok[q])' /\ (EntryKept => Durable(tok[q])')
            OBVIOUS
        <3>1. tok[q] \in Token /\ tok' = tok /\ RecordedIn(tok[q])
            BY DEF AppendInv
        <3>2. RecordedIn(tok[q])'
            BY <3>1 DEF RecordedIn
        <3>3. EntryKept => Durable(tok[q])'
            <4>1. exists' /\ (EntryKept => entrySynced') /\ synced' = eof /\ cell' = cell
                BY DEF FileInv, InSection, EntryKept
            <4>. QED  BY <3>1, <4>1 DEF RecordedIn, Durable
        <3>. QED  BY <3>2, <3>3
    <2>. QED  BY <2>1, <2>2 DEF AppendInv
<1>. QED  BY <1>1, <1>2, <1>3, <1>4, <1>5, <1>7, <1>8, <1>9 DEF IInv

LEMMA DirSyncStep ==
    ASSUME NEW p \in Proc, IInv, DirSync(p)
    PROVE  IInv'
<1>. USE LedgerAssumption DEF DirSync, GoTo, callVars, IInv, TypeOK
<1>1. TypeOK'
    BY DEF PC
<1>2. AttemptInv'
    BY DEF AttemptInv
<1>3. LockInv'
    BY DEF LockInv, InSection
<1>4. FileInv'
    BY DEF FileInv, InSection
<1>5. WriteInv'
    BY DEF WriteInv, RecordedIn
<1>6. \A q \in Proc : Appended(q)' =>
          Appended(q) /\ (pc'[q] # "fsync" => pc[q] # "fsync")
    BY DEF Appended
<1>7. \A t \in Token : /\ RecordedIn(t) => RecordedIn(t)'
                       /\ Durable(t) => Durable(t)'
    BY DEF RecordedIn, Durable
<1>8. GrantInv' /\ NoDuplicateRecord'
    BY <1>7 DEF GrantInv, NoDuplicateRecord
<1>. QED  BY <1>1, <1>2, <1>3, <1>4, <1>5, <1>6, <1>7, <1>8, AppendKept DEF IInv

LEMMA CloseStep ==
    ASSUME NEW p \in Proc, IInv, Close(p)
    PROVE  IInv'
<1>. USE LedgerAssumption DEF Close, GoTo, callVars, fileVars, IInv, TypeOK
<1>1. TypeOK'
    BY DEF PC
<1>2. AttemptInv'
    BY DEF AttemptInv
<1>3. LockInv'
    BY DEF LockInv, InSection
<1>4. FileInv'
    BY DEF FileInv
<1>5. WriteInv'
    BY DEF WriteInv, RecordedIn
<1>6. \A t \in Token : /\ (RecordedIn(t))' = RecordedIn(t)
                       /\ (Durable(t))' = Durable(t)
    BY DEF RecordedIn, Durable
<1>7. GrantInv'
    <2>. SUFFICES ASSUME EntryKept, NEW t \in Token, grants'[t] > 0
                  PROVE  grants'[t] = 1 /\ Durable(t)'
        BY DEF GrantInv
    <2>1. CASE Appended(p) /\ t = tok[p]
        <3>1. grants[t] = 0 /\ Durable(t)
            BY <2>1 DEF AppendInv
        <3>2. grants'[t] = 1
            BY <2>1, <3>1 DEF Appended
        <3>. QED  BY <1>6, <3>1, <3>2
    <2>2. CASE ~(Appended(p) /\ t = tok[p])
        <3>1. grants'[t] = grants[t]
            BY <2>2 DEF Appended
        <3>. QED  BY <1>6, <3>1 DEF GrantInv
    <2>. QED  BY <2>1, <2>2
<1>8. NoDuplicateRecord'
    BY DEF NoDuplicateRecord
<1>9. AppendInv'
    <2>1. \A q \in Proc : Appended(q)' =>
              q # p /\ Appended(q) /\ pc'[q] = pc[q] /\ tok'[q] = tok[q]
        BY DEF Appended
    <2>2. EntryKept => \A q \in Proc : Appended(q)' => grants'[tok[q]] = 0
        BY <2>1 DEF AppendInv, Appended
    <2>3. \A q \in Proc : Appended(q) =>
              /\ RecordedIn(tok[q])'
              /\ EntryKept /\ pc[q] # "fsync" => Durable(tok[q])'
        BY DEF AppendInv, RecordedIn, Durable
    <2>. QED  BY <2>1, <2>2, <2>3 DEF AppendInv
<1>. QED  BY <1>1, <1>2, <1>3, <1>4, <1>5, <1>7, <1>8, <1>9 DEF IInv

-----------------------------------------------------------------------------
(* Power failures: every running process dies, so no call is in its        *)
(* critical section or about to be granted, and the synced prefix survives *)

LEMMA AllDieQuiet ==
    ASSUME IInv, AllDie
    PROVE  /\ pc' \in [Proc -> PC] /\ lock' = [q \in Proc |-> "none"]
           /\ \A q \in Proc : ~Running(q)' /\ (pc'[q] # "dead" => pc'[q] = pc[q])
           /\ AttemptInv' /\ LockInv' /\ AppendInv' /\ WriteInv'
<1>. USE DEF AllDie, callVars
<1>1. /\ pc' \in [Proc -> PC] /\ lock' = [q \in Proc |-> "none"]
      /\ \A q \in Proc : pc'[q] \in {"idle", "done", "dead"}
      /\ \A q \in Proc : pc'[q] # "dead" => pc'[q] = pc[q]
    BY DEF PC, Running
<1>2. AttemptInv'
    BY <1>1 DEF IInv, AttemptInv
<1>3. LockInv' /\ AppendInv' /\ WriteInv'
    BY <1>1 DEF LockInv, InSection, AppendInv, Appended, WriteInv
<1>. QED  BY <1>1, <1>2, <1>3 DEF Running

LEMMA PowerLossStep ==
    ASSUME IInv, PowerLoss
    PROVE  IInv'
<1>. USE LedgerAssumption
<1>e. PICK e \in synced..eof : \E hurt \in SUBSET (synced..(e - 1)) :
          /\ eof' = e /\ synced' = e
          /\ cell' = [s \in Slot |-> IF s >= e THEN Blank
                                     ELSE IF s \in hurt THEN Torn ELSE cell[s]]
    BY DEF PowerLoss
<1>0. PICK hurt \in SUBSET (synced..(e - 1)) :
          /\ eof' = e /\ synced' = e
          /\ cell' = [s \in Slot |-> IF s >= e THEN Blank
                                     ELSE IF s \in hurt THEN Torn ELSE cell[s]]
    BY <1>e
<1>1. /\ AllDie /\ exists' = exists /\ entrySynced' = exists
      /\ UNCHANGED <<status, grants>> /\ UNCHANGED callVars
    BY DEF PowerLoss, AllDie
<1>2. /\ \A q \in Proc : pc'[q] \in {"idle", "done", "dead"}
      /\ pc' \in [Proc -> PC] /\ lock' = [q \in Proc |-> "none"]
      /\ AttemptInv' /\ LockInv' /\ AppendInv' /\ WriteInv'
    BY <1>1, AllDieQuiet DEF Running
<1>3. e \in 0..MaxRecords + 1 /\ synced \in 0..MaxRecords + 1 /\ synced <= e /\ e <= eof
    BY DEF IInv, TypeOK
<1>4. TypeOK'
    BY <1>0, <1>1, <1>2, <1>3 DEF IInv, TypeOK, callVars, Cell
<1>5. FileInv'
    BY <1>0, <1>1, <1>2, <1>3 DEF IInv, FileInv, InSection
<1>6. \A s \in 1..(e - 1) : cell'[s] \in Token => cell'[s] = cell[s]
    BY <1>0, <1>3 DEF Slot
<1>7. \A s \in 1..(synced - 1) : s \in 1..(e - 1) /\ cell'[s] = cell[s]
    BY <1>0, <1>3 DEF Slot
<1>8. GrantInv'
    <2>. SUFFICES ASSUME EntryKept, NEW t \in Token, grants'[t] > 0
                  PROVE  grants'[t] = 1 /\ Durable(t)'
        BY DEF GrantInv
    <2>1. grants[t] = 1 /\ Durable(t)
        BY <1>1 DEF IInv, GrantInv
    <2>. QED  BY <1>0, <1>1, <1>7, <2>1 DEF Durable
<1>9. NoDuplicateRecord'
    <2>. SUFFICES ASSUME NEW r \in 1..(e - 1), NEW s \in 1..(e - 1),
                         r # s, cell'[r] \in Token, cell'[r] = cell'[s]
                  PROVE  FALSE
        BY <1>0 DEF NoDuplicateRecord
    <2>1. cell[r] = cell[s] /\ cell[r] \in Token
        BY <1>6
    <2>2. r \in 1..(eof - 1) /\ s \in 1..(eof - 1)
        BY <1>3 DEF IInv, TypeOK
    <2>. QED  BY <2>1, <2>2 DEF IInv, NoDuplicateRecord
<1>. QED  BY <1>2, <1>4, <1>5, <1>8, <1>9 DEF IInv

\* A directory entry that can still be lost holds no granted token.
LEMMA EntryLossStep ==
    ASSUME IInv, EntryLoss
    PROVE  IInv'
<1>. USE LedgerAssumption
<1>1. /\ \A q \in Proc : pc'[q] \in {"idle", "done", "dead"}
      /\ pc' \in [Proc -> PC] /\ lock' = [q \in Proc |-> "none"]
      /\ AttemptInv' /\ LockInv' /\ AppendInv' /\ WriteInv'
    BY AllDieQuiet DEF EntryLoss, Running
<1>2. TypeOK'
    <2>1. eof' \in 0..MaxRecords + 1 /\ synced' \in 0..MaxRecords + 1
        BY DEF EntryLoss
    <2>2. cell' \in [Slot -> Cell] /\ exists' \in BOOLEAN
        BY DEF EntryLoss, NoCells, Cell
    <2>. QED  BY <1>1, <2>1, <2>2 DEF IInv, TypeOK, EntryLoss, AllDie, callVars
<1>3. FileInv'
    BY <1>1 DEF IInv, FileInv, InSection, EntryLoss
<1>4. EntryKept => \A t \in Token : grants'[t] = 0
    BY DEF IInv, TypeOK, GrantInv, Durable, EntryLoss, AllDie
<1>5. GrantInv' /\ NoDuplicateRecord'
    BY <1>4 DEF GrantInv, NoDuplicateRecord, EntryLoss
<1>. QED  BY <1>1, <1>2, <1>3, <1>5 DEF IInv

-----------------------------------------------------------------------------
(* The inductive invariant *)

LEMMA StutterStep == ASSUME IInv, UNCHANGED vars PROVE IInv'
<1>. USE DEF vars
<1>1. TypeOK' /\ AttemptInv' /\ LockInv' /\ FileInv'
    BY DEF IInv, TypeOK, AttemptInv, LockInv, InSection, FileInv
<1>2. WriteInv'
    BY DEF IInv, WriteInv, RecordedIn
<1>3. AppendInv' /\ GrantInv' /\ NoDuplicateRecord'
    BY QuietData DEF fileVars, Appended
<1>. QED  BY <1>1, <1>2, <1>3 DEF IInv

LEMMA Inductive ==
    ASSUME IInv, [Next]_vars
    PROVE  IInv'
<1>1. ASSUME NEW p \in Proc, Step(p)
      PROVE  IInv'
    BY <1>1, BeginStep, OpenExistingStep, OpenMissingStep, CreateStep,
       CreateLostStep, LockStep, ValidateStep, WriteStartStep, WriteHeaderStep,
       WriteRecordStep, FsyncStep, DirSyncStep, UnlockStep, CloseStep DEF Step
<1>2. ASSUME NEW p \in Proc, Fault(p)
      PROVE  IInv'
    BY <1>2, EarlyFaultStep, ProtectFailsStep, ReadFaultStep, WriteFaultStep,
       FsyncFaultStep, DirSyncFaultStep, CloseFaultStep DEF Fault
<1>3. CASE UNCHANGED vars
    BY <1>3, StutterStep
<1>. QED  BY <1>1, <1>2, <1>3, CrashStep, PowerLossStep, EntryLossStep DEF Next

LEMMA Invariance == Spec => []IInv
<1>1. Init => IInv
    BY InitInv
<1>2. IInv /\ [Next]_vars => IInv'
    BY Inductive
<1>. QED  BY <1>1, <1>2, PTL DEF Spec

\* Every variable keeps its type.  TypeOK is not inductive alone: the bounds
\* of eof and at rest on the record limit checked before the first write.
THEOREM TypeCorrect == Spec => []TypeOK
<1>1. IInv => TypeOK
    BY DEF IInv
<1>. QED  BY <1>1, Invariance, PTL

\* Check and append are one critical section: no token is ever appended
\* twice, on any file system and whatever crashes.
THEOREM UniqueRecords == Spec => []NoDuplicateRecord
<1>1. IInv => NoDuplicateRecord
    BY DEF IInv
<1>. QED  BY <1>1, Invariance, PTL

\* Replay prevention: with an initialised ledger, or where fsync of the file
\* persists its directory entry, qn_replay_ledger_consume answers consumed = true at most once for a
\* token, for any number of processes, crashes and power failures.
THEOREM ReplayPrevention == EntryKept => (Spec => []AtMostOnce)
<1>. SUFFICES ASSUME EntryKept PROVE Spec => []AtMostOnce
    OBVIOUS
<1>1. IInv => AtMostOnce
    BY DEF IInv, TypeOK, GrantInv, AtMostOnce
<1>. QED  BY <1>1, Invariance, PTL

\* Persistence, under the same assumption: a granted token is on disk, and
\* so is the ledger's directory entry.
THEOREM GrantDurability == EntryKept => (Spec => []GrantedIsDurable)
<1>. SUFFICES ASSUME EntryKept PROVE Spec => []GrantedIsDurable
    OBVIOUS
<1>1. IInv => GrantedIsDurable
    BY DEF IInv, GrantInv, Durable, GrantedIsDurable
<1>. QED  BY <1>1, Invariance, PTL

\* Append-only: nothing that reached the disk is overwritten or cut off,
\* under the same assumption.
THEOREM SyncedPrefixKept == EntryKept => (Spec => SyncedPrefixStable)
<1>. SUFFICES ASSUME EntryKept PROVE Spec => SyncedPrefixStable
    OBVIOUS
<1>. DEFINE Stable == \A s \in 0..(synced - 1) : s < synced' /\ cell'[s] = cell[s]
<1>1. ASSUME IInv, [Next]_vars
      PROVE  Stable \/ UNCHANGED vars
    <2>. SUFFICES ASSUME Next PROVE Stable
        BY <1>1
    <2>. USE <1>1, LedgerAssumption
    <2>1. CASE UNCHANGED <<cell, synced>>
        BY <2>1 DEF IInv, TypeOK
    <2>2. ASSUME NEW p \in Proc, WriteStart(p) \/ WriteHeader(p) \/ WriteRecord(p)
          PROVE  Stable
        BY <2>2 DEF WriteStart, WriteHeader, WriteRecord, Put, IInv, TypeOK,
                    FileInv, WriteInv, Slot
    <2>3. ASSUME NEW p \in Proc, Fsync(p)
          PROVE  Stable
        BY <2>3 DEF Fsync, IInv, TypeOK, FileInv
    <2>4. CASE PowerLoss
        BY <2>4 DEF PowerLoss, IInv, TypeOK, Slot
    <2>5. CASE EntryLoss
        <3>1. synced = 0
            BY <2>5 DEF EntryLoss, IInv, TypeOK, FileInv
        <3>. QED  BY <3>1
    <2>6. ASSUME NEW p \in Proc, Step(p) \/ Fault(p) \/ Crash(p)
          PROVE  \/ UNCHANGED <<cell, synced>>
                 \/ WriteStart(p) \/ WriteHeader(p) \/ WriteRecord(p) \/ Fsync(p)
        BY <2>6 DEF Step, Begin, OpenExisting, OpenMissing, Create, CreateLost,
                    Lock, Validate, DirSync, Unlock, Close, Fault, EarlyFault,
                    ProtectFails, ReadFault, WriteFault, FsyncFault,
                    DirSyncFault, CloseFault, Crash, fileVars
    <2>. QED  BY <2>1, <2>2, <2>3, <2>4, <2>5, <2>6 DEF Next
<1>2. IInv /\ [Next]_vars => [Stable]_vars
    BY <1>1
<1>. QED  BY <1>2, Invariance, PTL DEF Spec, SyncedPrefixStable

-----------------------------------------------------------------------------
(* Lookups, and the race to create the ledger *)

\* A token that was granted when a call began is still granted, so its record
\* is there to be found; and a lookup that has read the file has found it.
LookupInv ==
    EntryKept =>
        \A p \in Proc : known[p] =>
            /\ pc[p] # "idle" /\ grants[tok[p]] > 0
            /\ op[p] = "contains" /\ status[p] = "ok"
                 /\ pc[p] \in {"unlock", "close", "done"} => seen[p]

\* A process that lost the race finds the ledger when it opens it again.
RaceInv ==
    \A p \in Proc :
        /\ attempt[p] <= 1
        /\ attempt[p] = 1 => /\ pc[p] \notin {"idle", "create"}
                             /\ pc[p] = "open" => exists

\* No step takes a grant back or changes what a call was made for.
LEMMA GrantsStay ==
    ASSUME IInv, [Next]_vars
    PROVE  /\ UNCHANGED <<op, tok>>
           /\ \A t \in Token : grants[t] > 0 => grants'[t] > 0
<1>. USE DEF IInv, TypeOK, callVars, fileVars
<1>1. ASSUME NEW p \in Proc, Step(p) \/ Fault(p) \/ Crash(p)
      PROVE  /\ UNCHANGED <<op, tok>>
             /\ \/ grants' = grants
                \/ grants' = [grants EXCEPT ![tok[p]] = @ + 1]
    BY <1>1 DEF Step, Begin, OpenExisting, OpenMissing, Create, CreateLost, Lock,
                Validate, WriteStart, WriteHeader, WriteRecord, Fsync, DirSync,
                Unlock, Close, Fault, EarlyFault, ProtectFails, ReadFault,
                WriteFault, FsyncFault, DirSyncFault, CloseFault, Crash
<1>2. CASE PowerLoss \/ EntryLoss \/ UNCHANGED vars
    BY <1>2 DEF PowerLoss, EntryLoss, AllDie, vars
<1>. QED  BY <1>1, <1>2 DEF Next

\* A granted token is among the records a validation reads.
LEMMA GrantedIsFound ==
    ASSUME IInv, EntryKept, NEW t \in Token, grants[t] > 0
    PROVE  exists /\ RecordedIn(t)
<1>1. Durable(t)
    BY DEF IInv, GrantInv
<1>2. \A s \in 1..(synced - 1) : s \in 1..(eof - 1)
    BY DEF IInv, TypeOK, FileInv
<1>. QED  BY <1>1, <1>2 DEF Durable, RecordedIn

\* The one step that answers a lookup finds the record; a lookup that finds
\* no ledger began before its token was granted.
LEMMA LookupStep ==
    ASSUME IInv, LookupInv, [Next]_vars
    PROVE  LookupInv'
<1>. SUFFICES ASSUME EntryKept, NEW q \in Proc, known'[q]
              PROVE  /\ pc'[q] # "idle" /\ grants'[tok'[q]] > 0
                     /\ op'[q] = "contains" /\ status'[q] = "ok"
                          /\ pc'[q] \in {"unlock", "close", "done"} => seen'[q]
    BY DEF LookupInv
<1>. USE DEF IInv, TypeOK, GoTo, callVars, fileVars
<1>1. UNCHANGED <<op, tok>> /\ \A t \in Token : grants[t] > 0 => grants'[t] > 0
    BY GrantsStay
<1>2. CASE Begin(q)
    BY <1>1, <1>2 DEF Begin
<1>3. ASSUME known[q] PROVE /\ grants[tok[q]] > 0 /\ grants'[tok'[q]] > 0
                            /\ exists /\ RecordedIn(tok[q])
    BY <1>1, <1>3, GrantedIsFound DEF LookupInv
<1>4. CASE Validate(q)
    <2>1. pc'[q] # "idle" /\ known[q]
        BY <1>4 DEF Validate, Tail
    <2>2. status'[q] = "ok" /\ op[q] = "contains" => seen'[q]
        BY <1>3, <1>4, <2>1 DEF Validate, Verdict
    <2>. QED  BY <1>1, <1>3, <2>1, <2>2
<1>5. CASE /\ Step(q) \/ Fault(q) \/ Crash(q)
           /\ ~Begin(q) /\ ~Validate(q)
    <2>1. known[q]
        BY <1>5 DEF Step, OpenExisting, OpenMissing, Create, CreateLost, Lock,
                    WriteStart, WriteHeader, WriteRecord, Fsync, DirSync, Unlock,
                    Close, Fault, EarlyFault, ProtectFails, ReadFault, WriteFault,
                    FsyncFault, DirSyncFault, CloseFault, Crash
    <2>2. pc'[q] # "idle" /\ seen'[q] = seen[q]
        BY <1>5 DEF Step, OpenExisting, OpenMissing, Create, CreateLost, Lock,
                    WriteStart, WriteHeader, WriteRecord, Fsync, DirSync, Unlock,
                    Close, Fault, EarlyFault, ProtectFails, ReadFault, WriteFault,
                    FsyncFault, DirSyncFault, CloseFault, Crash, Tail
    <2>3. ASSUME op[q] = "contains", status'[q] = "ok",
                 pc'[q] \in {"unlock", "close", "done"}
          PROVE  status[q] = "ok" /\ pc[q] \in {"unlock", "close"}
        BY <1>3, <1>5, <2>1, <2>3
           DEF Step, OpenExisting, OpenMissing, Create, CreateLost, Lock,
               WriteStart, WriteHeader, WriteRecord, Fsync, DirSync, Unlock,
               Close, Fault, EarlyFault, ProtectFails, ReadFault, WriteFault,
               FsyncFault, DirSyncFault, CloseFault, Crash, LockInv
    <2>. QED  BY <1>1, <1>3, <2>1, <2>2, <2>3 DEF LookupInv
<1>6. CASE /\ \E p \in Proc \ {q} : Step(p) \/ Fault(p) \/ Crash(p)
    <2>. PICK p \in Proc \ {q} : Step(p) \/ Fault(p) \/ Crash(p)
        BY <1>6
    <2>1. /\ pc'[q] = pc[q] /\ known'[q] = known[q]
          /\ status'[q] = status[q] /\ seen'[q] = seen[q]
        BY DEF Step, Begin, OpenExisting, OpenMissing, Create, CreateLost, Lock,
               Validate, WriteStart, WriteHeader, WriteRecord, Fsync, DirSync,
               Unlock, Close, Fault, EarlyFault, ProtectFails, ReadFault,
               WriteFault, FsyncFault, DirSyncFault, CloseFault, Crash
    <2>. QED  BY <1>1, <1>3, <2>1 DEF LookupInv
<1>7. CASE PowerLoss \/ EntryLoss \/ UNCHANGED vars
    <2>1. /\ known'[q] = known[q] /\ status'[q] = status[q] /\ seen'[q] = seen[q]
          /\ pc'[q] \in {pc[q], "dead"}
        BY <1>7 DEF PowerLoss, EntryLoss, AllDie, vars
    <2>. QED  BY <1>1, <1>3, <2>1 DEF LookupInv
<1>. QED  BY <1>2, <1>4, <1>5, <1>6, <1>7 DEF Next

\* Only a power failure takes the ledger's entry away, and it leaves no
\* process that could lose the race again.
LEMMA RaceStep ==
    ASSUME IInv, RaceInv, [Next]_vars
    PROVE  RaceInv'
<1>. USE DEF IInv, TypeOK, GoTo, callVars, fileVars, MaxAttempts
<1>1. ASSUME NEW p \in Proc, Begin(p) \/ OpenExisting(p) \/ OpenMissing(p)
                             \/ Create(p) \/ CreateLost(p) \/ Lock(p)
      PROVE  RaceInv'
    BY <1>1 DEF RaceInv, Begin, OpenExisting, OpenMissing, Create, CreateLost, Lock
<1>2. ASSUME NEW p \in Proc,
             \/ Validate(p) \/ WriteStart(p) \/ WriteHeader(p) \/ WriteRecord(p)
             \/ Fsync(p) \/ DirSync(p) \/ Unlock(p) \/ Close(p)
             \/ Fault(p) \/ Crash(p)
      PROVE  RaceInv'
    <2>1. /\ attempt' = attempt /\ (exists => exists')
          /\ \A q \in Proc \ {p} : pc'[q] = pc[q]
          /\ pc'[p] \notin {"idle", "open", "create"}
        BY <1>2 DEF Validate, WriteStart, WriteHeader, WriteRecord, Put, Fsync,
                    DirSync, Unlock, Close, Fault, EarlyFault, ProtectFails,
                    ReadFault, WriteFault, FsyncFault, DirSyncFault, CloseFault,
                    Crash, Tail
    <2>. QED  BY <2>1 DEF RaceInv
<1>3. CASE PowerLoss \/ EntryLoss
    BY <1>3 DEF RaceInv, PowerLoss, EntryLoss, AllDie, Running
<1>4. CASE UNCHANGED vars
    BY <1>4 DEF RaceInv, vars
<1>. QED  BY <1>1, <1>2, <1>3, <1>4 DEF Next, Step

\* Freshness of a lookup, under the same assumption: qn_replay_ledger_contains
\* answers "seen" or fails for a token that was granted before it was called,
\* whatever consumers and crashes come between its system calls.
THEOREM LookupsRemember == EntryKept => (Spec => []LookupNeverForgets)
<1>. SUFFICES ASSUME EntryKept PROVE Spec => []LookupNeverForgets
    OBVIOUS
<1>1. Init => LookupInv
    BY DEF Init, LookupInv
<1>2. IInv /\ LookupInv /\ [Next]_vars => LookupInv'
    BY LookupStep
<1>3. LookupInv => LookupNeverForgets
    BY DEF LookupInv, LookupNeverForgets, Finished
<1>. QED  BY <1>1, <1>2, <1>3, Invariance, PTL DEF Spec

\* open_for_consume never runs out of attempts, on any file system and
\* whatever crashes: the error after its loop is unreachable.
THEOREM RaceLostOnce == Spec => []CreationRaceLostOnce
<1>1. ASSUME Init PROVE RaceInv
    <2>1. attempt = [p \in Proc |-> 0]
        BY <1>1 DEF Init
    <2>2. ASSUME NEW p \in Proc PROVE attempt[p] <= 1 /\ attempt[p] # 1
        BY <2>1
    <2>. QED  BY <2>2, Zenon DEF RaceInv
<1>2. IInv /\ RaceInv /\ [Next]_vars => RaceInv'
    BY RaceStep
<1>3. RaceInv => CreationRaceLostOnce
    BY DEF RaceInv, CreationRaceLostOnce
<1>. QED  BY <1>1, <1>2, <1>3, Invariance, PTL DEF Spec

-----------------------------------------------------------------------------
(* Refinement *)

Recorded == {t \in Token : RecordedIn(t)}

\* The ledger, with all its processes, locks, partial writes, failures and
\* crashes, implements AttemptOnce, under the same assumption.
THEOREM Refinement == EntryKept => (Spec => ImplementsAttemptOnce)
<1>. SUFFICES ASSUME EntryKept PROVE Spec => Abstract!Spec
    BY DEF ImplementsAttemptOnce
<1>. USE LedgerAssumption
<1>1. Init => Abstract!Init
    BY DEF Init, Abstract!Init, RecordedIn
<1>2. IInv /\ [Next]_vars => [Abstract!Next]_(Abstract!vars)
    <2>. SUFFICES ASSUME IInv, [Next]_vars
                  PROVE  [Abstract!Next]_<<Recorded, grants>>
        BY DEF Abstract!vars, Recorded
    <2>. USE DEF IInv, TypeOK
    <2>1. ASSUME NEW p \in Proc, WriteRecord(p)
          PROVE  Abstract!Record(tok[p])
        <3>1. /\ at[p] \in 1..(eof - 1) /\ eof' = eof /\ at[p] \in Slot
              /\ cell' = [cell EXCEPT ![at[p]] = tok[p]]
              /\ cell[at[p]] = Torn /\ ~RecordedIn(tok[p])
            BY <2>1 DEF WriteRecord, Put, WriteInv, Slot
        <3>2. \A t \in Token : (RecordedIn(t))' <=> RecordedIn(t) \/ t = tok[p]
            BY <3>1 DEF RecordedIn
        <3>3. tok[p] \notin Recorded /\ Recorded' = Recorded \cup {tok[p]}
            BY <3>1, <3>2 DEF Recorded
        <3>. QED  BY <2>1, <3>3 DEF Abstract!Record, Recorded, WriteRecord
    <2>2. ASSUME NEW p \in Proc, Close(p)
          PROVE  Abstract!Grant(tok[p]) \/ UNCHANGED <<Recorded, grants>>
        <3>1. Recorded' = Recorded
            BY <2>2 DEF Close, Recorded, RecordedIn, fileVars
        <3>2. CASE Appended(p)
            <4>1. tok[p] \in Recorded /\ grants[tok[p]] = 0
                BY <3>2 DEF AppendInv, Recorded
            <4>2. grants' = [grants EXCEPT ![tok[p]] = 1]
                BY <2>2, <3>2, <4>1 DEF Close, Appended
            <4>. QED  BY <3>1, <4>1, <4>2 DEF Abstract!Grant, Recorded
        <3>3. CASE ~Appended(p)
            BY <2>2, <3>1, <3>3 DEF Close, Appended
        <3>. QED  BY <3>2, <3>3
    <2>3. ASSUME PowerLoss \/ EntryLoss
          PROVE  Abstract!Forget(Recorded \ Recorded')
        <3>1. Recorded' \subseteq Recorded
            <4>1. CASE PowerLoss
                <5>1. /\ eof \in Nat /\ eof' \in Nat /\ eof' <= eof
                      /\ \A s \in 1..(eof' - 1) : cell'[s] \in Token => cell'[s] = cell[s]
                    BY <4>1 DEF PowerLoss, Slot
                <5>2. ASSUME NEW s \in 1..(eof' - 1), cell'[s] \in Token
                      PROVE  s \in 1..(eof - 1) /\ cell'[s] = cell[s]
                    <6>1. \A r \in 1..(eof' - 1) : r \in 1..(eof - 1)
                        BY <5>1, RangeMono
                    <6>. QED  BY <5>1, <5>2, <6>1
                <5>. QED  BY <5>2 DEF Recorded, RecordedIn
            <4>2. CASE EntryLoss
                BY <4>2 DEF EntryLoss, Recorded, RecordedIn
            <4>. QED  BY <2>3, <4>1, <4>2
        <3>2. grants' = grants
            BY <2>3 DEF PowerLoss, EntryLoss, AllDie
        <3>3. \A t \in Token : grants[t] > 0 => (RecordedIn(t))'
            <4>1. GrantInv' /\ FileInv' /\ TypeOK'
                BY Inductive
            <4>2. \A t \in Token : grants[t] > 0 => (Durable(t))'
                BY <3>2, <4>1 DEF GrantInv
            <4>3. synced' \in Nat /\ eof' \in Nat /\ synced' <= eof'
                BY <4>1 DEF FileInv
            <4>4. \A s \in 1..(synced' - 1) : s \in 1..(eof' - 1)
                BY <4>3, RangeMono
            <4>. QED  BY <4>2, <4>4 DEF Durable, RecordedIn
        <3>4. \A t \in Recorded \ Recorded' : grants[t] = 0
            BY <3>3 DEF Recorded
        <3>5. Recorded' = Recorded \ (Recorded \ Recorded')
            BY <3>1
        <3>. QED  BY <3>2, <3>4, <3>5 DEF Abstract!Forget, Recorded
    <2>4. ASSUME NEW p \in Proc, WriteStart(p) \/ WriteHeader(p)
          PROVE  UNCHANGED <<Recorded, grants>>
        <3>1. \A t \in Token : (RecordedIn(t))' <=> RecordedIn(t)
            <4>1. CASE WriteStart(p)
                <5>1. /\ eof <= eof'
                      /\ \A s \in 1..(eof - 1) : cell'[s] = cell[s]
                      /\ \A s \in 1..(eof' - 1) : s >= eof => cell'[s] = Torn
                    BY <4>1 DEF WriteStart, Put, WriteInv, Slot
                <5>2. eof \in Nat /\ eof' \in Nat
                    BY <4>1 DEF WriteStart, Put
                <5>3. ASSUME NEW s \in 1..(eof' - 1), cell'[s] \in Token
                      PROVE  s \in 1..(eof - 1) /\ cell'[s] = cell[s]
                    <6>1. ~(s >= eof)
                        BY <5>1, <5>3
                    <6>. QED  BY <5>1, <5>2, <6>1
                <5>4. \A s \in 1..(eof - 1) : s \in 1..(eof' - 1)
                    BY <5>1, <5>2, RangeMono
                <5>. QED  BY <5>1, <5>3, <5>4 DEF RecordedIn
            <4>2. CASE WriteHeader(p)
                BY <4>2 DEF WriteHeader, Put, RecordedIn
            <4>. QED  BY <2>4, <4>1, <4>2
        <3>. QED  BY <2>4, <3>1 DEF Recorded, WriteStart, WriteHeader
    <2>5. ASSUME NEW p \in Proc, Step(p) \/ Fault(p) \/ Crash(p)
          PROVE  \/ UNCHANGED <<cell, eof, grants>>
                 \/ WriteStart(p) \/ WriteHeader(p) \/ WriteRecord(p) \/ Close(p)
        BY <2>5 DEF Step, Begin, OpenExisting, OpenMissing, Create, CreateLost,
                    Lock, Validate, Fsync, DirSync, Unlock, Fault, EarlyFault,
                    ProtectFails, ReadFault, WriteFault, FsyncFault,
                    DirSyncFault, CloseFault, Crash, fileVars
    <2>6. ASSUME UNCHANGED <<cell, eof, grants>>
          PROVE  UNCHANGED <<Recorded, grants>>
        BY <2>6 DEF Recorded, RecordedIn
    <2>7. CASE \E p \in Proc : WriteRecord(p)
        <3>1. PICK p \in Proc : WriteRecord(p)
            BY <2>7
        <3>. QED  BY <2>1, <3>1 DEF Abstract!Next
    <2>8. CASE \E p \in Proc : Close(p)
        <3>1. PICK p \in Proc : Close(p)
            BY <2>8
        <3>. QED  BY <2>2, <3>1 DEF Abstract!Next
    <2>9. CASE PowerLoss \/ EntryLoss
        <3>1. Abstract!Forget(Recorded \ Recorded') /\ Recorded \ Recorded' \in SUBSET Recorded
            BY <2>3, <2>9
        <3>. QED  BY <3>1 DEF Abstract!Next, Recorded
    <2>10. CASE UNCHANGED vars
        BY <2>6, <2>10 DEF vars
    <2>. QED  BY <2>4, <2>5, <2>6, <2>7, <2>8, <2>9, <2>10 DEF Next
<1>. QED  BY <1>1, <1>2, Invariance, PTL DEF Spec, Abstract!Spec

=============================================================================
