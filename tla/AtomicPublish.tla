---------------------------- MODULE AtomicPublish ----------------------------
(***************************************************************************)
(* qn_write_binary_file_atomic (src/util.c), with which build writes its   *)
(* output, and qn_read_binary_file, with which exec reads it: publishers   *)
(* and readers of one destination, interleaved between system calls,       *)
(* while calls fail, processes are killed and power is lost.               *)
(*                                                                         *)
(* An inode is named by the publisher that created it (Old is the file     *)
(* there before); Chunks counts the writes that make an output whole.      *)
(* Publishers may have the same pid: a pid is reused after its process     *)
(* ends, and processes of two hosts or containers can share a directory.   *)
(***************************************************************************)
EXTENDS Naturals

CONSTANTS
    Publisher, Reader,      \* processes, each making one call
    Pid,
    Old, None,              \* the earlier file; no file
    Stale,                  \* a temporary file of an earlier, killed build
    MaxTemp,                \* 128: temporary names a publisher tries
    Chunks,                 \* writes per output
    Faults, Kills, PowerFails

ASSUME PublishAssumption ==
    /\ Old \notin Publisher /\ None \notin Publisher /\ Old # None
    /\ Stale \notin Publisher /\ Stale # None
    /\ MaxTemp \in Nat \ {0} /\ Chunks \in Nat \ {0}
    /\ Faults \in BOOLEAN /\ Kills \in BOOLEAN /\ PowerFails \in BOOLEAN

VARIABLES
    pc, pid, attempt, ok,   \* each publisher and its locals
    outcome,
    dest,                   \* the inode the destination names
    temp,                   \* the inode each temporary name names
    written, synced,        \* writes in each inode, and how many are on disk
    diskDest, diskTemp,     \* the directory as last committed to disk
    rpc, handle, size,      \* each reader, its open inode, the size it saw
    shown                   \* history: everything the destination ever named

localVars == <<pid, attempt, ok>>
disk == <<diskDest, diskTemp>>
readVars == <<rpc, handle, size>>
vars == <<pc, pid, attempt, ok, outcome, dest, temp, written, synced,
          diskDest, diskTemp, rpc, handle, size, shown>>

Inode == Publisher \cup {Old}
Temp == Pid \X (0..(MaxTemp - 1))
PC == {"idle", "open", "write", "close", "unlink", "rename", "renamed",
       "done", "dead"}

TypeOK ==
    /\ pc \in [Publisher -> PC] /\ pid \in [Publisher -> Pid]
    /\ attempt \in [Publisher -> 0..MaxTemp]
    /\ \A p \in Publisher : pc[p] # "done" => attempt[p] < MaxTemp
    /\ ok \in [Publisher -> BOOLEAN]
    /\ outcome \in [Publisher -> {"none", "ok", "failed", "littered"}]
    /\ dest \in Inode \cup {None} /\ diskDest \in Inode \cup {None}
    /\ temp \in [Temp -> Publisher \cup {Stale, None}]
    /\ diskTemp \in [Temp -> Publisher \cup {Stale, None}]
    /\ written \in [Inode -> 0..Chunks] /\ synced \in [Inode -> 0..Chunks]
    /\ rpc \in [Reader -> {"idle", "size", "read", "done", "failed"}]
    /\ handle \in [Reader -> Inode \cup {None}]
    /\ size \in [Reader -> 0..Chunks]
    /\ shown \subseteq Inode \cup {None}

Init ==
    /\ pc = [p \in Publisher |-> "idle"]
    /\ pid \in [Publisher -> Pid]
    /\ attempt = [p \in Publisher |-> 0]
    /\ ok = [p \in Publisher |-> TRUE]
    /\ outcome = [p \in Publisher |-> "none"]
    /\ dest \in {Old, None}
    /\ temp \in [Temp -> {Stale, None}]
    /\ written = [i \in Inode |-> IF i = Old THEN Chunks ELSE 0]
    /\ synced = written
    /\ diskDest = dest /\ diskTemp = temp
    /\ rpc = [r \in Reader |-> "idle"]
    /\ handle = [r \in Reader |-> None]
    /\ size = [r \in Reader |-> 0]
    /\ shown = {dest}

-----------------------------------------------------------------------------
(* Publishing *)

GoTo(p, l) == pc' = [pc EXCEPT ![p] = l]

Finish(p, result) ==
    /\ GoTo(p, "done")
    /\ outcome' = [outcome EXCEPT ![p] = result]

\* temp_path: "<path>.tmp.<pid>.<attempt>"
Name(p) == <<pid[p], attempt[p]>>

Begin(p) ==
    /\ pc[p] = "idle"
    /\ GoTo(p, "open")
    /\ UNCHANGED <<outcome, dest, temp, written, synced, shown>>
    /\ UNCHANGED localVars /\ UNCHANGED disk /\ UNCHANGED readVars

\* Mutant of Create: what is in the way is removed first.
CreateReplacing(p) ==
    /\ pc[p] = "open"
    /\ temp' = [temp EXCEPT ![Name(p)] = p]
    /\ GoTo(p, "write")
    /\ UNCHANGED <<outcome, dest, written, synced, shown>>
    /\ UNCHANGED localVars /\ UNCHANGED disk /\ UNCHANGED readVars

\* open(O_CREAT | O_EXCL) makes the temporary file.
Create(p) ==
    /\ pc[p] = "open"
    /\ temp[Name(p)] = None
    /\ temp' = [temp EXCEPT ![Name(p)] = p]
    /\ GoTo(p, "write")
    /\ UNCHANGED <<outcome, dest, written, synced, shown>>
    /\ UNCHANGED localVars /\ UNCHANGED disk /\ UNCHANGED readVars

\* EEXIST: the next name, until there is none left.
NameTaken(p) ==
    /\ pc[p] = "open"
    /\ temp[Name(p)] # None
    /\ attempt' = [attempt EXCEPT ![p] = @ + 1]
    /\ IF attempt[p] + 1 < MaxTemp THEN UNCHANGED <<pc, outcome>>
                                   ELSE Finish(p, "failed")
    /\ UNCHANGED <<pid, ok, dest, temp, written, synced, shown>>
    /\ UNCHANGED disk /\ UNCHANGED readVars

\* Memory runs out, or the temporary file cannot be created.
OpenFault(p) ==
    /\ Faults /\ pc[p] = "open"
    /\ Finish(p, "failed")
    /\ UNCHANGED <<dest, temp, written, synced, shown>>
    /\ UNCHANGED localVars /\ UNCHANGED disk /\ UNCHANGED readVars

Write(p) ==
    /\ pc[p] = "write"
    /\ written[p] < Chunks
    /\ written' = [written EXCEPT ![p] = @ + 1]
    /\ UNCHANGED <<pc, outcome, dest, temp, synced, shown>>
    /\ UNCHANGED localVars /\ UNCHANGED disk /\ UNCHANGED readVars

\* Mutant of Fsync: the call is left out.
FsyncSkipped(p) ==
    /\ pc[p] = "write"
    /\ written[p] = Chunks
    /\ GoTo(p, "close")
    /\ UNCHANGED <<outcome, dest, temp, written, synced, shown>>
    /\ UNCHANGED localVars /\ UNCHANGED disk /\ UNCHANGED readVars

Fsync(p) ==
    /\ pc[p] = "write"
    /\ written[p] = Chunks
    /\ synced' = [synced EXCEPT ![p] = written[p]]
    /\ GoTo(p, "close")
    /\ UNCHANGED <<outcome, dest, temp, written, shown>>
    /\ UNCHANGED localVars /\ UNCHANGED disk /\ UNCHANGED readVars

\* write or fsync fails.
WriteFault(p) ==
    /\ Faults /\ pc[p] = "write"
    /\ ok' = [ok EXCEPT ![p] = FALSE]
    /\ GoTo(p, "close")
    /\ UNCHANGED <<pid, attempt, outcome, dest, temp, written, synced, shown>>
    /\ UNCHANGED disk /\ UNCHANGED readVars

\* Mutant of Close: an earlier failure is forgotten.
CloseForgets(p) ==
    /\ pc[p] = "close"
    /\ GoTo(p, "rename")
    /\ UNCHANGED <<outcome, dest, temp, written, synced, shown>>
    /\ UNCHANGED localVars /\ UNCHANGED disk /\ UNCHANGED readVars

Close(p) ==
    /\ pc[p] = "close"
    /\ GoTo(p, IF ok[p] THEN "rename" ELSE "unlink")
    /\ UNCHANGED <<outcome, dest, temp, written, synced, shown>>
    /\ UNCHANGED localVars /\ UNCHANGED disk /\ UNCHANGED readVars

\* Mutant of CloseFault: the error returns without the clean-up.
CloseFaultReturns(p) ==
    /\ Faults /\ pc[p] = "close"
    /\ ok' = [ok EXCEPT ![p] = FALSE]
    /\ Finish(p, "failed")
    /\ UNCHANGED <<pid, attempt, dest, temp, written, synced, shown>>
    /\ UNCHANGED disk /\ UNCHANGED readVars

CloseFault(p) ==
    /\ Faults /\ pc[p] = "close"
    /\ ok' = [ok EXCEPT ![p] = FALSE]
    /\ GoTo(p, "unlink")
    /\ UNCHANGED <<pid, attempt, outcome, dest, temp, written, synced, shown>>
    /\ UNCHANGED disk /\ UNCHANGED readVars

\* unlink after a failure; nobody looks whether it succeeds.
Unlink(p) ==
    /\ pc[p] = "unlink"
    /\ \/ temp' = [temp EXCEPT ![Name(p)] = None] /\ Finish(p, "failed")
       \/ Faults /\ Finish(p, "littered") /\ UNCHANGED temp
    /\ UNCHANGED <<dest, written, synced, shown>>
    /\ UNCHANGED localVars /\ UNCHANGED disk /\ UNCHANGED readVars

\* rename replaces the destination's entry.
Rename(p) ==
    /\ pc[p] = "rename"
    /\ dest' = temp[Name(p)]
    /\ temp' = [temp EXCEPT ![Name(p)] = None]
    /\ shown' = shown \cup {dest'}
    /\ GoTo(p, "renamed")
    /\ UNCHANGED <<outcome, written, synced>>
    /\ UNCHANGED localVars /\ UNCHANGED disk /\ UNCHANGED readVars

RenameFault(p) ==
    /\ Faults /\ pc[p] = "rename"
    /\ GoTo(p, "unlink")
    /\ UNCHANGED <<outcome, dest, temp, written, synced, shown>>
    /\ UNCHANGED localVars /\ UNCHANGED disk /\ UNCHANGED readVars

Return(p) ==
    /\ pc[p] = "renamed"
    /\ Finish(p, "ok")
    /\ UNCHANGED <<dest, temp, written, synced, shown>>
    /\ UNCHANGED localVars /\ UNCHANGED disk /\ UNCHANGED readVars

-----------------------------------------------------------------------------
(* Reading *)

publishVars == <<pc, pid, attempt, ok, outcome, dest, temp, written, synced,
                 diskDest, diskTemp, shown>>

\* fopen
Open(r) ==
    /\ rpc[r] = "idle"
    /\ rpc' = [rpc EXCEPT ![r] = IF dest = None THEN "failed" ELSE "size"]
    /\ handle' = [handle EXCEPT ![r] = dest]
    /\ UNCHANGED size /\ UNCHANGED publishVars

\* fseek to the end and ftell
Measure(r) ==
    /\ rpc[r] = "size"
    /\ rpc' = [rpc EXCEPT ![r] = "read"]
    /\ size' = [size EXCEPT ![r] = written[handle[r]]]
    /\ UNCHANGED handle /\ UNCHANGED publishVars

\* fread of that many bytes
Read(r) ==
    /\ rpc[r] = "read"
    /\ rpc' = [rpc EXCEPT ![r] = IF written[handle[r]] >= size[r]
                                 THEN "done" ELSE "failed"]
    /\ UNCHANGED <<handle, size>> /\ UNCHANGED publishVars

\* fseek, ftell or fread fails, memory runs out, or the file is over 64 MiB.
ReadFault(r) ==
    /\ Faults /\ rpc[r] \in {"size", "read"}
    /\ rpc' = [rpc EXCEPT ![r] = "failed"]
    /\ UNCHANGED <<handle, size>> /\ UNCHANGED publishVars

-----------------------------------------------------------------------------
(* Crashes *)

Running(p) == pc[p] \notin {"idle", "done", "dead"}

Kill(p) ==
    /\ Kills /\ Running(p)
    /\ GoTo(p, "dead")
    /\ UNCHANGED <<outcome, dest, temp, written, synced, shown>>
    /\ UNCHANGED localVars /\ UNCHANGED disk /\ UNCHANGED readVars

\* The file system writes the directory to disk when it sees fit.
Commit ==
    /\ PowerFails
    /\ diskDest' = dest /\ diskTemp' = temp
    /\ UNCHANGED <<pc, outcome, dest, temp, written, synced, shown>>
    /\ UNCHANGED localVars /\ UNCHANGED readVars

\* Power is lost: the directory is what was last committed, and what was
\* not synchronized of a file may be gone.
PowerLoss ==
    /\ PowerFails
    /\ pc' = [p \in Publisher |-> IF Running(p) THEN "dead" ELSE pc[p]]
    /\ rpc' = [r \in Reader |-> IF rpc[r] \in {"size", "read"} THEN "failed" ELSE rpc[r]]
    /\ dest' = diskDest /\ temp' = diskTemp
    /\ \E left \in [Inode -> 0..Chunks] :
        /\ \A i \in Inode : synced[i] <= left[i] /\ left[i] <= written[i]
        /\ written' = left /\ synced' = left
    /\ UNCHANGED <<outcome, handle, size, shown>>
    /\ UNCHANGED localVars /\ UNCHANGED disk

-----------------------------------------------------------------------------

Publish(p) ==
    \/ Begin(p) \/ Create(p) \/ NameTaken(p) \/ OpenFault(p) \/ Write(p)
    \/ Fsync(p) \/ WriteFault(p) \/ Close(p) \/ CloseFault(p) \/ Unlink(p)
    \/ Rename(p) \/ RenameFault(p) \/ Return(p)

Next ==
    \/ \E p \in Publisher : Publish(p) \/ Kill(p)
    \/ \E r \in Reader : Open(r) \/ Measure(r) \/ Read(r) \/ ReadFault(r)
    \/ Commit \/ PowerLoss

Spec == Init /\ [][Next]_vars
-----------------------------------------------------------------------------
(* Properties *)

\* A reader gets a whole output or an error, whoever publishes meanwhile and
\* whatever failed before it came: it never sees a file being written.
ReadsWhole == \A r \in Reader : rpc[r] = "done" => size[r] = Chunks

\* When a publisher returns, no name leads to its temporary file any more,
\* unless unlink itself failed (a power failure later may bring one back).
NoLitter ==
    [][\A p \in Publisher :
        pc[p] # "done" /\ pc'[p] = "done" /\ outcome'[p] # "littered" =>
            \A n \in Temp : temp'[n] # p]_vars

\* Publishers with the same pid never work on the same temporary file: the
\* one that is at work under a name is the one that created the file there.
NamesOwned ==
    \A p \in Publisher :
        pc[p] \in {"write", "close", "unlink", "rename"} => temp[Name(p)] = p

\* The refinement mapping: what the destination holds, and where a caller is.
Value(i) == IF i = None \/ written[i] = Chunks THEN i ELSE "torn"

Phase(p) ==
    CASE pc[p] = "renamed" -> "published"
      [] pc[p] = "dead" -> "dead"
      [] pc[p] = "done" /\ outcome[p] = "ok" -> "ok"
      [] pc[p] = "done" /\ outcome[p] # "ok" -> "failed"
      [] OTHER -> "calling"

Abstract == INSTANCE AtomicFile WITH
    value <- Value(dest),
    past <- shown,
    phase <- [p \in Publisher |-> Phase(p)]

\* Publishing implements AtomicFile: it takes effect at the rename, for a
\* caller that reports success or dies, and never with part of an output.
ImplementsAtomicFile == Abstract!Spec
=============================================================================
