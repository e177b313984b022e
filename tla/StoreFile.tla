----------------------------- MODULE StoreFile -----------------------------
(***************************************************************************)
(* Loading a trust store (qn_trust_store_load_file) or a revocation store  *)
(* (qn_revocation_store_load_file) and asking it, as main.c does, one      *)
(* action per system call, while an administrator replaces the file,       *)
(* removes it, appends to it or rewrites it in place.                      *)
(*                                                                         *)
(* A file is an inode: its text, and whether the revocation store's rules  *)
(* for files are broken (a symbolic link, a second hard link, not a        *)
(* regular file, writable by others: loose).  Reading is unit by unit:     *)
(* nothing makes a read atomic against a write.                            *)
(***************************************************************************)
EXTENDS EntryStore, FiniteSets

CONSTANTS
    Loader,                 \* commands, each loading the store once
    First,                  \* First[s]: texts store s may hold at the start
    Text,                   \* Text[s]: texts an administrator may replace them by
    Unit,                   \* lines an administrator may append
    Question,               \* the token and issuer a command asks about
    File,                   \* inodes, one of which is always free
    None,                   \* no file
    MaxVersions,            \* bound of the versions during a load
    Faults                  \* system calls may fail

ASSUME StoreFileAssumption ==
    /\ None \notin File /\ MaxVersions \in Nat /\ Faults \in BOOLEAN
    /\ \A q \in Question : q.token \in Key /\ q.issuer \in Key
    /\ \A s \in StoreKind : First[s] \cup Text[s] \subseteq Seq(TextUnit)
    /\ Unit \subseteq TextUnit

VARIABLES
    store,                  \* which store the file is
    files,                  \* what each inode holds
    named,                  \* the inode the path names, or None
    rewriting,              \* it is being rewritten in place
    pc, ask,                \* each loader, and its question
    file, size, data,       \* its descriptor, the size it measured, what it read
    answer, verdict,        \* what the load and the lookup returned
    seen,                   \* history: what the path held since the load began
    calm                    \* history: without a rewriting since then

adminVars == <<files, named, rewriting>>
vars == <<store, files, named, rewriting, pc, ask, file, size, data, answer,
          verdict, seen, calm>>

Content == IF named = None THEN {} ELSE {files[named].units}

\* A trust store is what its file held once it was open; a revocation store
\* is checked to be still in place when it is measured.
Begun(p) == pc[p] = "read" \/ (pc[p] = "measure" /\ store = "trust")

IOCode == IF store = "trust" THEN "QN-E5117" ELSE "QN-E6106"

TypeOK ==
    /\ store \in StoreKind
    /\ files \in [File -> [units : Seq(TextUnit), loose : BOOLEAN]]
    /\ named \in File \cup {None}
    /\ rewriting \in BOOLEAN /\ (rewriting => named # None)
    /\ pc \in [Loader -> {"idle", "measure", "read", "done"}]
    /\ ask \in [Loader -> Question]
    /\ file \in [Loader -> File \cup {None}]
    /\ size \in [Loader -> 0..MaxUnits] /\ data \in [Loader -> Seq(TextUnit)]
    /\ answer \in [Loader -> Result] /\ verdict \in [Loader -> Code]
    /\ seen \in [Loader -> SUBSET Seq(TextUnit)] /\ calm \in [Loader -> BOOLEAN]
    /\ \A p \in Loader :
        /\ pc[p] \in {"measure", "read"} => file[p] # None
        /\ Len(data[p]) <= size[p]

Init ==
    /\ store \in StoreKind
    /\ \E units \in First[store], loose \in BOOLEAN :
        files = [f \in File |-> [units |-> units, loose |-> loose]]
    /\ named \in File \cup {None}
    /\ rewriting = FALSE
    /\ pc = [p \in Loader |-> "idle"]
    /\ ask \in [Loader -> Question]
    /\ file = [p \in Loader |-> None]
    /\ size = [p \in Loader |-> 0]
    /\ data = [p \in Loader |-> <<>>]
    /\ answer = [p \in Loader |-> Refused("none")]
    /\ verdict = [p \in Loader |-> "none"]
    /\ seen = [p \in Loader |-> {}]
    /\ calm = [p \in Loader |-> TRUE]

-----------------------------------------------------------------------------
(* Loading *)

\* Mutant of Verdict: a store that cannot be loaded is taken for an empty one.
VerdictOfNothing(p, loaded) ==
    IF store = "trust" THEN Resolve(loaded.entries, ask[p].issuer)
    ELSE Check(loaded.entries, ask[p].token, ask[p].issuer)

\* What the command makes of a load: main.c passes a refusal on, and only
\* asks a store it could load.
Verdict(p, loaded) ==
    IF loaded.code # "ok" THEN loaded.code
    ELSE IF store = "trust" THEN Resolve(loaded.entries, ask[p].issuer)
    ELSE Check(loaded.entries, ask[p].token, ask[p].issuer)

GoTo(p, l) == pc' = [pc EXCEPT ![p] = l]

Finish(p, loaded) ==
    /\ GoTo(p, "done")
    /\ answer' = [answer EXCEPT ![p] = loaded]
    /\ verdict' = [verdict EXCEPT ![p] = Verdict(p, loaded)]

Begin(p) ==
    /\ calm' = [calm EXCEPT ![p] = ~rewriting]
    /\ seen' = [seen EXCEPT ![p] = IF rewriting THEN {} ELSE Content]

\* open, fopen
Open(p) ==
    /\ pc[p] = "idle" /\ named # None
    /\ GoTo(p, "measure")
    /\ file' = [file EXCEPT ![p] = named]
    /\ IF store = "trust" THEN Begin(p) ELSE UNCHANGED <<seen, calm>>
    /\ UNCHANGED <<store, ask, size, data, answer, verdict>> /\ UNCHANGED adminVars

NoFile(p) ==
    /\ pc[p] = "idle" /\ named = None
    /\ Finish(p, Refused(IOCode))
    /\ UNCHANGED <<store, ask, file, size, data, seen, calm>> /\ UNCHANGED adminVars

\* fseek, ftell: the size is limited, and nothing else about the file.
MeasureTrust(p) ==
    /\ pc[p] = "measure" /\ store = "trust"
    /\ LET length == Len(files[file[p]].units) IN
       IF length > MaxUnits
       THEN Finish(p, Refused("QN-E5111")) /\ UNCHANGED size
       ELSE /\ GoTo(p, "read")
            /\ size' = [size EXCEPT ![p] = length]
            /\ UNCHANGED <<answer, verdict>>
    /\ UNCHANGED <<store, ask, file, data, seen, calm>> /\ UNCHANGED adminVars

\* Mutant of Safe: links are not counted.
SafeAnyLinks(p) == ~files[file[p]].loose

\* fstat: a regular file with one link, which nobody else may write.  The
\* link of a file that was replaced or removed after the open is gone.
Safe(p) == ~files[file[p]].loose /\ file[p] = named

MeasureRevocation(p) ==
    /\ pc[p] = "measure" /\ store = "revocation"
    /\ LET length == Len(files[file[p]].units) IN
       IF ~Safe(p) \/ length \notin 1..MaxUnits
       THEN /\ Finish(p, Refused(IF ~Safe(p) THEN "QN-E6106"
                                 ELSE IF length = 0 THEN "QN-E6103" ELSE "QN-E6102"))
            /\ UNCHANGED <<size, seen, calm>>
       ELSE /\ GoTo(p, "read")
            /\ size' = [size EXCEPT ![p] = length]
            /\ Begin(p)
            /\ UNCHANGED <<answer, verdict>>
    /\ UNCHANGED <<store, ask, file, data>> /\ UNCHANGED adminVars

\* fread, pread_exact: the next bytes, as far as the size that was measured.
Read(p) ==
    /\ pc[p] = "read"
    /\ Len(data[p]) < size[p] /\ Len(data[p]) < Len(files[file[p]].units)
    /\ data' = [data EXCEPT ![p] = Append(@, files[file[p]].units[Len(@) + 1])]
    /\ UNCHANGED <<store, pc, ask, file, size, answer, verdict, seen, calm>>
    /\ UNCHANGED adminVars

\* The file became shorter since.
ShortRead(p) ==
    /\ pc[p] = "read"
    /\ Len(data[p]) < size[p] /\ Len(data[p]) >= Len(files[file[p]].units)
    /\ Finish(p, Refused(IOCode))
    /\ UNCHANGED <<store, ask, file, size, data, seen, calm>> /\ UNCHANGED adminVars

\* All is read: close, parse, and ask.
Parse(p) ==
    /\ pc[p] = "read" /\ Len(data[p]) = size[p]
    /\ Finish(p, ParseText(store, data[p]))
    /\ UNCHANGED <<store, ask, file, size, data, seen, calm>> /\ UNCHANGED adminVars

\* open, fstat, fseek, ftell, a read or close fails.
Fault(p) ==
    /\ Faults /\ pc[p] # "done"
    /\ Finish(p, Refused(IOCode))
    /\ UNCHANGED <<store, ask, file, size, data, seen, calm>> /\ UNCHANGED adminVars

-----------------------------------------------------------------------------
(* The administrator *)

loaderVars == <<store, pc, ask, file, size, data, answer, verdict>>

\* History: once the file was rewritten, what it held does not matter.
Notice ==
    /\ calm' = [p \in Loader |-> calm[p] /\ ~(Begun(p) /\ rewriting')]
    /\ seen' = [p \in Loader |-> IF ~calm'[p] THEN {}
                                 ELSE IF Begun(p) THEN seen[p] \cup Content' ELSE seen[p]]
    /\ \A p \in Loader : Cardinality(seen'[p]) <= MaxVersions

\* Inodes some loader has open.  What a free inode holds does not matter.
Held == {file[p] : p \in {q \in Loader : pc[q] \in {"measure", "read"}}}
Free == File \ (Held \cup {named})
Reuse(new) == files' = [f \in File |-> IF f \in Held THEN files[f] ELSE new]

\* A new file takes the name of the old one.
Replace ==
    /\ \E f \in Free : named' = f
    /\ \E units \in Text[store] : Reuse([units |-> units, loose |-> FALSE])
    /\ rewriting' = FALSE
    /\ UNCHANGED loaderVars /\ Notice

Remove ==
    /\ named # None
    /\ named' = None /\ rewriting' = FALSE
    /\ Reuse([units |-> <<>>, loose |-> FALSE])
    /\ UNCHANGED loaderVars /\ Notice

\* A line is added at the end, and then its LF.
Extend ==
    /\ named # None
    /\ LET units == files[named].units IN
        /\ Len(units) <= MaxUnits
        /\ \E u \in IF units = <<>> THEN {Header(store)}
                    ELSE IF EndsInLF(units) THEN Unit ELSE {LF} :
            files' = [files EXCEPT ![named].units = Append(units, u)]
    /\ UNCHANGED <<named, rewriting, loaderVars>> /\ Notice

\* The file is cut to nothing, to be written anew.
Rewrite ==
    /\ named # None /\ ~rewriting
    /\ files' = [files EXCEPT ![named].units = <<>>]
    /\ rewriting' = TRUE
    /\ UNCHANGED <<named, loaderVars>> /\ Notice

Rewritten ==
    /\ rewriting /\ EndsInLF(files[named].units)
    /\ rewriting' = FALSE
    /\ UNCHANGED <<files, named, loaderVars>> /\ Notice

-----------------------------------------------------------------------------

Load(p) ==
    \/ Open(p) \/ NoFile(p) \/ MeasureTrust(p) \/ MeasureRevocation(p)
    \/ Read(p) \/ ShortRead(p) \/ Parse(p) \/ Fault(p)

Next ==
    \/ \E p \in Loader : Load(p)
    \/ Replace \/ Remove \/ Extend \/ Rewrite \/ Rewritten

Spec == Init /\ [][Next]_vars

-----------------------------------------------------------------------------
(* Properties *)

Lists(units, kind, key) ==
    \E i \in DOMAIN EntriesOf(units) : EntriesOf(units)[i] = [kind |-> kind, key |-> key]

\* A command only goes on if one complete version of the store, which the
\* path held since the load began, trusts the issuer, or revokes neither
\* the token nor its issuer: no failure, no replacement and no half-written
\* line is taken for trust or for the absence of a revocation.
VerdictsStand ==
    \A p \in Loader : verdict[p] = "ok" /\ calm[p] =>
        \E v \in seen[p] :
            /\ IsStore(store, v)
            /\ IF store = "trust" THEN Lists(v, "issuer", ask[p].issuer)
               ELSE /\ ~Lists(v, "token", ask[p].token)
                    /\ ~Lists(v, "issuer", ask[p].issuer)

\* Whatever a load read, also in the middle of a rewriting: it accepts
\* exactly the texts that are stores, and with all their entries.
LoadsAsMeant ==
    \A p \in Loader : pc[p] = "done" /\ Len(data[p]) = size[p] /\ size[p] > 0 =>
        ParsesAsMeant(store, data[p])

\* The refinement mapping: what is visible from outside.
Versions == INSTANCE StoreVersions WITH
    content <- Content,
    stage <- [p \in Loader |-> IF pc[p] = "done" THEN "done"
                               ELSE IF Begun(p) THEN "loading" ELSE "idle"]

\* A load takes effect at once: it returns one version, whole, that the
\* path held after the file was opened (of a trust store) or while the
\* descriptor was still the file of that name (of a revocation store).
ImplementsStoreVersions == Versions!Spec
=============================================================================
