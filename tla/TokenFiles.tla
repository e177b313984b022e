----------------------------- MODULE TokenFiles -----------------------------
(***************************************************************************)
(* The approval commands of src/main.c (keygen-ed25519,                    *)
(* derive-public-ed25519, issue-ed25519, verify-ed25519, issue, verify),   *)
(* and run and exec as far as they verify a token, all working on the same *)
(* key and token files at once.                                            *)
(*                                                                         *)
(* qn_write_binary_file writes in place and qn_read_binary_file and        *)
(* qn_read_text_file read what is there: a file is what the writes so far  *)
(* left of it, cell by cell.  A command goes through a plan of files to    *)
(* read and to write; any call may fail and the process may be killed.     *)
(***************************************************************************)
EXTENDS ApprovalToken

CONSTANTS
    Process,                \* commands
    Scene,                  \* what they are to do, and the files at first
    Foreign                 \* tokens in those files that other tools sealed

Path == {"private", "public", "secret", "token"}
Role == {"none", "keygen", "derive", "issue", "verify"}

\* What a command line says, as far as the proofs need it.
IsJob(j) ==
    /\ j.role \in Role
    /\ j.role \in {"issue", "verify"} => j.scheme \in Scheme
    /\ j.role = "issue" =>
        /\ j.issued \in Nat /\ j.expires \in Nat /\ IsCells(j.context)
        /\ \A i \in DOMAIN j.context : j.context[i].kind = "context"
    /\ j.role = "verify" => j.now \in Nat /\ (j.keyFrom = "store" => j.scheme = "ed25519")

\* The pieces of a token file, whoever wrote it.  What stands where the
\* window belongs is read as one; a context is not a seal.
IsTokenFile(cells, tokens) ==
    /\ IsCells(cells)
    /\ \A i \in DOMAIN cells :
        /\ cells[i].kind = "seal" => \E t \in tokens : cells[i] = t.seal
        /\ i = 1 /\ cells[i].kind = "scope" =>
            cells[i] = [kind |-> "scope", format |-> cells[i].format,
                        issuer |-> cells[i].issuer, cap |-> cells[i].cap,
                        source |-> cells[i].source]
        /\ i = 2 =>
            /\ cells[i] = [kind |-> "window", issued |-> cells[i].issued,
                           expires |-> cells[i].expires, nonce |-> cells[i].nonce,
                           length |-> cells[i].length]
            /\ cells[i].length \in Nat

\* Nobody makes a seal without its key: the files hold at first only seals
\* of tokens that were sealed.
ASSUME TokenFilesAssumption ==
    /\ \A t \in Foreign : IsToken(t)
    /\ \A s \in Scene :
        /\ \A p \in Process : IsJob(s.job[p])
        /\ DOMAIN s.content = Path /\ \A f \in Path : IsCells(s.content[f])
        /\ IsTokenFile(s.content["token"], Foreign)

VARIABLES
    job,                    \* the command line of each process
    content,                \* the files
    stage,                  \* which file of its plan a process is at
    open,                   \* whether it has it open
    size, at,               \* the size it measured, the cells it wrote
    got,                    \* what it read of each file
    outcome                 \* how the command ended

vars == <<job, content, stage, open, size, at, got, outcome>>

ReadFile(f) == [do |-> "read", file |-> f]
WriteFile(f) == [do |-> "write", file |-> f]

\* The files of a command, in its order.  A trust store is a question of its
\* own (StoreFile): only its answer counts here.
Plan(j) ==
    IF j.role = "keygen"
    THEN <<WriteFile("private"), WriteFile("public"), ReadFile("public")>>
    ELSE IF j.role = "derive" THEN <<ReadFile("private"), WriteFile("public")>>
    ELSE IF j.role = "issue"
    THEN <<ReadFile(IF j.scheme = "ed25519" THEN "private" ELSE "secret"), WriteFile("token")>>
    ELSE IF j.role = "verify"
    THEN IF j.scheme = "hmac-sha256" THEN <<ReadFile("token"), ReadFile("secret")>>
         ELSE IF j.keyFrom = "store" THEN <<ReadFile("token")>>
         ELSE <<ReadFile("token"), ReadFile("public")>>
    ELSE <<>>

Ended(p) == outcome[p] # "none" \/ job[p].role = "none"
File(p) == Plan(job[p])[stage[p]].file
Reading(p) == ~Ended(p) /\ Plan(job[p])[stage[p]].do = "read"
Writing(p) == ~Ended(p) /\ Plan(job[p])[stage[p]].do = "write"

\* The key pair of a keygen is new; what others use, they have read.
PrivateKey(p) == IF job[p].role = "keygen" THEN Private(p) ELSE got[p]["private"]

IssuedToken(p) ==
    NewToken(p, job[p], got[p][IF job[p].scheme = "ed25519" THEN "private" ELSE "secret"])

\* Tokens that were sealed so far.
HasIssued(p) == job[p].role = "issue" /\ stage[p] > 1
Sealed == Foreign \cup {IssuedToken(p) : p \in {q \in Process : HasIssued(q)}}

Output(p) ==
    IF File(p) = "private" THEN PrivateKey(p)
    ELSE IF File(p) = "public" THEN PublicOf(PrivateKey(p))
    ELSE Encode(job[p].scheme, IssuedToken(p))

TypeOK ==
    /\ \A p \in Process : IsJob(job[p])
    /\ DOMAIN content = Path /\ \A f \in Path : IsCells(content[f])
    /\ stage \in [Process -> 1..4] /\ open \in [Process -> BOOLEAN]
    /\ size \in [Process -> Nat] /\ at \in [Process -> Nat]
    /\ DOMAIN got = Process /\ DOMAIN outcome = Process
    /\ \A p \in Process :
        /\ DOMAIN got[p] = Path /\ \A f \in Path : IsCells(got[p][f])
        /\ ~Ended(p) => stage[p] \in DOMAIN Plan(job[p])
        /\ Reading(p) => Len(got[p][File(p)]) <= size[p]
        /\ Writing(p) => at[p] <= Len(Output(p))

Init ==
    /\ \E s \in Scene : job = s.job /\ content = s.content
    /\ stage = [p \in Process |-> 1]
    /\ open = [p \in Process |-> FALSE]
    /\ size = [p \in Process |-> 0] /\ at = [p \in Process |-> 0]
    /\ got = [p \in Process |-> [f \in Path |-> <<>>]]
    /\ outcome = [p \in Process |-> "none"]

-----------------------------------------------------------------------------

Close(p) ==
    /\ open' = [open EXCEPT ![p] = FALSE]
    /\ size' = [size EXCEPT ![p] = 0] /\ at' = [at EXCEPT ![p] = 0]

Finish(p, code) ==
    /\ outcome' = [outcome EXCEPT ![p] = code]
    /\ Close(p) /\ UNCHANGED stage

\* The file is done with: on to the next one, or the end of the command.
Advance(p) ==
    /\ stage' = [stage EXCEPT ![p] = @ + 1]
    /\ outcome' = [outcome EXCEPT ![p] = IF stage[p] = Len(Plan(job[p])) THEN "ok" ELSE @]
    /\ Close(p)

\* fopen, fseek, ftell
OpenToRead(p) ==
    /\ Reading(p) /\ ~open[p]
    /\ open' = [open EXCEPT ![p] = TRUE]
    /\ size' = [size EXCEPT ![p] = Len(content[File(p)])]
    /\ UNCHANGED <<job, content, stage, at, got, outcome>>

\* fread, in the pieces the system delivers
ReadCell(p) ==
    /\ Reading(p) /\ open[p]
    /\ LET read == got[p][File(p)] IN
        /\ Len(read) < size[p] /\ Len(read) < Len(content[File(p)])
        /\ got' = [got EXCEPT ![p][File(p)] = Append(@, content[File(p)][Len(read) + 1])]
    /\ UNCHANGED <<job, content, stage, open, size, at, outcome>>

ReadShort(p) ==
    /\ Reading(p) /\ open[p]
    /\ LET read == got[p][File(p)] IN
        Len(read) < size[p] /\ Len(read) >= Len(content[File(p)])
    /\ Finish(p, "io")
    /\ UNCHANGED <<job, content, got>>

\* resolve_signed_approval_public_key with a trust store, and verification.
VerifyWithKey(p, token, key) ==
    Verify(job[p].scheme, token, job[p].program, job[p].now, key)

TokenRefusal(p) ==
    LET decoded == Decode(job[p].scheme, got[p]["token"]) IN
    IF decoded.code # "ok" THEN decoded.code
    ELSE IF job[p].keyFrom # "store" THEN "ok"
    ELSE IF decoded.token.issuer \notin job[p].trusted THEN "QN-E5104"
    ELSE VerifyWithKey(p, decoded.token, decoded.token.issuer)

KeyRefusal(p) ==
    LET key == got[p][File(p)] IN
    IF File(p) = "secret" /\ Len(key) \notin SecretSizes THEN "QN-E-APPROVAL-007"
    ELSE IF File(p) # "secret" /\ Len(key) # KeySize THEN "QN-E5004"
    ELSE IF job[p].role = "issue" THEN IssueRefusal(job[p])
    ELSE IF job[p].role = "verify"
    THEN VerifyWithKey(p, Decode(job[p].scheme, got[p]["token"]).token, key)
    ELSE "ok"

\* What the command makes of a file, once it has read it.
Loaded(p) ==
    /\ Reading(p) /\ open[p] /\ Len(got[p][File(p)]) = size[p]
    /\ LET refusal == IF File(p) = "token" THEN TokenRefusal(p) ELSE KeyRefusal(p)
       IN  IF refusal = "ok" THEN Advance(p) ELSE Finish(p, refusal)
    /\ UNCHANGED <<job, content, got>>

\* fopen: the file is cut to nothing.
OpenToWrite(p) ==
    /\ Writing(p) /\ ~open[p]
    /\ open' = [open EXCEPT ![p] = TRUE]
    /\ content' = [content EXCEPT ![File(p)] = <<>>]
    /\ UNCHANGED <<job, stage, size, at, got, outcome>>

\* Writing at a place of the file, which another writer may have cut shorter.
Put(cells, i, cell) ==
    [k \in 1..(IF Len(cells) > i THEN Len(cells) ELSE i) |->
        IF k = i THEN cell ELSE IF k <= Len(cells) THEN cells[k] ELSE Hole]

\* fwrite, in the pieces the system takes
WriteCell(p) ==
    /\ Writing(p) /\ open[p] /\ at[p] < Len(Output(p))
    /\ content' = [content EXCEPT ![File(p)] = Put(@, at[p] + 1, Output(p)[at[p] + 1])]
    /\ at' = [at EXCEPT ![p] = @ + 1]
    /\ UNCHANGED <<job, stage, open, size, got, outcome>>

\* fclose; after a private key, chmod.
Written(p) ==
    /\ Writing(p) /\ open[p] /\ at[p] = Len(Output(p))
    /\ Advance(p)
    /\ UNCHANGED <<job, content, got>>

\* Mutant of Fail: a write that fails is not noticed.
FailUnnoticed(p) ==
    /\ ~Ended(p)
    /\ IF Writing(p) THEN Advance(p) ELSE Finish(p, "io")
    /\ UNCHANGED <<job, content, got>>

\* A call fails, the command line or the program is not accepted, or the
\* process is killed.
Fail(p) ==
    /\ ~Ended(p)
    /\ Finish(p, "io")
    /\ UNCHANGED <<job, content, got>>

Next ==
    \E p \in Process :
        \/ OpenToRead(p) \/ ReadCell(p) \/ ReadShort(p) \/ Loaded(p)
        \/ OpenToWrite(p) \/ WriteCell(p) \/ Written(p) \/ Fail(p)

Spec == Init /\ [][Next]_vars

-----------------------------------------------------------------------------
(* Properties *)

Verified(p) == job[p].role = "verify" /\ outcome[p] = "ok"
ReadToken(p) == Decode(job[p].scheme, got[p]["token"]).token

\* The key a verifier went by.
UsedKey(p) ==
    IF job[p].scheme = "hmac-sha256" THEN got[p]["secret"]
    ELSE IF job[p].keyFrom = "store" THEN ReadToken(p).issuer ELSE got[p]["public"]

\* An approval rests on a token that was sealed, with just this capability,
\* program, window and nonce, under the key the verifier went by: never on a
\* file of which several commands wrote a part, or one half read.
ApprovedAsIssued ==
    \A p \in Process : Verified(p) =>
        LET t == ReadToken(p) IN
        /\ t \in Sealed /\ t.seal.by = UsedKey(p)
        /\ t.cap \in GatedCaps /\ t.source = job[p].program
        /\ t.issued \in 1..job[p].now /\ job[p].now <= t.expires

\* A signed token is approved from one file only, the one written for it:
\* its digest, by which the replay ledger and the revocation store know it,
\* is the same for whoever presents the token.
OneFilePerApproval ==
    \A p \in Process : Verified(p) /\ job[p].scheme = "ed25519" =>
        got[p]["token"] = Encode("ed25519", ReadToken(p))

\* Issuing promises what verifying keeps: a token that a command issued and
\* that is read whole is accepted under its key, for its program and inside
\* its window, unless a call fails.
IssuedIsHonoured ==
    \A p, q \in Process :
        /\ job[p].role = "verify" /\ HasIssued(q) /\ job[q].scheme = job[p].scheme
        /\ got[p]["token"] = Encode(job[q].scheme, IssuedToken(q))
        /\ UsedKey(p) = IssuedToken(q).seal.by
        /\ job[p].keyFrom = "store" => UsedKey(p) \in job[p].trusted
        /\ job[p].program = job[q].program
        /\ job[p].now \in job[q].issued..job[q].expires
        /\ job[q].scheme = "hmac-sha256" => Len(UsedKey(p)) \in SecretSizes
        => outcome[p] \in {"none", "ok", "io"}

\* A command that says it wrote a key pair, or derived a public key, leaves
\* two files that belong together, if no other command wrote keys.
KeysBelongTogether ==
    \A p \in Process :
        /\ job[p].role \in {"keygen", "derive"} /\ outcome[p] = "ok"
        /\ \A q \in Process \ {p} : job[q].role \notin {"keygen", "derive"}
        => content["public"] = PublicOf(content["private"])
=============================================================================
