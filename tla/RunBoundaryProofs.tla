------------------------- MODULE RunBoundaryProofs -------------------------
(***************************************************************************)
(* Proofs about RunBoundary, for any number of commands and any command    *)
(* lines, tokens, stores and limits.                                       *)
(***************************************************************************)
EXTENDS RunBoundary, TLAPS

\* Where a command can be before the verification of its token ends, and
\* after each of the checks that follow.
Unverified == {"idle", "load", "options", "token", "key", "verify"}
PastRoute == {"consume", "appended", "vm", "report"}
PastPreflight == {"route"} \cup PastRoute
PastRevocation == {"preflight"} \cup PastPreflight

\* The guard allows what the program requests.
Allowed(r) == Evaluate(Prog(r).caps, GuardPolicy(r)) = "allowed"

\* Only a verified token approves, and only its own capability.
ApprovalInv(r) ==
    /\ pc[r] \in Unverified => approved[r] = {}
    /\ approved[r] \subseteq {Tok(r).cap}
    /\ approved[r] # {} => InScope(r) /\ (Signed(r) => key[r] = Tok(r).issuer)

\* What is known of a command by the stage it has reached.
StageInv(r) ==
    /\ pc[r] \in PastRevocation /\ Signed(r) => checked[r]
    /\ pc[r] \in PastPreflight => PreflightOK(r)
    /\ pc[r] \in PastRoute => route[r] # "none"
    /\ route[r] = "vulkan" => Prog(r).kind = "vector"
    /\ pc[r] \in {"consume", "appended"} => Signed(r)
    /\ pc[r] \in {"vm", "report"} /\ Signed(r) => consumed[r]

\* A command that passed the revocation check was once not revoked.
ClearInv(r) ==
    /\ Active(r) /\ NotRevoked(req[r], revoked) => clear[r]
    /\ checked[r] => clear[r] /\ pc[r] \notin Unverified \cup {"revocation"}

\* What is known of a command that entered the VM, whatever became of it.
EntryInv(r) ==
    entered[r] =>
        /\ Allowed(r) /\ pc[r] \notin Unverified
        /\ Signed(r) => consumed[r] /\ checked[r]

RunInv(r) == ApprovalInv(r) /\ StageInv(r) /\ ClearInv(r) /\ EntryInv(r)

\* A token is granted to one command.
SpendInv ==
    /\ \A r \in Run : consumed[r] => grants[Tok(r)] # 0
    /\ \A q, r \in Run : consumed[q] /\ consumed[r] /\ Tok(q) = Tok(r) => q = r

\* The inductive invariant.
IInv ==
    /\ TypeOK
    /\ \A r \in Run : RunInv(r)
    /\ SpendInv /\ SpentOnlyPastPreflight /\ PreflightForesees

-----------------------------------------------------------------------------
(* What depends only on what has been decided about a command *)

\* Command lines and their tokens are well formed.
LEMMA Requests ==
  ASSUME TypeOK, NEW r \in Run
  PROVE  RequestOK(req[r]) /\ Tok(r) \in Token /\ TokenOK(Tok(r))
  BY BoundaryAssumption DEF TypeOK, Run, RequestOK, Tok

\* Nothing is decided anew about q.
Same(q) ==
    /\ pc'[q] = pc[q] /\ now'[q] = now[q] /\ key'[q] = key[q]
    /\ approved'[q] = approved[q] /\ checked'[q] = checked[q]
    /\ route'[q] = route[q] /\ consumed'[q] = consumed[q]
    /\ entered'[q] = entered[q] /\ outcome'[q] = outcome[q] /\ clear'[q] = clear[q]

\* The guard and preflight look at the command line and the approvals.
LEMMA GuardStable ==
  ASSUME NEW r \in Run, req' = req, approved'[r] = approved[r]
  PROVE  Allowed(r)' = Allowed(r) /\ PreflightOK(r)' = PreflightOK(r)
  <1>1. Prog(r)' = Prog(r) /\ GuardPolicy(r)' = GuardPolicy(r)
    BY DEF Prog, GuardPolicy
  <1>2. Shots(r)' = Shots(r) /\ \A f : Given(r, f)' = Given(r, f)
    BY <1>1 DEF Shots, AskedShots, Given
  <1>. QED  BY <1>1, <1>2 DEF Allowed, PreflightOK

\* The verifiers look at the command line, the time and the key.
LEMMA ScopeStable ==
  ASSUME NEW r \in Run, req' = req, now'[r] = now[r]
  PROVE  InScope(r)' = InScope(r)
  BY DEF InScope, Tok, Prog

\* A command about which nothing is decided keeps its invariant.
LEMMA Frame ==
  ASSUME NEW q \in Run, RunInv(q), req' = req, revoked' = revoked, Same(q)
  PROVE  RunInv(q)'
  <1>1. Allowed(q)' = Allowed(q) /\ PreflightOK(q)' = PreflightOK(q)
    BY GuardStable DEF Same
  <1>2. InScope(q)' = InScope(q)
    BY ScopeStable DEF Same
  <1>3. ApprovalInv(q)'
    BY <1>2 DEF RunInv, ApprovalInv, Same, Tok, Signed, Given
  <1>4. StageInv(q)'
    BY <1>1 DEF RunInv, StageInv, Same, Prog, Signed, Given
  <1>5. ClearInv(q)'
    BY DEF RunInv, ClearInv, Same, Active, NotRevoked
  <1>6. EntryInv(q)'
    BY <1>1 DEF RunInv, EntryInv, Same, Signed, Given
  <1>. QED  BY <1>3, <1>4, <1>5, <1>6 DEF RunInv

\* A step of a command that leaves the ledger alone and takes back nothing
\* it decided: what remains to show is what it says about the command itself.
Keeps(r) ==
    checked[r] =>
        /\ checked'[r] /\ approved'[r] = approved[r]
        /\ route[r] # "none" => route'[r] # "none"

LEMMA Witnessed ==
  ASSUME IInv, NEW r \in Run, req' = req, Keeps(r),
         \A q \in Run : q # r => Same(q),
         NEW t \in recorded
  PROVE  \E q \in Run' : (/\ Tok(q) = t /\ Signed(q) /\ checked[q] /\ route[q] # "none"
                          /\ PreflightOK(q))'
  <1>1. PICK q \in Run : /\ Tok(q) = t /\ Signed(q) /\ checked[q] /\ route[q] # "none"
                         /\ PreflightOK(q)
    BY DEF IInv, SpentOnlyPastPreflight
  <1>2. checked'[q] /\ approved'[q] = approved[q] /\ route'[q] # "none"
    BY <1>1 DEF Keeps, Same
  <1>3. PreflightOK(q)' = PreflightOK(q)
    BY <1>2, GuardStable
  <1>4. q \in Run' /\ Tok(q)' = Tok(q) /\ Signed(q)' = Signed(q)
    BY DEF Run, Tok, Signed, Given
  <1>. QED  BY <1>1, <1>2, <1>3, <1>4

LEMMA Quiet ==
  ASSUME IInv, NEW r \in Run, req' = req, revoked' = revoked,
         ledger' = ledger, consumed' = consumed,
         TypeOK', \A q \in Run : q # r => Same(q), RunInv(r)', Keeps(r),
         outcome'[r] # "vm-check"
  PROVE  IInv'
  <1>1. Run' = Run
    BY DEF Run
  <1>2. \A q \in Run : RunInv(q)'
    BY Frame DEF IInv
  <1>3. SpendInv'
    BY <1>1 DEF IInv, SpendInv, ledger, Tok
  <1>4. SpentOnlyPastPreflight'
    BY <1>1, Witnessed DEF SpentOnlyPastPreflight, ledger
  <1>5. PreflightForesees'
    BY <1>1 DEF IInv, PreflightForesees, Same
  <1>. QED  BY <1>1, <1>2, <1>3, <1>4, <1>5 DEF IInv

-----------------------------------------------------------------------------
(* The steps of a command that leave the ledger alone *)

\* A step that only goes on or ends the command, where the stage it goes to
\* promises nothing the command has not established.
LEMMA MoveStep ==
  ASSUME IInv, NEW r \in Run, NEW l \in PC, NEW why \in Outcome,
         UNCHANGED <<Env, req, ledger, decisions>>,
         pc' = [pc EXCEPT ![r] = l],
         outcome' = outcome \/ outcome' = [outcome EXCEPT ![r] = why],
         why # "vm-check",
         pc[r] \notin {"idle", "done", "dead"},
         l \in Unverified \cup {"revocation"} => pc[r] \in Unverified,
         l \in PastRevocation => pc[r] \in PastRevocation,
         l \in PastPreflight => PreflightOK(r),
         l \notin PastRoute
  PROVE  IInv'
  <1>. USE DEF Env, decisions
  <1>1. TypeOK'
    BY DEF IInv, TypeOK, ledger, Run
  <1>2. \A q \in Run : q # r => Same(q)
    BY DEF IInv, TypeOK, Same
  <1>3. Allowed(r)' = Allowed(r) /\ PreflightOK(r)' = PreflightOK(r) /\ InScope(r)' = InScope(r)
    BY GuardStable, ScopeStable
  <1>4. RunInv(r) /\ pc'[r] = l
    BY DEF IInv, TypeOK
  <1>5. ApprovalInv(r)'
    BY <1>3, <1>4 DEF RunInv, ApprovalInv, Tok, Signed, Given, Unverified
  <1>6. StageInv(r)'
    BY <1>3, <1>4 DEF RunInv, StageInv, Prog, Signed, Given, PastRevocation, PastPreflight, PastRoute
  <1>7. ClearInv(r)'
    BY <1>4 DEF RunInv, ClearInv, Active, NotRevoked, Unverified
  <1>8. EntryInv(r)'
    BY <1>3, <1>4 DEF RunInv, EntryInv, Signed, Given, Unverified
  <1>9. Keeps(r) /\ outcome'[r] # "vm-check"
    BY DEF Keeps, IInv, TypeOK, PreflightForesees
  <1>. QED  BY <1>1, <1>2, <1>5, <1>6, <1>7, <1>8, <1>9, Quiet DEF RunInv

\* Loading, reading the token, preflight, a refused route, the report and
\* the death of a command are such steps.
LEMMA LoadStep == ASSUME IInv, NEW r \in Run, Load(r) PROVE IInv'
  BY MoveStep DEF Load, GoTo, Fail, PC, Outcome, Unverified, PastRevocation, PastPreflight, PastRoute

LEMMA ReadTokenStep == ASSUME IInv, NEW r \in Run, ReadToken(r) PROVE IInv'
  BY MoveStep DEF ReadToken, GoTo, Fail, PC, Outcome, Unverified, PastRevocation, PastPreflight, PastRoute

LEMMA PreflightStep == ASSUME IInv, NEW r \in Run, Preflight(r) PROVE IInv'
  BY MoveStep DEF Preflight, GoTo, Fail, PC, Outcome, Unverified, PastRevocation, PastPreflight, PastRoute

LEMMA RouteRefusedStep == ASSUME IInv, NEW r \in Run, RouteRefused(r) PROVE IInv'
  BY MoveStep DEF RouteRefused, Fail, PC, Outcome, Unverified, PastRevocation, PastPreflight, PastRoute

LEMMA ReportStep == ASSUME IInv, NEW r \in Run, Report(r) PROVE IInv'
  BY MoveStep DEF Report, Fail, PC, Outcome, Unverified, PastRevocation, PastPreflight, PastRoute

LEMMA CrashStep == ASSUME IInv, NEW r \in Run, Crash(r) PROVE IInv'
  BY MoveStep
  DEF Crash, GoTo, Active, PC, Outcome, Unverified, PastRevocation, PastPreflight, PastRoute

\* Starting: nothing is decided yet, and clear says what the store says.
LEMMA StartStep == ASSUME IInv, NEW r \in Run, Start(r) PROVE IInv'
  <1>. USE DEF Start, GoTo, decisions
  <1>1. TypeOK'
    BY DEF IInv, TypeOK, PC, ledger, Run, NotRevoked
  <1>2. \A q \in Run : q # r => Same(q)
    BY DEF IInv, TypeOK, Same
  <1>3. RunInv(r) /\ pc'[r] = "load" /\ clear'[r] = NotRevoked(req[r], revoked)
    BY DEF IInv, TypeOK
  <1>4. ApprovalInv(r)' /\ StageInv(r)' /\ EntryInv(r)' /\ ~checked[r]
    BY <1>3
    DEF RunInv, ApprovalInv, StageInv, ClearInv, EntryInv, Tok, Prog, Signed, Given, Unverified,
        PastRevocation, PastPreflight, PastRoute
  <1>5. ClearInv(r)'
    BY <1>3, <1>4 DEF ClearInv, NotRevoked
  <1>6. Keeps(r) /\ outcome'[r] # "vm-check"
    BY <1>4 DEF Keeps, IInv, PreflightForesees
  <1>. QED  BY <1>1, <1>2, <1>4, <1>5, <1>6, Quiet DEF RunInv

\* Reading the options fixes the time before anything depends on it.
LEMMA ApplyOptionsStep == ASSUME IInv, NEW r \in Run, ApplyOptions(r) PROVE IInv'
  <1>. USE DEF ApplyOptions, GoTo, Fail, Env
  <1>1. TypeOK'
    <2>1. IF PairingOK(r)
          THEN /\ \E l \in PC : pc' = [pc EXCEPT ![r] = l]
               /\ outcome' = outcome
               /\ \E n \in Nat : now' = [now EXCEPT ![r] = n]
          ELSE /\ pc' = [pc EXCEPT ![r] = "done"]
               /\ outcome' = [outcome EXCEPT ![r] = "options"]
               /\ now' = now
      BY Requests, BoundaryAssumption DEF IInv, TypeOK, PC, RequestOK
    <2>2. Run' = Run /\ PC # {} /\ "done" \in PC /\ "options" \in Outcome
      BY DEF Run, PC, Outcome
    <2>. QED  BY <2>1, <2>2 DEF IInv, TypeOK, ledger
  <1>2. \A q \in Run : q # r => Same(q)
    BY DEF IInv, TypeOK, Same
  <1>3. RunInv(r) /\ pc'[r] \in {"token", "revocation", "done"} /\ approved[r] = {} /\ ~checked[r]
    BY DEF IInv, TypeOK, RunInv, ApprovalInv, ClearInv, Unverified
  <1>4. ApprovalInv(r)' /\ StageInv(r)' /\ ClearInv(r)' /\ EntryInv(r)'
    BY <1>3
    DEF RunInv, ApprovalInv, StageInv, ClearInv, EntryInv, Active, NotRevoked, Tok, Prog, Signed,
        Given, Unverified, PastRevocation, PastPreflight, PastRoute
  <1>5. Keeps(r) /\ outcome'[r] # "vm-check"
    BY <1>3 DEF Keeps, IInv, TypeOK, PreflightForesees
  <1>. QED  BY <1>1, <1>2, <1>4, <1>5, Quiet DEF RunInv

\* So does the resolution of the key.
LEMMA ResolveKeyStep == ASSUME IInv, NEW r \in Run, ResolveKey(r) PROVE IInv'
  <1>. USE DEF ResolveKey, GoTo, Fail, Env
  <1>1. TypeOK'
    <2>1. /\ \E l \in {"verify", "done"} : pc' = [pc EXCEPT ![r] = l]
          /\ outcome' = outcome \/ \E why \in Outcome : outcome' = [outcome EXCEPT ![r] = why]
          /\ key' = key \/ key' = [key EXCEPT ![r] = Tok(r).issuer]
      BY DEF Outcome
    <2>2. Tok(r).issuer \in Issuer /\ Run' = Run
      BY Requests DEF IInv, TokenOK, Run
    <2>. QED  BY <2>1, <2>2 DEF IInv, TypeOK, PC, ledger
  <1>2. \A q \in Run : q # r => Same(q)
    BY DEF IInv, TypeOK, Same
  <1>3. RunInv(r) /\ pc'[r] \in {"verify", "done"} /\ approved[r] = {} /\ ~checked[r]
    BY DEF IInv, TypeOK, RunInv, ApprovalInv, ClearInv, Unverified
  <1>4. ApprovalInv(r)' /\ StageInv(r)' /\ ClearInv(r)' /\ EntryInv(r)'
    BY <1>3
    DEF RunInv, ApprovalInv, StageInv, ClearInv, EntryInv, Active, NotRevoked, Tok, Prog, Signed,
        Given, Unverified, PastRevocation, PastPreflight, PastRoute
  <1>5. Keeps(r) /\ outcome'[r] # "vm-check"
    BY <1>3 DEF Keeps, IInv, TypeOK, PreflightForesees
  <1>. QED  BY <1>1, <1>2, <1>4, <1>5, Quiet DEF RunInv

\* A token that verifies is in scope, and approves its capability.
LEMMA VerifyStep == ASSUME IInv, NEW r \in Run, Verify(r) PROVE IInv'
  <1>. USE DEF Verify, GoTo, Fail, Env
  <1>1. TypeOK'
    BY DEF IInv, TypeOK, PC, Outcome, ledger, Run, InScope, SignedAccepts, Eligible
  <1>2. \A q \in Run : q # r => Same(q)
    BY DEF IInv, TypeOK, Same
  <1>3. RunInv(r) /\ pc'[r] \in {"revocation", "done"} /\ approved[r] = {} /\ ~checked[r]
    BY DEF IInv, TypeOK, RunInv, ApprovalInv, ClearInv, Unverified
  <1>4. ApprovalInv(r)'
    <2>1. \/ approved'[r] = {}
          \/ /\ approved'[r] = {Tok(r).cap} /\ InScope(r)
             /\ Signed(r) => key[r] = Tok(r).issuer
      BY <1>3 DEF IInv, TypeOK, SignedAccepts
    <2>2. InScope(r)' = InScope(r)
      BY ScopeStable
    <2>. QED  BY <1>3, <2>1, <2>2 DEF ApprovalInv, Tok, Signed, Given, Unverified
  <1>5. StageInv(r)' /\ ClearInv(r)' /\ EntryInv(r)'
    BY <1>3
    DEF RunInv, StageInv, ClearInv, EntryInv, Active, NotRevoked, Prog, Signed,
        Given, Unverified, PastRevocation, PastPreflight, PastRoute
  <1>6. Keeps(r) /\ outcome'[r] # "vm-check"
    BY <1>3 DEF Keeps, IInv, TypeOK, PreflightForesees
  <1>. QED  BY <1>1, <1>2, <1>4, <1>5, <1>6, Quiet DEF RunInv

\* Passing the revocation check means not being revoked now.
LEMMA CheckRevocationStep == ASSUME IInv, NEW r \in Run, CheckRevocation(r) PROVE IInv'
  <1>. USE DEF CheckRevocation, GoTo, Fail, Env
  <1>1. TypeOK'
    BY DEF IInv, TypeOK, PC, Outcome, ledger, Run
  <1>2. \A q \in Run : q # r => Same(q)
    BY DEF IInv, TypeOK, Same
  <1>3. Allowed(r)' = Allowed(r) /\ PreflightOK(r)' = PreflightOK(r) /\ InScope(r)' = InScope(r)
    BY GuardStable, ScopeStable
  <1>4. RunInv(r) /\ ~checked[r]
    BY DEF IInv, RunInv, ClearInv
  <1>5. /\ pc'[r] \in {"preflight", "done"}
        /\ pc'[r] = "preflight" /\ Signed(r) => checked'[r]
        /\ checked'[r] => pc'[r] = "preflight" /\ NotRevoked(req[r], revoked)
    BY <1>4 DEF IInv, TypeOK
  <1>6. ApprovalInv(r)' /\ StageInv(r)' /\ EntryInv(r)'
    BY <1>3, <1>4, <1>5
    DEF RunInv, ApprovalInv, StageInv, EntryInv, Tok, Prog, Signed, Given, Unverified,
        PastRevocation, PastPreflight, PastRoute
  <1>7. ClearInv(r)'
    BY <1>4, <1>5 DEF RunInv, ClearInv, Active, NotRevoked, Unverified
  <1>8. Keeps(r) /\ outcome'[r] # "vm-check"
    BY <1>4 DEF Keeps, IInv, TypeOK, PreflightForesees
  <1>. QED  BY <1>1, <1>2, <1>6, <1>7, <1>8, Quiet DEF RunInv

\* Routing picks a back end, and Vulkan only for a vector program.
LEMMA RouteStep == ASSUME IInv, NEW r \in Run, Route(r) PROVE IInv'
  <1>. USE DEF Route, GoTo, Env
  <1>1. TypeOK'
    BY DEF IInv, TypeOK, PC, ledger, Run
  <1>2. \A q \in Run : q # r => Same(q)
    BY DEF IInv, TypeOK, Same
  <1>3. Allowed(r)' = Allowed(r) /\ PreflightOK(r)' = PreflightOK(r) /\ InScope(r)' = InScope(r)
    BY GuardStable, ScopeStable
  <1>4. /\ RunInv(r) /\ pc[r] = "route" /\ route'[r] \in {"cpu", "vulkan"}
        /\ route'[r] = "vulkan" => Prog(r).kind = "vector"
        /\ pc'[r] = IF Signed(r) THEN "consume" ELSE "vm"
    BY DEF IInv, TypeOK
  <1>5. ApprovalInv(r)' /\ EntryInv(r)'
    BY <1>3, <1>4 DEF RunInv, ApprovalInv, EntryInv, Tok, Signed, Given, Unverified
  <1>6. StageInv(r)'
    BY <1>3, <1>4
    DEF RunInv, StageInv, Prog, Signed, Given, PastRevocation, PastPreflight, PastRoute
  <1>7. ClearInv(r)'
    BY <1>4 DEF RunInv, ClearInv, Active, NotRevoked, Unverified
  <1>8. Keeps(r) /\ outcome'[r] # "vm-check"
    BY <1>4 DEF Keeps, IInv, PreflightForesees
  <1>. QED  BY <1>1, <1>2, <1>5, <1>6, <1>7, <1>8, Quiet DEF RunInv

\* What preflight and routing let through, the VM accepts at its door.
LEMMA ForeseenByPreflight ==
  ASSUME IInv, NEW r \in Run, pc[r] = "vm"
  PROVE  VmAccepts(r) /\ Allowed(r)
  <1>1. /\ PreflightOK(r) /\ route[r] \in {"cpu", "vulkan"}
        /\ route[r] = "vulkan" => Prog(r).kind = "vector"
    BY DEF IInv, TypeOK, RunInv, StageInv, PastPreflight, PastRoute
  <1>2. Prog(r).kind # "quantum" => AskedShots(r) = 0 /\ ~Given(r, "seed")
    BY <1>1 DEF PreflightOK, AskedShots
  <1>. QED  BY <1>1, <1>2 DEF PreflightOK, VmAccepts, Allowed

\* So a command that enters the VM is allowed to, and has paid.
LEMMA RunVmStep == ASSUME IInv, NEW r \in Run, RunVm(r) PROVE IInv'
  <1>. USE DEF RunVm, GoTo, Fail, Env
  <1>1. VmAccepts(r) /\ Allowed(r)
    BY ForeseenByPreflight
  <1>2. TypeOK'
    BY <1>1 DEF IInv, TypeOK, PC, Outcome, ledger, Run
  <1>3. \A q \in Run : q # r => Same(q)
    BY <1>1 DEF IInv, TypeOK, Same
  <1>4. Allowed(r)' = Allowed(r) /\ PreflightOK(r)' = PreflightOK(r) /\ InScope(r)' = InScope(r)
    BY GuardStable, ScopeStable
  <1>5. RunInv(r) /\ pc[r] = "vm" /\ pc'[r] \in {"report", "done"}
    BY <1>1 DEF IInv, TypeOK
  <1>6. ApprovalInv(r)'
    BY <1>4, <1>5 DEF RunInv, ApprovalInv, Tok, Signed, Given, Unverified
  <1>7. StageInv(r)'
    BY <1>4, <1>5 DEF RunInv, StageInv, Prog, Signed, Given, PastRevocation, PastPreflight, PastRoute
  <1>8. ClearInv(r)'
    BY <1>5 DEF RunInv, ClearInv, Active, NotRevoked, Unverified
  <1>9. EntryInv(r)'
    BY <1>1, <1>4, <1>5
    DEF RunInv, StageInv, EntryInv, Signed, Given, Unverified, PastRevocation, PastPreflight, PastRoute
  <1>10. Keeps(r) /\ outcome'[r] # "vm-check"
    BY <1>1 DEF Keeps, IInv, TypeOK, PreflightForesees
  <1>. QED  BY <1>2, <1>3, <1>6, <1>7, <1>8, <1>9, <1>10, Quiet DEF RunInv

-----------------------------------------------------------------------------
(* The steps that change the ledger *)

\* The record that is written has a command that passed every check.
LEMMA AppendStep ==
  ASSUME IInv, NEW r \in Run, pc[r] = "consume", Ledger!Record(Tok(r)), GoTo(r, "appended"),
         UNCHANGED <<Env, req, decisions>>
  PROVE  IInv'
  <1>. USE DEF GoTo, Env, decisions, Ledger!Record
  <1>1. Run' = Run /\ Tok(r) \in Token
    BY Requests DEF IInv, Run
  <1>2. TypeOK'
    BY <1>1 DEF IInv, TypeOK, PC
  <1>3. \A q \in Run : q # r => Same(q)
    BY DEF IInv, TypeOK, Same
  <1>4. Allowed(r)' = Allowed(r) /\ PreflightOK(r)' = PreflightOK(r) /\ InScope(r)' = InScope(r)
    BY GuardStable, ScopeStable
  <1>5. RunInv(r) /\ pc'[r] = "appended"
    BY DEF IInv, TypeOK
  <1>6. RunInv(r)'
    BY <1>4, <1>5
    DEF RunInv, ApprovalInv, StageInv, ClearInv, EntryInv, Active, NotRevoked, Tok, Prog, Signed,
        Given, Unverified, PastRevocation, PastPreflight, PastRoute
  <1>7. \A q \in Run : RunInv(q)'
    BY <1>3, <1>6, Frame DEF IInv
  <1>8. SpendInv'
    BY <1>1 DEF IInv, SpendInv, Tok
  <1>9. SpentOnlyPastPreflight'
    <2>1. Keeps(r)
      BY DEF Keeps
    <2>2. /\ Tok(r)' = Tok(r) /\ Signed(r)' /\ checked'[r] /\ route'[r] # "none"
          /\ PreflightOK(r)'
      BY <1>4, <1>5
      DEF RunInv, StageInv, Tok, Signed, Given, PastRevocation, PastPreflight, PastRoute
    <2>. QED  BY <1>1, <1>3, <2>1, <2>2, Witnessed DEF SpentOnlyPastPreflight
  <1>10. PreflightForesees'
    BY <1>1 DEF IInv, PreflightForesees
  <1>. QED  BY <1>1, <1>2, <1>7, <1>8, <1>9, <1>10 DEF IInv

LEMMA ConsumeStep == ASSUME IInv, NEW r \in Run, Consume(r) PROVE IInv'
  <1>1. CASE UNCHANGED ledger
    BY <1>1, MoveStep
    DEF Consume, GoTo, Fail, Ledger!Record, ledger, PC, Outcome, Unverified, PastRevocation,
        PastPreflight, PastRoute
  <1>2. CASE Ledger!Record(Tok(r)) /\ GoTo(r, "appended")
    BY <1>2, AppendStep DEF Consume
  <1>. QED  BY <1>1, <1>2 DEF Consume

\* The ledger grants a token nobody was granted, so no other command has it.
LEMMA GrantStep ==
  ASSUME IInv, NEW r \in Run, pc[r] = "appended", Ledger!Grant(Tok(r)), GoTo(r, "vm"),
         consumed' = [consumed EXCEPT ![r] = TRUE],
         UNCHANGED <<Env, req, now, key, approved, scheme, checked, route, entered>>
  PROVE  IInv'
  <1>. USE DEF GoTo, Env, Ledger!Grant
  <1>1. Run' = Run /\ Tok(r) \in Token /\ \A q \in Run : Tok(q)' = Tok(q)
    BY Requests DEF IInv, Run, Tok
  <1>2. TypeOK'
    BY <1>1 DEF IInv, TypeOK, PC
  <1>3. \A q \in Run : q # r => Same(q)
    BY DEF IInv, TypeOK, Same
  <1>4. Allowed(r)' = Allowed(r) /\ PreflightOK(r)' = PreflightOK(r) /\ InScope(r)' = InScope(r)
    BY GuardStable, ScopeStable
  <1>5. RunInv(r) /\ pc'[r] = "vm" /\ consumed'[r]
    BY DEF IInv, TypeOK
  <1>6. RunInv(r)'
    BY <1>4, <1>5
    DEF RunInv, ApprovalInv, StageInv, ClearInv, EntryInv, Active, NotRevoked, Tok, Prog, Signed,
        Given, Unverified, PastRevocation, PastPreflight, PastRoute
  <1>7. \A q \in Run : RunInv(q)'
    BY <1>3, <1>6, Frame DEF IInv
  <1>8. SpendInv'
    <2>1. \A q \in Run : consumed[q] => Tok(q) # Tok(r)
      BY DEF IInv, SpendInv
    <2>2. \A q \in Run : consumed'[q] => q = r \/ consumed[q]
      BY DEF IInv, TypeOK
    <2>3. \A q \in Run : consumed'[q] => grants'[Tok(q)] # 0
      BY <1>1, <2>2, Requests DEF IInv, TypeOK, SpendInv
    <2>4. \A p, q \in Run : consumed'[p] /\ consumed'[q] /\ Tok(p) = Tok(q) => p = q
      BY <2>1, <2>2 DEF IInv, SpendInv
    <2>. QED  BY <1>1, <2>3, <2>4 DEF SpendInv
  <1>9. SpentOnlyPastPreflight'
    <2>1. Keeps(r)
      BY DEF Keeps
    <2>. QED  BY <1>3, <2>1, Witnessed DEF SpentOnlyPastPreflight
  <1>10. PreflightForesees'
    BY <1>1 DEF IInv, PreflightForesees
  <1>. QED  BY <1>1, <1>2, <1>7, <1>8, <1>9, <1>10 DEF IInv

LEMMA GrantedStep == ASSUME IInv, NEW r \in Run, Granted(r) PROVE IInv'
  <1>1. CASE UNCHANGED <<ledger, consumed>> /\ Fail(r, "ledger")
    BY <1>1, MoveStep
    DEF Granted, Fail, decisions, PC, Outcome, Unverified, PastRevocation, PastPreflight, PastRoute
  <1>2. CASE /\ Ledger!Grant(Tok(r)) /\ GoTo(r, "vm")
             /\ consumed' = [consumed EXCEPT ![r] = TRUE]
    BY <1>2, GrantStep DEF Granted
  <1>. QED  BY <1>1, <1>2 DEF Granted

-----------------------------------------------------------------------------
(* The environment *)

\* Neither time nor the trust store is part of what was decided.
LEMMA TickStep == ASSUME IInv, Tick \/ EditTrust PROVE IInv'
  <1>. USE DEF Tick, EditTrust, stores, decisions, ledger
  <1>1. Run' = Run /\ \A q \in Run : Same(q)
    BY DEF Run, Same
  <1>2. TypeOK'
    BY BoundaryAssumption DEF IInv, TypeOK, Run
  <1>3. \A q \in Run : RunInv(q)'
    BY <1>1, Frame DEF IInv
  <1>4. SpendInv' /\ PreflightForesees'
    BY <1>1 DEF IInv, SpendInv, PreflightForesees, Tok
  <1>5. SpentOnlyPastPreflight'
    <2>. SUFFICES ASSUME NEW t \in recorded
                  PROVE  \E q \in Run' : (/\ Tok(q) = t /\ Signed(q) /\ checked[q]
                                          /\ route[q] # "none" /\ PreflightOK(q))'
      BY DEF SpentOnlyPastPreflight
    <2>1. PICK r \in Run : Tok(r) = t
      BY DEF IInv, SpentOnlyPastPreflight
    <2>2. Keeps(r)
      BY DEF Keeps
    <2>. QED  BY <1>1, <2>2, Witnessed
  <1>. QED  BY <1>1, <1>2, <1>3, <1>4, <1>5 DEF IInv

\* A change of the revocation store can only make it true that a command was
\* once not revoked.
LEMMA EditRevocationsStep == ASSUME IInv, EditRevocations PROVE IInv'
  <1>. USE DEF EditRevocations, decisions, ledger
  <1>1. Run' = Run
    BY DEF Run
  <1>2. TypeOK'
    <2>1. clear' \in [Run -> BOOLEAN]
      BY DEF IInv, TypeOK, Active, NotRevoked
    <2>. QED  BY <1>1, <2>1 DEF IInv, TypeOK
  <1>3. ASSUME NEW q \in Run PROVE RunInv(q)'
    <2>1. Allowed(q)' = Allowed(q) /\ PreflightOK(q)' = PreflightOK(q) /\ InScope(q)' = InScope(q)
      BY GuardStable, ScopeStable
    <2>2. ApprovalInv(q)' /\ StageInv(q)' /\ EntryInv(q)'
      BY <2>1 DEF IInv, RunInv, ApprovalInv, StageInv, EntryInv, Tok, Prog, Signed, Given
    <2>3. clear'[q] = (clear[q] \/ (Active(q) /\ NotRevoked(req[q], revoked')))
      OBVIOUS
    <2>4. ClearInv(q)'
      BY <2>3 DEF IInv, RunInv, ClearInv, Active, NotRevoked
    <2>. QED  BY <2>2, <2>4 DEF RunInv
  <1>4. SpendInv' /\ PreflightForesees'
    BY <1>1 DEF IInv, SpendInv, PreflightForesees, Tok
  <1>5. \A q \in Run : PreflightOK(q)' = PreflightOK(q)
    BY GuardStable
  <1>6. SpentOnlyPastPreflight'
    BY <1>1, <1>5 DEF IInv, SpentOnlyPastPreflight, Tok, Signed, Given
  <1>. QED  BY <1>1, <1>2, <1>3, <1>4, <1>6 DEF IInv

\* A power failure ends commands and forgets tokens that were not granted.
LEMMA PowerLossStep == ASSUME IInv, PowerLoss PROVE IInv'
  <1>. USE DEF PowerLoss, Env, decisions, Ledger!Forget
  <1>1. Run' = Run
    BY DEF Run
  <1>2. TypeOK'
    BY <1>1 DEF IInv, TypeOK, PC
  <1>3. ASSUME NEW q \in Run PROVE RunInv(q)'
    <2>1. Allowed(q)' = Allowed(q) /\ PreflightOK(q)' = PreflightOK(q) /\ InScope(q)' = InScope(q)
      BY GuardStable, ScopeStable
    <2>2. pc'[q] = IF Active(q) THEN "dead" ELSE pc[q]
      OBVIOUS
    <2>. QED  BY <2>1, <2>2
         DEF IInv, RunInv, ApprovalInv, StageInv, ClearInv, EntryInv, Active, NotRevoked, Tok, Prog,
             Signed, Given, Unverified, PastRevocation, PastPreflight, PastRoute
  <1>4. SpendInv' /\ PreflightForesees'
    BY <1>1 DEF IInv, SpendInv, PreflightForesees, Tok
  <1>5. \A q \in Run : PreflightOK(q)' = PreflightOK(q)
    BY GuardStable
  <1>6. SpentOnlyPastPreflight'
    BY <1>1, <1>5 DEF IInv, SpentOnlyPastPreflight, Tok, Signed, Given
  <1>. QED  BY <1>1, <1>2, <1>3, <1>4, <1>6 DEF IInv

\* A step that changes nothing.
LEMMA StutterStep == ASSUME IInv, UNCHANGED vars PROVE IInv'
  <1>. USE DEF vars
  <1>1. Run' = Run /\ \A q \in Run : Same(q)
    BY DEF Run, Same
  <1>2. \A q \in Run : RunInv(q)' /\ PreflightOK(q)' = PreflightOK(q)
    BY <1>1, Frame, GuardStable DEF IInv
  <1>3. TypeOK' /\ SpendInv' /\ PreflightForesees'
    BY <1>1 DEF IInv, TypeOK, SpendInv, PreflightForesees, Tok
  <1>4. SpentOnlyPastPreflight'
    BY <1>1, <1>2 DEF IInv, SpentOnlyPastPreflight, Tok, Signed, Given
  <1>. QED  BY <1>1, <1>2, <1>3, <1>4 DEF IInv

-----------------------------------------------------------------------------

LEMMA InitInv == ASSUME Init PROVE IInv
  <1>1. TypeOK
    <2>1. \A r \in Run : req[r].issuer \in Issuer
      BY BoundaryAssumption DEF Init, Run, RequestOK
    <2>. QED  BY <2>1, BoundaryAssumption DEF Init, Ledger!Init, TypeOK, PC, Outcome
  <1>2. \A r \in Run : RunInv(r)
    BY DEF Init, RunInv, ApprovalInv, StageInv, ClearInv, EntryInv, Active, Unverified,
           PastRevocation, PastPreflight, PastRoute
  <1>3. SpendInv /\ SpentOnlyPastPreflight /\ PreflightForesees
    BY DEF Init, Ledger!Init, SpendInv, SpentOnlyPastPreflight, PreflightForesees
  <1>. QED  BY <1>1, <1>2, <1>3 DEF IInv

LEMMA Inductive == ASSUME IInv, [Next]_vars PROVE IInv'
  <1>1. ASSUME NEW r \in Run, Step(r) PROVE IInv'
    BY <1>1, StartStep, LoadStep, ApplyOptionsStep, ReadTokenStep, ResolveKeyStep, VerifyStep,
       CheckRevocationStep, PreflightStep, RouteStep, RouteRefusedStep, ConsumeStep, GrantedStep,
       RunVmStep, ReportStep
    DEF Step
  <1>. QED  BY <1>1, CrashStep, TickStep, EditRevocationsStep, PowerLossStep, StutterStep DEF Next

LEMMA Invariance == Spec => []IInv
  BY InitInv, Inductive, PTL DEF Spec

\* Every variable of a command, the stores and the ledger keep their types.
THEOREM TypeCorrect == Spec => []TypeOK
  <1>1. IInv => TypeOK
    BY DEF IInv
  <1>. QED  BY <1>1, Invariance, PTL

\* main.c: only a program whose every capability is safe, or approved by a
\* genuine token for it that was valid when read, enters the VM.
THEOREM EntryIsAuthorised == Spec => []VmEntryAuthorised
  <1>1. ASSUME IInv, NEW r \in Run, entered[r]
        PROVE  /\ req[r].policy = "safe" \/ Prog(r).caps = {}
               /\ Prog(r).caps \subseteq SafeCaps \cup GatedCaps
               /\ \A c \in Prog(r).caps \cap GatedCaps :
                     LET t == Tok(r) IN
                     /\ t.cap = c /\ t.genuine /\ t.source = Prog(r)
                     /\ t.issued <= now[r] /\ now[r] <= t.expires
                     /\ Signed(r) => key[r] = t.issuer
    <2>1. Allowed(r) /\ ApprovalInv(r)
      BY <1>1 DEF IInv, RunInv, EntryInv
    <2>2. /\ GuardPolicy(r).allowed = Policy(req[r].policy).allowed
          /\ GuardPolicy(r).gated = Policy(req[r].policy).gated
          /\ GuardPolicy(r).blocked = Policy(req[r].policy).blocked
          /\ GuardPolicy(r).approved = approved[r]
      BY DEF GuardPolicy, Policy
    <2>3. /\ Prog(r).caps \subseteq Known
          /\ Prog(r).caps \cap GuardPolicy(r).blocked = {}
          /\ Prog(r).caps \cap GuardPolicy(r).gated \subseteq approved[r]
      BY <2>1, <2>2 DEF Allowed, Evaluate
    <2>4. /\ req[r].policy # "safe" => GuardPolicy(r).blocked = Known
          /\ req[r].policy = "safe" =>
                GuardPolicy(r).blocked = BlockedCaps /\ GuardPolicy(r).gated = GatedCaps
      BY <2>2 DEF Policy
    <2>5. Prog(r).caps \cap GatedCaps \subseteq approved[r] \/ Prog(r).caps = {}
      BY <2>3, <2>4
    <2>6. ASSUME NEW c \in Prog(r).caps \cap GatedCaps
          PROVE  /\ Tok(r).cap = c /\ InScope(r)
                 /\ Signed(r) => key[r] = Tok(r).issuer
      BY <2>1, <2>5 DEF ApprovalInv
    <2>. QED  BY <2>3, <2>4, <2>6 DEF Known, InScope
  <1>2. IInv => VmEntryAuthorised
    BY <1>1 DEF VmEntryAuthorised
  <1>. QED  BY <1>2, Invariance, PTL

\* main.c and the replay ledger: at most one command enters the VM on a token.
THEOREM OneEntry == Spec => []OneEntryPerToken
  <1>1. IInv => OneEntryPerToken
    BY DEF IInv, RunInv, EntryInv, SpendInv, OneEntryPerToken
  <1>. QED  BY <1>1, Invariance, PTL

\* A command whose token was revoked all along never enters the VM.
THEOREM RevokedStaysOut == Spec => []RevokedNeverEnters
  <1>1. IInv => RevokedNeverEnters
    BY DEF IInv, RunInv, EntryInv, ClearInv, RevokedNeverEnters
  <1>. QED  BY <1>1, Invariance, PTL

\* A refused command spends nothing.
THEOREM RefusalIsFree == Spec => []SpentOnlyPastPreflight
  <1>1. IInv => SpentOnlyPastPreflight
    BY DEF IInv
  <1>. QED  BY <1>1, Invariance, PTL

\* The VM refuses nothing at its door that preflight let through.
THEOREM PreflightSuffices == Spec => []PreflightForesees
  <1>1. IInv => PreflightForesees
    BY DEF IInv
  <1>. QED  BY <1>1, Invariance, PTL
=============================================================================
