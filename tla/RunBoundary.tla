---------------------------- MODULE RunBoundary ----------------------------
(***************************************************************************)
(* The execution boundary of the run and exec commands (src/main.c): what  *)
(* a command checks, in which order, between reading its options and       *)
(* entering the VM, while other commands run, the clock advances and an    *)
(* administrator edits the trust and revocation stores.                    *)
(*                                                                         *)
(* The replay ledger appears as AttemptOnce, which ReplayLedger            *)
(* implements: one step appends the token, a later one reports it.         *)
(* Ed25519, HMAC and SHA-256 are ideal: a token is genuine or not, and     *)
(* distinct token files have distinct digests.                             *)
(***************************************************************************)
EXTENDS Naturals, CapabilityGuard

CONSTANTS
    Token,          \* approval token files, as records (see TokenOK)
    Issuer,         \* Ed25519 issuers
    Session,        \* command lines of the commands started together: functions
                    \* from an invocation of run or exec to a record (see RequestOK)
    Trustable,      \* issuers the trust store may come to hold
    Revocable,      \* tokens and issuers the revocation store may come to name
    MaxClock,       \* bound of the clock
    MaxShots,       \* QN_MAX_SHOTS
    ShotWidth,      \* 2^32: --shots is cut to uint32_t
    TimeLimit       \* INT64_MAX

TokenOK(t) ==
    /\ t.cap \in Capability /\ t.issuer \in Issuer
    /\ t.issued \in Nat /\ t.expires \in Nat
    /\ t.genuine \in BOOLEAN            \* signature or MAC verifies

Flags == {"approval-file", "approval-key-file", "signed-approval-file",
          "approval-public-key-file", "trust-store-file",
          "replay-ledger-file", "revocation-store-file",
          "shots", "seed", "now", "receipt"}

RequestOK(o) ==
    /\ o.given \subseteq Flags          \* the options present
    /\ o.policy \in {"safe", "deny-all"}
    /\ o.token \in Token                \* in the approval file, if given
    /\ o.issuer \in Issuer              \* of the public key file, if given
    /\ o.shots \in Nat /\ o.now \in Nat
    /\ o.backend \in {"cpu", "auto", "vulkan"}
    /\ o.program.caps \subseteq Capability
    /\ o.program.kind \in {"quantum", "scalar", "vector"}
    /\ o.program.shots \in Nat          \* default_shots

ASSUME BoundaryAssumption ==
    /\ \A t \in Token : TokenOK(t)
    /\ \A s \in Session : \A r \in DOMAIN s : RequestOK(s[r])
    /\ Trustable \subseteq Issuer /\ Revocable \subseteq Token \cup Issuer
    /\ MaxClock \in Nat /\ MaxShots \in Nat \ {0} /\ TimeLimit \in Nat
    /\ ShotWidth \in Nat /\ ShotWidth > MaxShots

VARIABLES
    clock, trusted, revoked,    \* the environment: time(2) and the two stores
    recorded, grants,           \* the replay ledger
    pc, req,                    \* where each run is, and its command line
    now, key, approved, scheme, \* what apply_approval_to_policy establishes
    checked,                    \* revocation_checked
    route,                      \* the selected backend
    consumed,                   \* replay_consumed
    entered,                    \* the VM started executing the program
    outcome,                    \* why the run ended
    clear                       \* history: once, since the run began, neither
                                \* its token nor the token's issuer was revoked

Run == DOMAIN req

ledger == <<recorded, grants>>
stores == <<trusted, revoked>>
vars == <<clock, trusted, revoked, recorded, grants, pc, req, now, key,
          approved, scheme, checked, route, consumed, entered, outcome, clear>>

Ledger == INSTANCE AttemptOnce

PC == {"idle", "load", "options", "token", "key", "verify", "revocation",
       "preflight", "route", "consume", "appended", "vm", "report", "done", "dead"}
Outcome == {"none", "ok", "load", "options", "approval", "revoked", "preflight",
            "route", "replayed", "ledger", "vm-check", "runtime", "io"}

TypeOK ==
    /\ clock \in 0..MaxClock
    /\ trusted \subseteq Trustable /\ revoked \subseteq Revocable
    /\ recorded \subseteq Token /\ grants \in [Token -> Nat]
    /\ req \in Session /\ pc \in [Run -> PC]
    /\ now \in [Run -> Nat] /\ key \in [Run -> Issuer]
    /\ approved \in [Run -> SUBSET GatedCaps]
    /\ scheme \in [Run -> {"none", "hmac-sha256", "ed25519"}]
    /\ checked \in [Run -> BOOLEAN] /\ consumed \in [Run -> BOOLEAN]
    /\ route \in [Run -> {"none", "cpu", "vulkan"}]
    /\ entered \in [Run -> BOOLEAN] /\ outcome \in [Run -> Outcome]
    /\ clear \in [Run -> BOOLEAN]

-----------------------------------------------------------------------------
(* What a command line says *)

Given(r, flag) == flag \in req[r].given
Tok(r) == req[r].token
Prog(r) == req[r].program
Signed(r) == Given(r, "signed-approval-file")
Hmac(r) == Given(r, "approval-file")

\* options->shots, after the cast in parse_run_opts; 0 asks for the default.
AskedShots(r) == IF Given(r, "shots") THEN req[r].shots % ShotWidth ELSE 0

Shots(r) == IF AskedShots(r) # 0 THEN AskedShots(r) ELSE Prog(r).shots

\* The pairing rules at the head of apply_approval_to_policy.
PairingOK(r) ==
    LET keySources == {f \in {"approval-public-key-file", "trust-store-file"} : Given(r, f)}
    IN  /\ Hmac(r) <=> Given(r, "approval-key-file")
        /\ IF Signed(r) THEN \E f \in keySources : keySources = {f}
                        ELSE keySources = {}
        /\ Signed(r) <=> Given(r, "replay-ledger-file")
        /\ Signed(r) <=> Given(r, "revocation-store-file")
        /\ ~(Hmac(r) /\ Signed(r))

GuardPolicy(r) == [Policy(req[r].policy) EXCEPT !.approved = approved[r]]

NotRevoked(o, store) == o.token \notin store /\ o.token.issuer \notin store

-----------------------------------------------------------------------------

Init ==
    /\ clock = 0
    /\ trusted \in SUBSET Trustable /\ revoked \in SUBSET Revocable
    /\ Ledger!Init
    /\ req \in Session
    /\ pc = [r \in Run |-> "idle"]
    /\ now = [r \in Run |-> 0]
    /\ key = [r \in Run |-> req[r].issuer]
    /\ approved = [r \in Run |-> {}]
    /\ scheme = [r \in Run |-> "none"]
    /\ checked = [r \in Run |-> FALSE]
    /\ route = [r \in Run |-> "none"]
    /\ consumed = [r \in Run |-> FALSE]
    /\ entered = [r \in Run |-> FALSE]
    /\ outcome = [r \in Run |-> "none"]
    /\ clear = [r \in Run |-> FALSE]
Env == <<clock, trusted, revoked, clear>>
decisions == <<now, key, approved, scheme, checked, route, consumed, entered>>

GoTo(r, l) == pc' = [pc EXCEPT ![r] = l] /\ UNCHANGED outcome

\* The command prints a diagnostic and exits.
Fail(r, why) ==
    /\ pc' = [pc EXCEPT ![r] = "done"]
    /\ outcome' = [outcome EXCEPT ![r] = why]

Start(r) ==
    /\ pc[r] = "idle"
    /\ GoTo(r, "load")
    /\ clear' = [clear EXCEPT ![r] = NotRevoked(req[r], revoked)]
    /\ UNCHANGED <<clock, trusted, revoked, req, ledger, decisions>>

\* compile_source or qn_qbc_decode, which refuse unknown capabilities, then
\* resolve_runtime_inputs.
Load(r) ==
    /\ pc[r] = "load"
    /\ (Prog(r).caps \subseteq Known /\ GoTo(r, "options")) \/ Fail(r, "load")
    /\ UNCHANGED <<Env, req, ledger, decisions>>

\* apply_approval_to_policy up to the first file: the pairing rules, then
\* the time, from --now or the clock.
ApplyOptions(r) ==
    /\ pc[r] = "options"
    /\ IF PairingOK(r)
       THEN /\ GoTo(r, IF Signed(r) \/ Hmac(r) THEN "token" ELSE "revocation")
            /\ now' = [now EXCEPT ![r] = IF Given(r, "now") THEN req[r].now ELSE clock]
       ELSE Fail(r, "options") /\ UNCHANGED now
    /\ UNCHANGED <<Env, req, ledger, key, approved, scheme, checked, route, consumed, entered>>

\* qn_signed_approval_read, or qn_approval_read and qn_approval_load_key.
ReadToken(r) ==
    /\ pc[r] = "token"
    /\ GoTo(r, IF Signed(r) THEN "key" ELSE "verify") \/ Fail(r, "io")
    /\ UNCHANGED <<Env, req, ledger, decisions>>

\* resolve_signed_approval_public_key: the given key, or the one the trust
\* store holds for the token's issuer.
ResolveKey(r) ==
    /\ pc[r] = "key"
    /\ \/ /\ Given(r, "approval-public-key-file")
          /\ GoTo(r, "verify")
          /\ UNCHANGED key
       \/ /\ ~Given(r, "approval-public-key-file")
          /\ Tok(r).issuer \in trusted
          /\ GoTo(r, "verify")
          /\ key' = [key EXCEPT ![r] = Tok(r).issuer]
       \/ /\ ~Given(r, "approval-public-key-file")
          /\ Tok(r).issuer \notin trusted
          /\ Fail(r, "approval")
          /\ UNCHANGED key
       \/ Fail(r, "io") /\ UNCHANGED key
    /\ UNCHANGED <<Env, req, ledger, now, approved, scheme, checked, route, consumed, entered>>

\* Mutant of InScope: a token is good for any program.
InScopeAnySource(r) ==
    /\ Tok(r).genuine /\ Eligible(Tok(r).cap)
    /\ 0 < Tok(r).issued /\ Tok(r).issued < Tok(r).expires
    /\ Tok(r).issued <= now[r] /\ now[r] <= Tok(r).expires

\* What both verifiers require of a token.
InScope(r) ==
    /\ Tok(r).genuine /\ Eligible(Tok(r).cap)
    /\ 0 < Tok(r).issued /\ Tok(r).issued < Tok(r).expires
    /\ Tok(r).issued <= now[r] /\ now[r] <= Tok(r).expires
    /\ Tok(r).source = Prog(r)

\* qn_signed_approval_verify.
SignedAccepts(r) ==
    /\ key[r] = Tok(r).issuer
    /\ InScope(r)
    /\ Tok(r).expires <= TimeLimit
    /\ Tok(r).cap \in Prog(r).caps

Verify(r) ==
    /\ pc[r] = "verify"
    /\ IF (Signed(r) /\ SignedAccepts(r)) \/ (~Signed(r) /\ InScope(r))
       THEN /\ GoTo(r, "revocation")
            /\ approved' = [approved EXCEPT ![r] = @ \cup {Tok(r).cap}]
            /\ scheme' = [scheme EXCEPT ![r] =
                              IF Signed(r) THEN "ed25519" ELSE "hmac-sha256"]
       ELSE Fail(r, "approval") /\ UNCHANGED <<approved, scheme>>
    /\ UNCHANGED <<Env, req, ledger, now, key, checked, route, consumed, entered>>

\* Mutant of CheckRevocation: the issuer is not looked up.
CheckRevocationOfToken(r) ==
    /\ pc[r] = "revocation"
    /\ IF Signed(r) /\ Tok(r) \in revoked
       THEN Fail(r, "revoked") /\ UNCHANGED checked
       ELSE GoTo(r, "preflight") /\ checked' = [checked EXCEPT ![r] = Signed(r)]
    /\ UNCHANGED <<Env, req, ledger, now, key, approved, scheme, route, consumed, entered>>

\* check_revocation_before_replay, which only signed approvals go through.
CheckRevocation(r) ==
    /\ pc[r] = "revocation"
    /\ \/ /\ ~Signed(r)
          /\ GoTo(r, "preflight")
          /\ UNCHANGED checked
       \/ /\ Signed(r) /\ NotRevoked(req[r], revoked)
          /\ GoTo(r, "preflight")
          /\ checked' = [checked EXCEPT ![r] = TRUE]
       \/ /\ Signed(r) /\ ~NotRevoked(req[r], revoked)
          /\ Fail(r, "revoked")
          /\ UNCHANGED checked
       \/ Signed(r) /\ Fail(r, "io") /\ UNCHANGED checked
    /\ UNCHANGED <<Env, req, ledger, now, key, approved, scheme, route, consumed, entered>>

\* Mutant of PreflightOK: the shot count is left to the VM.
PreflightOKAnyShots(r) ==
    /\ Evaluate(Prog(r).caps, GuardPolicy(r)) = "allowed"
    /\ Prog(r).kind = "quantum" \/ ~(Given(r, "shots") \/ Given(r, "seed"))

\* preflight_before_replay_consume (qubit counts are bounded by decoding).
PreflightOK(r) ==
    /\ Evaluate(Prog(r).caps, GuardPolicy(r)) = "allowed"
    /\ IF Prog(r).kind = "quantum" THEN Shots(r) \in 1..MaxShots
       ELSE ~Given(r, "shots") /\ ~Given(r, "seed")

\* Mutant of Preflight: everything is left to the VM.
PreflightSkipped(r) ==
    /\ pc[r] = "preflight"
    /\ GoTo(r, "route")
    /\ UNCHANGED <<Env, req, ledger, decisions>>

Preflight(r) ==
    /\ pc[r] = "preflight"
    /\ IF PreflightOK(r) THEN GoTo(r, "route") ELSE Fail(r, "preflight")
    /\ UNCHANGED <<Env, req, ledger, decisions>>

\* qn_gpu_route_qvm; whether a probe finds the hardware is up to the machine.
Route(r) ==
    /\ pc[r] = "route"
    /\ \E backend \in {"cpu", "vulkan"} :
          /\ backend = "vulkan" => Prog(r).kind = "vector" /\ req[r].backend # "cpu"
          /\ backend = "cpu" => req[r].backend # "vulkan"
          /\ route' = [route EXCEPT ![r] = backend]
          /\ GoTo(r, IF Signed(r) THEN "consume" ELSE "vm")
    /\ UNCHANGED <<Env, req, ledger, now, key, approved, scheme, checked, consumed, entered>>

RouteRefused(r) ==
    /\ pc[r] = "route"
    /\ req[r].backend = "vulkan"
    /\ Fail(r, "route")
    /\ UNCHANGED <<Env, req, ledger, decisions>>

\* Mutant of Consume: the refusal is not looked at.
ConsumeUnchecked(r) ==
    /\ pc[r] = "consume"
    /\ \/ Tok(r) \in recorded /\ GoTo(r, "vm") /\ UNCHANGED ledger
       \/ Ledger!Record(Tok(r)) /\ GoTo(r, "appended")
       \/ Fail(r, "ledger") /\ UNCHANGED ledger
    /\ UNCHANGED <<Env, req, decisions>>

\* qn_replay_ledger_consume: refused, the record written, or an I/O error
\* before or after that.
Consume(r) ==
    /\ pc[r] = "consume"
    /\ \/ /\ Tok(r) \in recorded
          /\ Fail(r, "replayed")
          /\ UNCHANGED ledger
       \/ Ledger!Record(Tok(r)) /\ GoTo(r, "appended")
       \/ Fail(r, "ledger") /\ UNCHANGED ledger
    /\ UNCHANGED <<Env, req, decisions>>

Granted(r) ==
    /\ pc[r] = "appended"
    /\ \/ /\ Ledger!Grant(Tok(r))
          /\ consumed' = [consumed EXCEPT ![r] = TRUE]
          /\ GoTo(r, "vm")
       \/ Fail(r, "ledger") /\ UNCHANGED <<ledger, consumed>>
    /\ UNCHANGED <<Env, req, now, key, approved, scheme, checked, route, entered>>

\* The checks the VM makes itself, after the token is spent (a given seed is
\* taken to be non-zero).
VmAccepts(r) ==
    /\ Evaluate(Prog(r).caps, GuardPolicy(r)) = "allowed"
    /\ Prog(r).kind # "vector" => route[r] = "cpu"
    /\ IF Prog(r).kind = "quantum" THEN Shots(r) \in 1..MaxShots
       ELSE AskedShots(r) = 0 /\ ~Given(r, "seed")

\* qn_vm_run_guarded_with_inputs: an overflow, an exhausted bound, a lost
\* device or lack of memory ends the program with an error.
RunVm(r) ==
    /\ pc[r] = "vm"
    /\ IF VmAccepts(r)
       THEN /\ entered' = [entered EXCEPT ![r] = TRUE]
            /\ GoTo(r, "report") \/ Fail(r, "runtime")
       ELSE Fail(r, "vm-check") /\ UNCHANGED entered
    /\ UNCHANGED <<Env, req, ledger, now, key, approved, scheme, checked, route, consumed>>

\* qn_print_result, then qn_write_receipt if asked for.
Report(r) ==
    /\ pc[r] = "report"
    /\ Fail(r, "ok") \/ (Given(r, "receipt") /\ Fail(r, "io"))
    /\ UNCHANGED <<Env, req, ledger, decisions>>

Active(r) == pc[r] \notin {"idle", "done", "dead"}

\* The process is killed.
Crash(r) ==
    /\ Active(r)
    /\ GoTo(r, "dead")
    /\ UNCHANGED <<Env, req, ledger, decisions>>

-----------------------------------------------------------------------------
(* The environment *)

Tick ==
    /\ clock < MaxClock
    /\ clock' = clock + 1
    /\ UNCHANGED <<stores, ledger, pc, req, decisions, outcome, clear>>

\* An administrator replaces the trust store or the revocation store.
EditTrust ==
    /\ trusted' \in SUBSET Trustable
    /\ UNCHANGED <<clock, revoked, ledger, pc, req, decisions, outcome, clear>>

EditRevocations ==
    /\ revoked' \in SUBSET Revocable
    /\ clear' = [r \in Run |-> clear[r] \/ (Active(r) /\ NotRevoked(req[r], revoked'))]
    /\ UNCHANGED <<clock, trusted, ledger, pc, req, decisions, outcome>>

\* Power is lost: every command dies, and tokens whose consumption was not
\* reported may be gone from the ledger.
PowerLoss ==
    /\ pc' = [r \in Run |-> IF Active(r) THEN "dead" ELSE pc[r]]
    /\ \E S \in SUBSET recorded : Ledger!Forget(S)
    /\ UNCHANGED <<Env, req, decisions, outcome>>

Step(r) ==
    \/ Start(r) \/ Load(r) \/ ApplyOptions(r) \/ ReadToken(r) \/ ResolveKey(r)
    \/ Verify(r) \/ CheckRevocation(r) \/ Preflight(r)
    \/ Route(r) \/ RouteRefused(r) \/ Consume(r) \/ Granted(r)
    \/ RunVm(r) \/ Report(r)

Next ==
    \/ \E r \in Run : Step(r) \/ Crash(r)
    \/ Tick \/ EditTrust \/ EditRevocations \/ PowerLoss

Spec == Init /\ [][Next]_vars

-----------------------------------------------------------------------------
(* Properties *)

\* A program only enters the VM if every capability it declares is safe, or
\* is the one a genuine token for this very program approves, valid at the
\* time the command read and signed with the key it resolved; under deny-all
\* only if it declares none, and never with a blocked or unknown capability.
VmEntryAuthorised ==
    \A r \in Run : entered[r] =>
        /\ req[r].policy = "safe" \/ Prog(r).caps = {}
        /\ Prog(r).caps \subseteq SafeCaps \cup GatedCaps
        /\ \A c \in Prog(r).caps \cap GatedCaps :
              LET t == Tok(r) IN
              /\ t.cap = c /\ t.genuine /\ t.source = Prog(r)
              /\ t.issued <= now[r] /\ now[r] <= t.expires
              /\ Signed(r) => key[r] = t.issuer

\* A signed token carries at most one command into the VM, however many
\* commands present it at once, crash or are run again afterwards.
OneEntryPerToken ==
    \A q, r \in Run :
        entered[q] /\ entered[r] /\ Signed(q) /\ Signed(r) /\ Tok(q) = Tok(r) => q = r

\* A command whose token or issuer was revoked during all of its life never
\* enters the VM, however the store is edited in the meantime.
RevokedNeverEnters ==
    \A r \in Run : entered[r] /\ Signed(r) => clear[r]

\* A token is only spent by a command that passed verification, the
\* revocation check, preflight and routing: failing one of those consumes
\* nothing.
SpentOnlyPastPreflight ==
    \A t \in recorded : \E r \in Run :
        /\ Tok(r) = t /\ Signed(r) /\ checked[r] /\ route[r] # "none"
        /\ PreflightOK(r)

\* Nothing the VM refuses at its door is refused after the token is spent:
\* preflight already checked it all.
PreflightForesees == \A r \in Run : outcome[r] # "vm-check"
=============================================================================
