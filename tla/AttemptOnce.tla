----------------------------- MODULE AttemptOnce -----------------------------
(***************************************************************************)
(* What the replay ledger promises its callers, with no file, lock or      *)
(* process in sight: a token is written down first, is granted to at most  *)
(* one caller, and only a token nobody was granted can ever be forgotten.  *)
(* ReplayLedger is shown to implement this specification.                  *)
(***************************************************************************)
EXTENDS Naturals

CONSTANT Token              \* SHA-256 digests of signed approval tokens

VARIABLES
    recorded,               \* the tokens the ledger holds
    grants                  \* grants[t]: how many callers were told "consumed"

vars == <<recorded, grants>>

Init ==
    /\ recorded = {}
    /\ grants = [t \in Token |-> 0]

\* A caller appends a token the ledger does not hold.
Record(t) ==
    /\ t \notin recorded
    /\ recorded' = recorded \cup {t}
    /\ UNCHANGED grants

\* The caller is told that its token is consumed: never without a record,
\* never a second time.
Grant(t) ==
    /\ t \in recorded
    /\ grants[t] = 0
    /\ grants' = [grants EXCEPT ![t] = 1]
    /\ UNCHANGED recorded

\* A power failure may take back records no caller was granted.
Forget(S) ==
    /\ \A t \in S : grants[t] = 0
    /\ recorded' = recorded \ S
    /\ UNCHANGED grants

Next ==
    \/ \E t \in Token : Record(t) \/ Grant(t)
    \/ \E S \in SUBSET recorded : Forget(S)

Spec == Init /\ [][Next]_vars
=============================================================================
