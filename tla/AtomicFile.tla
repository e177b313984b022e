----------------------------- MODULE AtomicFile -----------------------------
(***************************************************************************)
(* What publishing a file atomically promises: the file holds nothing or   *)
(* one publisher's whole output, changes in one step, and only on behalf   *)
(* of a publisher that then reports success or dies.  A power failure may  *)
(* take it back to something it held before.                               *)
(***************************************************************************)
CONSTANTS Publisher, Old, None

VARIABLES
    value,                  \* whose output the file holds
    past,                   \* what it ever held
    phase                   \* phase[p]: how far p's call is

vars == <<value, past, phase>>

Init ==
    /\ value \in {Old, None}
    /\ past = {value}
    /\ phase = [p \in Publisher |-> "calling"]

Publish(p) ==
    /\ phase[p] = "calling"
    /\ value' = p
    /\ past' = past \cup {p}
    /\ phase' = [phase EXCEPT ![p] = "published"]

Succeed(p) ==
    /\ phase[p] = "published"
    /\ phase' = [phase EXCEPT ![p] = "ok"]
    /\ UNCHANGED <<value, past>>

Fail(p) ==
    /\ phase[p] = "calling"
    /\ phase' = [phase EXCEPT ![p] = "failed"]
    /\ UNCHANGED <<value, past>>

\* Publishers die in the middle of their calls.
Die(S) ==
    /\ \A p \in S : phase[p] \in {"calling", "published"}
    /\ phase' = [p \in Publisher |-> IF p \in S THEN "dead" ELSE phase[p]]
    /\ value' \in past
    /\ UNCHANGED past

Next ==
    \/ \E p \in Publisher : Publish(p) \/ Succeed(p) \/ Fail(p)
    \/ \E S \in SUBSET Publisher : Die(S)

Spec == Init /\ [][Next]_vars
=============================================================================
