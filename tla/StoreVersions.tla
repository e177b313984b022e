---------------------------- MODULE StoreVersions ----------------------------
(***************************************************************************)
(* What loading a store promises while an administrator changes it: the    *)
(* load refuses, or returns all the entries of one version the file had    *)
(* since the load began.  A file that is rewritten in place meanwhile is   *)
(* outside the promise.                                                    *)
(***************************************************************************)
EXTENDS EntryStore

CONSTANT Loader

VARIABLES
    store,                  \* which store the file is
    content,                \* {what the file says}, or {} without a file
    rewriting,              \* an administrator is rewriting it in place
    stage,                  \* stage[p]: how far p's load is
    seen,                   \* the versions since p's load began, if calm
    calm,                   \* nobody rewrote the file in place since then
    answer                  \* what the load returned

vars == <<store, content, rewriting, stage, seen, calm, answer>>

Init ==
    /\ store \in StoreKind
    /\ rewriting = FALSE
    /\ stage = [p \in Loader |-> "idle"]
    /\ seen = [p \in Loader |-> {}]
    /\ calm = [p \in Loader |-> TRUE]
    /\ answer = [p \in Loader |-> Refused("none")]

\* The administrator changes the file.
Change ==
    /\ calm' = [p \in Loader |-> calm[p] /\ ~(stage[p] = "loading" /\ rewriting')]
    /\ seen' = [p \in Loader |-> IF ~calm'[p] THEN {}
                                 ELSE IF stage[p] = "loading" THEN seen[p] \cup content'
                                 ELSE seen[p]]
    /\ UNCHANGED <<store, stage, answer>>

Begin(p) ==
    /\ stage[p] = "idle"
    /\ stage' = [stage EXCEPT ![p] = "loading"]
    /\ calm' = [calm EXCEPT ![p] = ~rewriting]
    /\ seen' = [seen EXCEPT ![p] = IF rewriting THEN {} ELSE content]
    /\ UNCHANGED <<store, content, rewriting, answer>>

Return(p) ==
    /\ stage[p] = "loading"
    /\ stage' = [stage EXCEPT ![p] = "done"]
    /\ answer'[p].code = "ok" /\ calm[p] =>
           \E v \in seen[p] : answer'[p] = ParseText(store, v)
    /\ answer' = [answer EXCEPT ![p] = answer'[p]]
    /\ UNCHANGED <<store, content, rewriting, seen, calm>>

Refuse(p) ==
    /\ stage[p] \in {"idle", "loading"}
    /\ stage' = [stage EXCEPT ![p] = "done"]
    /\ answer'[p] = Refused(answer'[p].code) /\ answer'[p].code # "ok"
    /\ answer' = [answer EXCEPT ![p] = answer'[p]]
    /\ UNCHANGED <<store, content, rewriting, seen, calm>>

Next == Change \/ \E p \in Loader : Begin(p) \/ Return(p) \/ Refuse(p)

Spec == Init /\ [][Next]_vars
=============================================================================
