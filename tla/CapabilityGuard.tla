-------------------------- MODULE CapabilityGuard --------------------------
(***************************************************************************)
(* The deny-by-default capability guard (src/guard.c).  A capability mask  *)
(* is a set of capabilities; OtherCaps stands for the bits outside         *)
(* QN_CAP_KNOWN, which a bytecode file may hold and its decoder refuses.   *)
(***************************************************************************)

CONSTANTS SafeCaps, GatedCaps, BlockedCaps, OtherCaps

ASSUME CapabilityAssumption ==
    /\ SafeCaps \cap GatedCaps = {} /\ SafeCaps \cap BlockedCaps = {}
    /\ GatedCaps \cap BlockedCaps = {}
    /\ OtherCaps \cap (SafeCaps \cup GatedCaps \cup BlockedCaps) = {}

Known == SafeCaps \cup GatedCaps \cup BlockedCaps
Capability == Known \cup OtherCaps

\* The two profiles qn_guard_policy_select knows; selecting one forgets
\* every approval.
Policy(profile) ==
    IF profile = "safe"
    THEN [allowed |-> SafeCaps, gated |-> GatedCaps,
          blocked |-> BlockedCaps, approved |-> {}]
    ELSE [allowed |-> {}, gated |-> {}, blocked |-> Known, approved |-> {}]

\* qn_guard_evaluate: unknown, blocked and unclassified capabilities are
\* denied before approvals are looked at.
Evaluate(requested, policy) ==
    LET unclassified ==
            requested \ (policy.allowed \cup policy.gated \cup policy.blocked)
        denied == (requested \ Known) \cup (requested \cap policy.blocked)
                      \cup unclassified
    IN  IF denied # {} THEN "blocked"
        ELSE IF (requested \cap policy.gated) \ policy.approved # {}
             THEN "needs_approval"
        ELSE "allowed"

\* approval_eligible and capability_can_be_approved: what a token may approve.
Eligible(c) == c \in GatedCaps /\ c \notin BlockedCaps
=============================================================================
