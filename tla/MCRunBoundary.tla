--------------------------- MODULE MCRunBoundary ---------------------------
(***************************************************************************)
(* An instance of RunBoundary.  SharedRequest: two commands at a time may   *)
(* compete for the same token.  OptionRequest: a single command with any   *)
(* set of approval options, valid and invalid tokens and every program.    *)
(***************************************************************************)
EXTENDS RunBoundary, TLC

CONSTANTS
    Process,
    quantum, network, shell, bit63, alice, mallory

\* Programs by the capabilities they request.
Plain  == [caps |-> {quantum}, kind |-> "quantum", shots |-> 1]
Gated  == [caps |-> {quantum, network}, kind |-> "quantum", shots |-> 1]
Scalar == [caps |-> {network}, kind |-> "scalar", shots |-> 0]
Vector == [caps |-> {network}, kind |-> "vector", shots |-> 0]
Bare == [caps |-> {}, kind |-> "quantum", shots |-> 1]
Hostile == [caps |-> {quantum, shell}, kind |-> "quantum", shots |-> 1]
Unknown == [caps |-> {quantum, bit63}, kind |-> "quantum", shots |-> 1]
Mute   == [caps |-> {quantum, network}, kind |-> "quantum", shots |-> 0]

TokenFor(source, issuer, cap, issued, expires, genuine) ==
    [source |-> source, issuer |-> issuer, cap |-> cap, issued |-> issued,
     expires |-> expires, genuine |-> genuine]

Good(p) == TokenFor(p, alice, network, 1, 2, TRUE)
Forged(p) == TokenFor(p, alice, network, 1, 2, FALSE)

SignedFlags == {"signed-approval-file", "replay-ledger-file", "revocation-store-file"}
ByStore == SignedFlags \cup {"trust-store-file", "receipt"}
ByKey == SignedFlags \cup {"approval-public-key-file"}
ByMac == {"approval-file", "approval-key-file"}

Command(p, t, given) ==
    [program |-> p, token |-> t, given |-> given, policy |-> "safe",
     issuer |-> alice, shots |-> 1, now |-> 1, backend |-> "cpu"]

\* Commands that share tokens: the clock decides whether one is valid.
SharedRequest ==
    {Command(Gated, Good(Gated), ByStore),
     Command(Gated, Good(Gated), ByKey \cup {"now"}),
     Command(Mute, Good(Mute), ByKey)}

\* Every set of approval options, and every kind of bad input.
Shell == TokenFor(Hostile, alice, shell, 1, 2, TRUE)
MCToken ==
    {Good(Gated), Forged(Gated), Shell, Good(Scalar), Good(Vector), Good(Mute),
     TokenFor(Gated, mallory, network, 1, 2, TRUE),
     Good(Plain), Good(Bare),
     TokenFor(Gated, alice, shell, 1, 2, TRUE),
     TokenFor(Gated, alice, network, 1, 9, TRUE),
     TokenFor(Gated, alice, network, 2, 1, TRUE)}

ApprovalFlags == Flags \ {"shots", "seed", "now", "receipt"}

OptionRequest ==
    {Command(Gated, Good(Gated), given) : given \in SUBSET ApprovalFlags}
    \cup {Command(p, t, given) :
             p \in {Gated, Plain}, t \in MCToken, given \in {ByStore, ByKey, ByMac}}
    \cup {[Command(p, Good(p), given) EXCEPT !.shots = n, !.backend = b] :
             p \in {Scalar, Vector, Gated, Mute},
             given \in {ByStore, ByStore \cup {"shots"}, ByStore \cup {"seed"}},
             n \in {0, 1, 3, 4, 5}, b \in {"cpu", "auto", "vulkan"}}
    \cup {[Command(p, Good(p), given) EXCEPT !.policy = "deny-all"] :
             p \in {Bare, Plain, Vector, Gated}, given \in {{}, ByStore}}
    \cup {Command(p, Good(Gated), {}) : p \in {Plain, Hostile, Unknown, Gated}}
    \cup {Command(Hostile, Shell, ByKey)}

MCSession ==
    [Process -> SharedRequest] \cup UNION {[{r} -> OptionRequest] : r \in Process}
MCRevocable == {alice, Good(Gated)}

Symmetry == Permutations(Process)

=============================================================================
