--------------------------- MODULE MCReplayLedger ---------------------------
(***************************************************************************)
(* Small instances of ReplayLedger: processes and tokens are               *)
(* interchangeable, so their permutations are a symmetry of the model.     *)
(***************************************************************************)
EXTENDS ReplayLedger, TLC

Symmetry == Permutations(Proc) \cup Permutations(Token)
=============================================================================
