--------------------------- MODULE MCAtomicPublish ---------------------------
(***************************************************************************)
(* Small instances of AtomicPublish; publishers, readers and pids are      *)
(* interchangeable.                                                        *)
(***************************************************************************)
EXTENDS AtomicPublish, TLC

Symmetry == Permutations(Publisher) \cup Permutations(Reader) \cup Permutations(Pid)
=============================================================================
