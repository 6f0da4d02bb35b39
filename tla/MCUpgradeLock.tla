--------------------------- MODULE MCUpgradeLock ---------------------------
(* Instances of UpgradeLock for TLC: agents on one host.              *)
EXTENDS UpgradeLock, TLC

Symmetry == Permutations(Procs)
============================================================================
