---------------------------- MODULE MCAppUpgrade ----------------------------
(* Instances of AppUpgrade for TLC.                                        *)
EXTENDS AppUpgrade, TLC

Symmetry == Permutations(Hosts)

\* The list is not edited again once the app was started a second time.
FewChanges == epoch + boots <= 1
=============================================================================
