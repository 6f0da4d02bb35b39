------------------------------ MODULE MCFiles ------------------------------
(* Instances of Files for TLC: accounts that are all on one host.          *)
EXTENDS Files

OneHost == [a \in Accounts |-> "host"]
=============================================================================
