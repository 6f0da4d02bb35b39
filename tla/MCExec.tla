------------------------------- MODULE MCExec -------------------------------
(***************************************************************************)
(* Two machines of the agent in exec mode, for TLC: the lock, with four    *)
(* agents on one host, and the sieve of markers.  They share nothing and   *)
(* are run one at a time: the variables of the other stay as they began.   *)
(* The lock is run twice: with every interleaving, and with acquisitions   *)
(* that do not overlap and pids that do not come up again.                 *)
(***************************************************************************)
EXTENDS UpgradeLock, Sieve, TLC

VARIABLE part   \* what this is a behaviour of

Symmetry == Permutations(Procs)

ExecNext ==
  /\ \/ part = "lock" /\ Next /\ UNCHANGED sieveVars
     \/ part = "in turn" /\ SerialNext /\ UNCHANGED <<recur, sieveVars>>
     \/ part = "sieve" /\ SieveNext /\ UNCHANGED vars
  /\ UNCHANGED part

ExecInit == part \in {"lock", "in turn", "sieve"} /\ Init /\ SieveInit
ExecSpec == ExecInit /\ [][ExecNext]_<<part, vars, sieveVars>>

\* Runs that acquire the lock in turn never hold it together (acquire): at most
\* one of them, whoever is killed and wherever.
InTurnOneHolds == part = "in turn" => MutualExclusion

\* And one of them is refused only for a lock whose maker is still there or that
\* is too recent to break (STALE_AFTER).
InTurnRefusedJustly == [][part = "in turn" => RefusedJustly]_vars
=============================================================================
