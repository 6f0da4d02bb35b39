--------------------------- MODULE UpgradePromise ---------------------------
(***************************************************************************)
(* What an upgrade promises its operator, whatever happens in between.     *)
(* The command runs at most once.  `ok` is said only of a command that     *)
(* ended with 0, `failed` only of a run that is over without success, and  *)
(* `never` only of a command that has not run and will not.  `unsure` (lost *)
(* contact, no Exit frame, stopped by the operator) may be said any time   *)
(* and leaves open what the host does.                                     *)
(***************************************************************************)
VARIABLES
  host,   \* the operator's command: idle, running, ok or failed
  told    \* the verdict in the log: nothing yet, ok, failed, never, unsure

vars == <<host, told>>

Init == host = "idle" /\ told = "nothing"

Start ==
  /\ host = "idle" /\ told \in {"nothing", "unsure"}
  /\ host' = "running"
  /\ UNCHANGED told

End ==
  /\ host = "running"
  /\ host' \in {"ok", "failed"}
  /\ UNCHANGED told

Allowed(v) ==
  CASE v = "ok"     -> host = "ok"
    [] v = "failed" -> host \in {"failed", "idle"}
    [] v = "never"  -> host = "idle"
    [] v = "unsure" -> TRUE

Tell ==
  /\ told = "nothing"
  /\ \E v \in {"ok", "failed", "never", "unsure"} : Allowed(v) /\ told' = v
  /\ UNCHANGED host

Next == Start \/ End \/ Tell

Spec == Init /\ [][Next]_vars
=============================================================================
