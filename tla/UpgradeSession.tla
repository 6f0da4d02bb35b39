--------------------------- MODULE UpgradeSession ---------------------------
(***************************************************************************)
(* One upgrade as the client runs it, over the agent of ExecAgent:         *)
(* crates/multitop/src/tasks/upgrade.rs and tasks/verdict.rs.  The client  *)
(* connects, reads frames until Exit, the end of the stream or silence,    *)
(* reads ssh's stderr to its end, installs an agent and tries once more if *)
(* the host had none, and tells the operator one verdict.                  *)
(***************************************************************************)
EXTENDS ExecAgent

CONSTANTS
  Banners,   \* whether a login file of the host may print before the agent
  CanCut     \* whether the connection may silently go away

ASSUME SessionAssumption == Banners \in BOOLEAN /\ CanCut \in BOOLEAN

NoExit == 256   \* Report.exit is None

VARIABLES
  cpc,        \* where the client is
  attempt,    \* 1 or 2
  exit,       \* Report.exit
  signs,      \* the flags of Report: sudo, lock, need, stalled
  log,        \* the lines of the panel that came from the command's run
  installed,  \* whether the host has an agent of this build
  verdict     \* what the operator was told; "nothing" before

clientVars  == <<cpc, attempt, exit, signs, log, installed, verdict>>
vars == <<childVars, agentVars, clientVars>>

ClientInit ==
  /\ cpc = "dial" /\ attempt = 1
  /\ exit = NoExit /\ signs = {} /\ log = <<>>
  /\ installed \in BOOLEAN
  /\ verdict = "nothing"

Init == ChildInit /\ AgentInit /\ ClientInit

---------------------------------------------------------------------------
\* spawn_exec: ssh starts the bootstrap, which execs the agent or says that
\* there is none; or ssh cannot be started or does not take the request.
Dial ==
  /\ cpc = "dial"
  /\ exit' = NoExit /\ signs' = {}
  /\ \/ /\ cpc' = "frames"
        /\ link' = "up" /\ wire' = <<>>
        /\ apc' = IF installed THEN "request" ELSE "missing"
     \/ /\ cpc' = "judge"
        /\ UNCHANGED <<link, wire, apc>>
  /\ UNCHANGED <<attempt, log, installed, verdict, held, flags, outcome, lk,
                 childVars>>

\* apply_frame, on the next frame.
Heard(f) ==
  CASE f.kind = "SudoFailed" -> signs \cup {"sudo"}
    [] f.kind = "LockHeld"   -> signs \cup {"lock"}
    [] OTHER                 -> signs

ReadFrame ==
  /\ cpc = "frames" /\ wire # <<>>
  /\ LET f == Head(wire) IN
       /\ signs' = Heard(f)
       /\ exit' = IF f.kind = "Exit" THEN f.n ELSE exit
       /\ cpc' = IF f.kind = "Exit" THEN "stderr" ELSE "frames"
       /\ log' = IF f.kind \in Forwarded \cup {"err"} THEN Append(log, f) ELSE log
  /\ wire' = Tail(wire)
  /\ UNCHANGED <<attempt, installed, verdict, apc, held, flags, outcome, lk,
                 link, childVars>>

\* Mutant: the end of the agent is not an end of its stream.
OnlyClosed == link = "closed"

\* The far end of the ssh session has ended, as far as this end can tell.
SshEnded == link = "closed" \/ (link = "up" /\ apc \in Gone)

EndOfFrames ==
  /\ cpc = "frames" /\ wire = <<>> /\ SshEnded
  /\ cpc' = "stderr"
  /\ UNCHANGED <<attempt, exit, signs, log, installed, verdict, agentVars,
                 childVars>>

\* Bytes that are not framing, ahead of everything the agent sends.
Banner ==
  /\ Banners
  /\ cpc = "frames" /\ apc \in {"request", "missing"} /\ log = <<>>
  /\ cpc' = "stderr"
  /\ UNCHANGED <<attempt, exit, signs, log, installed, verdict, agentVars,
                 childVars>>

\* STALL_AFTER without a frame header.
Stall ==
  /\ cpc = "frames" /\ Quiet /\ ~SshEnded
  /\ signs' = signs \cup {"stalled"}
  /\ cpc' = "stderr"
  /\ UNCHANGED <<attempt, exit, log, installed, verdict, agentVars, childVars>>

\* ssh's stderr is read to its end: it carries the bootstrap's NEEDAGENT line,
\* which a connection that was lost has not delivered.
EndOfStderr ==
  /\ cpc = "stderr" /\ SshEnded
  /\ signs' = IF apc = "missing" /\ link = "up" THEN signs \cup {"need"} ELSE signs
  /\ cpc' = "judge"
  /\ UNCHANGED <<attempt, exit, log, installed, verdict, agentVars, childVars>>

\* Mutant: any attempt that brought no Exit is tried again.
NoExitIsNoAgent == "need" \in signs \/ exit = NoExit

NeedsAgent == "need" \in signs

\* Once per upgrade: upload the agent and ask again.
Install ==
  /\ cpc = "judge" /\ NeedsAgent /\ attempt = 1
  /\ \/ installed' = TRUE /\ attempt' = 2 /\ cpc' = "dial" /\ UNCHANGED verdict
     \/ verdict' = "noagent" /\ cpc' = "told" /\ UNCHANGED <<attempt, installed>>
  /\ UNCHANGED <<exit, signs, log, agentVars, childVars>>

\* verdict: the first of these that applies.
Verdict ==
  IF "stalled" \in signs THEN "lost"
  ELSE IF "sudo" \in signs \/ exit = SudoFailedCode THEN "sudo"
  ELSE IF "lock" \in signs \/ exit = LockHeldCode THEN "lock"
  ELSE IF "need" \in signs THEN "noagent"
  ELSE IF exit = NoExit THEN "unfinished"
  ELSE IF exit = 0 THEN "ok" ELSE "failed"

Judge ==
  /\ cpc = "judge" /\ (~NeedsAgent \/ attempt = 2)
  /\ verdict' = Verdict
  /\ cpc' = "told"
  /\ UNCHANGED <<attempt, exit, signs, log, installed, agentVars, childVars>>

\* The operator quits: the task is aborted and takes its ssh with it.
Abort ==
  /\ cpc # "told"
  /\ verdict' = "aborted" /\ cpc' = "told"
  /\ link' = "closed" /\ wire' = <<>>
  /\ UNCHANGED <<attempt, exit, signs, log, installed, apc, held, flags,
                 outcome, lk, childVars>>

---------------------------------------------------------------------------
\* The connection: it may break at once, or go silent until ssh's own keep-
\* alives give it up.  What was on the way arrives up to some point.
Prefixes(s) == {SubSeq(s, 1, n) : n \in 0..Len(s)}

Cut ==
  /\ CanCut /\ link = "up"
  /\ link' \in {"cut", "closed"}
  /\ wire' \in Prefixes(wire)
  /\ UNCHANGED <<apc, held, flags, outcome, lk, clientVars, childVars>>

GiveUp ==
  /\ link = "cut"
  /\ link' = "closed"
  /\ UNCHANGED <<apc, held, flags, outcome, lk, wire, clientVars, childVars>>

\* Another build of the client sweeps this one's agent out of the cache; only
\* the next Dial can see it, so it is modelled just before one.
Sweep ==
  /\ installed /\ cpc = "dial"
  /\ installed' = FALSE
  /\ UNCHANGED <<cpc, attempt, exit, signs, log, verdict, agentVars, childVars>>

ClientStep ==
  \/ Dial \/ ReadFrame \/ EndOfFrames \/ Stall \/ EndOfStderr \/ Install \/ Judge

Next ==
  \/ ChildStep /\ UNCHANGED <<agentVars, clientVars>>
  \/ (AgentStep \/ KillAgent \/ HangAgent \/ OtherEnds) /\ UNCHANGED clientVars
  \/ ClientStep \/ Banner \/ Abort \/ Cut \/ GiveUp \/ Sweep

Spec == Init /\ [][Next]_vars

\* Every process that can go on does; the command ends; ssh gives a dead
\* connection up.  A stall is a timeout and so happens when silence lasts.
Fairness ==
  /\ WF_vars(ScriptStep /\ UNCHANGED <<agentVars, clientVars>>)
  /\ WF_vars(AgentStep /\ UNCHANGED clientVars)
  /\ WF_vars(ClientStep)
  /\ WF_vars(GiveUp)

FairSpec == Spec /\ Fairness

---------------------------------------------------------------------------
\* The values of the session's variables; the reader never keeps more than
\* STARTUP_HOLD_LIMIT of the shell's start back.
TypeOK ==
  /\ AgentTypeOK
  /\ cpc \in {"dial", "frames", "stderr", "judge", "told"}
  /\ attempt \in {1, 2}
  /\ exit \in 0..NoExit
  /\ signs \subseteq {"sudo", "lock", "need", "stalled"}
  /\ log \in Seq([kind : Forwarded \cup {"err"}, n : Nat])
  /\ installed \in BOOLEAN
  /\ verdict \in {"nothing", "ok", "failed", "sudo", "lock", "noagent",
                  "unfinished", "lost", "aborted"}

\* The command of the operator as UpgradePromise sees it: running from the
\* opening marker until the shell is gone, and then ok or failed by the status
\* the shell left.
Host ==
  IF ran = 0 THEN "idle"
  ELSE IF stage \notin {"closed", "exited"} THEN "running"
  ELSE IF status = 0 THEN "ok" ELSE "failed"

Told ==
  CASE verdict \in {"sudo", "lock", "noagent"} -> "never"
    [] verdict \in {"unfinished", "lost", "aborted"} -> "unsure"
    [] OTHER -> verdict

Abstract == INSTANCE UpgradePromise WITH host <- Host, told <- Told

\* The session keeps the promise: success only for a command that ended with 0,
\* `did not run` only when it has not and will not, and no second run.
KeepsPromise == Abstract!Spec

\* The pieces of one kind in a sequence are those numbered from + 1 to to, each
\* once and in order.
Counts(s, kind, from, to) ==
  LET of == {i \in DOMAIN s : s[i].kind = kind} IN
  /\ \A i, j \in of : i < j => s[i].n < s[j].n
  /\ {s[i].n : i \in of} = (from + 1)..to

\* The log is the command's output: when an Exit has been read of a run that had
\* a shell, nothing of the command's stdout or stderr is lost, repeated or out of
\* order; and if the command was bracketed no noise of the login shell is in the
\* log, unless there was more of it than is held back.
LogIsTheCommand ==
  exit # NoExit /\ stage = "exited"
    => /\ Counts(log, "out", 0, Len(said)) /\ Counts(log, "err", 0, erred)
       /\ bracketed /\ noise < HoldLimit =>
            \A i \in DOMAIN log : log[i].kind \notin {"noise", "leftover"}

\* Whatever the login shell does, the password never reaches the log, or the
\* wire, or the held-back output.
PasswordNeverEchoed ==
  \A s \in {pty, held, wire, log} : \A i \in DOMAIN s : s[i].kind # "password"

\* A client that has read Exit can start the next upgrade at once: the lock of
\* this run is not in its way.
ExitFreesLock == exit # NoExit => lk # "mine"

\* No run is left without a verdict, so no panel stays in STARTED.
EveryRunIsTold == <>(cpc = "told")

\* The host's lock is let go by every agent that is not killed, whatever
\* becomes of the client and the connection.
LockIsLetGo == lk = "mine" ~> lk # "mine" \/ apc = "dead"

\* Silence is bounded: an agent that has stopped does not keep the client
\* waiting.
SilenceIsBounded == apc = "hung" ~> cpc = "told"

\* `never ran` (a refused password, a held lock, no agent) is said only of a
\* command that was not started: 111 and 125 stand for those and for nothing
\* else.
NeverRanIsTrue == Told = "never" => ran = 0

\* `done` is said only of a command that was started.
OkMeansItRan == Told = "ok" => ran > 0

\* A run that was stopped with its task does not start its command afterwards.
StoppedStaysStopped == [][verdict = "aborted" => ran' = ran]_vars

\* Once the shell is reaped the pump drains what is queued and leaves, whatever
\* a process left behind does.
DrainEnds == apc = "drain" ~> apc # "drain"
=============================================================================
