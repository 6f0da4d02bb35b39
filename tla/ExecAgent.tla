----------------------------- MODULE ExecAgent -----------------------------
(***************************************************************************)
(* One `exec` session of the agent: crates/agent/src/exec/serve.rs, run.rs *)
(* and pump.rs.  The agent reads a request, takes the host's upgrade lock, *)
(* runs the shell of ExecChild, pumps what it says to the client as frames *)
(* and ends with one Exit frame.                                           *)
(*                                                                         *)
(* Frames that carry no news to the client (Hello, Begin, Alive, the       *)
(* PwReady marker) are not put on the wire: they only keep it from being   *)
(* silent, which Quiet states.                                             *)
(***************************************************************************)
EXTENDS ExecChild

CONSTANTS
  HoldLimit,  \* STARTUP_HOLD_LIMIT in pieces
  CanKill,    \* whether the agent may be killed
  CanHang     \* whether the agent may stop making progress without dying

ASSUME AgentAssumption ==
  /\ HoldLimit \in Nat \ {0}
  /\ CanKill \in BOOLEAN /\ CanHang \in BOOLEAN

LockHeldCode == 125
NoShellCode  == 127

VARIABLES
  apc,      \* where the agent is
  held,     \* stdout pieces kept back until the login shell has started
  flags,    \* what the reader remembers: started, done, pwsent, refused
  outcome,  \* the exit status it will report
  lk,       \* the host's upgrade lock: free, mine or another run's
  link,     \* the ssh connection: none, up, cut (silently gone) or closed
  wire      \* frames sent and not read by the client

agentVars == <<apc, held, flags, outcome, lk, link, wire>>

Frame(k, n) == [kind |-> k, n |-> n]
Forwarded   == {"out", "noise", "password", "leftover"}
Frames      == [kind : Forwarded \cup {"err", "SudoFailed", "LockHeld"}, n : Nat]
                 \cup [kind : {"Exit"}, n : 0..255]

\* `send`: an error means the client is gone and is dropped.
Send(frames) == wire' = IF link = "up" THEN wire \o frames ELSE wire

Gone == {"off", "missing", "over", "dead"}

AgentInit ==
  /\ apc = "off" /\ held = <<>> /\ flags = {} /\ outcome = 0
  /\ lk \in {"free", "other"}
  /\ link = "none" /\ wire = <<>>

---------------------------------------------------------------------------
\* serve: the framed request on stdin, or a stream that ended before it.
ReadRequest ==
  /\ apc = "request"
  /\ \/ apc' = "lock" /\ UNCHANGED wire
     \/ link # "up" /\ apc' = "over" /\ Send(<<Frame("err", 0), Frame("Exit", 1)>>)
  /\ UNCHANGED <<held, flags, outcome, lk, link, childVars>>

\* execute: lock::acquire (UpgradeLock has its steps).
AcquireLock ==
  /\ apc = "lock"
  /\ \/ /\ lk = "free"
        /\ lk' = "mine" /\ apc' = "spawn" /\ UNCHANGED <<outcome, wire>>
     \/ /\ lk = "other"
        /\ Send(<<Frame("LockHeld", 0)>>)
        /\ outcome' = LockHeldCode /\ apc' = "exit" /\ UNCHANGED lk
     \/ /\ lk = "free"
        /\ Send(<<Frame("err", 0)>>)
        /\ outcome' = 1 /\ apc' = "exit" /\ UNCHANGED lk
  /\ UNCHANGED <<held, flags, link, childVars>>

\* A NUL in the command, no shell to be had, or a shell with or without a
\* password to ask for.
SpawnShell ==
  /\ apc = "spawn"
  /\ \/ /\ outcome' \in {1, NoShellCode}
        /\ Send(<<Frame("err", 0)>>)
        /\ apc' = "release"
        /\ UNCHANGED <<stage, fds>>
     \/ /\ stage' \in {"ask", "boot"}
        /\ fds' = {"master", "errpipe"}
        /\ apc' = "pump"
        /\ UNCHANGED <<outcome, wire>>
  /\ UNCHANGED <<held, flags, lk, link, status, echo, typed, pty, errpty,
                 daemon, said, erred, noise, bracketed, ran>>

---------------------------------------------------------------------------
\* The reader.
Reading     == apc \in {"pump", "drain"}
Holding     == "started" \notin flags
MasterReady == "master" \in fds /\ (pty # <<>> \/ ~SlaveOpen)
ErrReady    == "errpipe" \in fds /\ (errpty > 0 \/ ~SlaveOpen)

AsFrames(pieces) == [i \in DOMAIN pieces |-> Frame(pieces[i].kind, pieces[i].n)]

HoldRoom == Len(held) + 1 < HoldLimit

\* stash: keep back while the shell starts, up to HoldLimit; then forward.
Stash(piece) ==
  IF ~Holding THEN Send(<<Frame(piece.kind, piece.n)>>) /\ UNCHANGED <<held, flags>>
  ELSE IF HoldRoom
    THEN held' = Append(held, piece) /\ UNCHANGED <<flags, wire>>
    ELSE /\ Send(AsFrames(Append(held, piece)))
         /\ held' = <<>> /\ flags' = flags \cup {"started"}

\* consume, for one piece of the stdout terminal.
ConsumeOut(piece) ==
  /\ piece.kind \in Forwarded
  /\ IF "done" \in flags THEN UNCHANGED <<held, flags, wire>> ELSE Stash(piece)
  /\ pty' = Tail(pty) /\ UNCHANGED typed

ConsumeBoundary(piece) ==
  /\ piece.kind \in {"Started", "Done"}
  /\ IF piece.kind = "Started"
       THEN held' = <<>> /\ flags' = flags \cup {"started"}
       ELSE flags' = flags \cup {"done"} /\ UNCHANGED held
  /\ pty' = Tail(pty) /\ UNCHANGED <<typed, wire>>

\* The password is written once; a terminal that still echoes shows it.
ConsumePwReady(piece) ==
  /\ piece.kind = "PwReady"
  /\ IF "pwsent" \in flags THEN UNCHANGED <<flags, typed>> /\ pty' = Tail(pty)
     ELSE /\ flags' = flags \cup {"pwsent"}
          /\ typed' = TRUE
          /\ pty' = IF echo THEN Append(Tail(pty), Password) ELSE Tail(pty)
  /\ UNCHANGED <<held, wire>>

ConsumeSudoFailed(piece) ==
  /\ piece.kind = "SudoFailed"
  /\ Send(<<Frame("SudoFailed", 0)>>)
  /\ flags' = flags \cup {"refused"}
  /\ pty' = Tail(pty) /\ UNCHANGED <<held, typed>>

ReadMaster ==
  /\ Reading /\ "master" \in fds /\ pty # <<>>
  /\ \/ ConsumeOut(Head(pty)) \/ ConsumeBoundary(Head(pty))
     \/ ConsumePwReady(Head(pty)) \/ ConsumeSudoFailed(Head(pty))
  /\ UNCHANGED <<apc, outcome, lk, link, stage, status, echo, errpty, fds,
                 daemon, said, erred, noise, bracketed, ran>>

\* close_master: what is still held is released, not dropped.
ReleaseHeld == Send(AsFrames(held)) /\ held' = <<>>

MasterEnds ==
  /\ Reading /\ "master" \in fds /\ pty = <<>> /\ ~SlaveOpen
  /\ ReleaseHeld
  /\ fds' = fds \ {"master"}
  /\ flags' = flags \cup {"started"}
  /\ UNCHANGED <<apc, outcome, lk, link, stage, status, echo, typed, pty,
                 errpty, daemon, said, erred, noise, bracketed, ran>>

\* Pieces of stderr are numbered in the order they were written.
ReadErr ==
  /\ Reading /\ ErrReady
  /\ IF errpty > 0
       THEN /\ Send(<<Frame("err", erred - errpty + 1)>>)
            /\ errpty' = errpty - 1 /\ UNCHANGED fds
       ELSE fds' = fds \ {"errpipe"} /\ UNCHANGED <<wire, errpty>>
  /\ UNCHANGED <<apc, held, flags, outcome, lk, link, stage, status, echo,
                 typed, pty, daemon, said, erred, noise, bracketed, ran>>

\* try_wait, between two reads of the loop.
TryWait ==
  /\ apc = "pump" /\ fds # {} /\ stage = "exited"
  /\ outcome' = status
  /\ apc' = "drain"
  /\ UNCHANGED <<held, flags, lk, link, wire, childVars>>

\* Mutant: only the stdout terminal is drained.
DrainedStdout == ~MasterReady

Drained == ~MasterReady /\ ~ErrReady

\* drain_post_exit: nothing more is ready, so flush and close what is open.
EndDrain ==
  /\ apc = "drain" /\ Drained
  /\ IF "master" \in fds THEN ReleaseHeld ELSE UNCHANGED <<held, wire>>
  /\ fds' = {} /\ pty' = <<>>
  /\ apc' = "settle"
  /\ UNCHANGED <<flags, outcome, lk, link, stage, status, echo, typed, errpty,
                 daemon, said, erred, noise, bracketed, ran>>

\* Both terminals ended first: a blocking waitpid.
Wait ==
  /\ apc = "pump" /\ fds = {} /\ stage = "exited"
  /\ outcome' = status
  /\ apc' = "settle"
  /\ UNCHANGED <<held, flags, lk, link, wire, childVars>>

\* Mutant: the guard is leaked.
SettleAndLeak ==
  /\ apc = "settle"
  /\ outcome' = IF "refused" \in flags THEN SudoFailedCode ELSE outcome
  /\ apc' = "exit"
  /\ UNCHANGED <<held, flags, lk, link, wire, childVars>>

\* The marker overrides the status the shell came back with.
Settle ==
  /\ apc = "settle"
  /\ outcome' = IF "refused" \in flags THEN SudoFailedCode ELSE outcome
  /\ apc' = "release"
  /\ UNCHANGED <<held, flags, lk, link, wire, childVars>>

\* `execute` returns and drops the guard; only then is the Exit frame sent.
DropGuard ==
  /\ apc = "release"
  /\ lk' = "free" /\ apc' = "exit"
  /\ UNCHANGED <<held, flags, outcome, link, wire, childVars>>

\* Mutant: the Exit frame is sent from within `execute`.
SendExitFirst ==
  /\ apc = "release"
  /\ Send(<<Frame("Exit", outcome)>>)
  /\ apc' = "over"
  /\ UNCHANGED <<held, flags, outcome, lk, link, childVars>>

SendExit ==
  /\ apc = "exit"
  /\ Send(<<Frame("Exit", outcome)>>)
  /\ apc' = "over"
  /\ UNCHANGED <<held, flags, outcome, lk, link, childVars>>

AgentStep ==
  \/ ReadRequest \/ AcquireLock \/ SpawnShell
  \/ ReadMaster \/ MasterEnds \/ ReadErr \/ TryWait \/ EndDrain \/ Wait
  \/ Settle \/ DropGuard \/ SendExit

\* SIGKILL of the agent: no guard is dropped, and the terminals hang up.
KillAgent ==
  /\ CanKill /\ apc \notin Gone
  /\ apc' = "dead"
  /\ fds' = {} /\ pty' = <<>> /\ errpty' = 0
  /\ UNCHANGED <<held, flags, outcome, lk, link, wire, stage, status, echo,
                 typed, daemon, said, erred, noise, bracketed, ran>>

\* The agent is stopped or stuck in a system call, and its host still answers.
HangAgent ==
  /\ CanHang /\ apc \notin Gone \cup {"hung"}
  /\ apc' = "hung"
  /\ UNCHANGED <<held, flags, outcome, lk, link, wire, childVars>>

\* The other run that held the lock ends; only AcquireLock can see it, so it
\* is modelled just before that.
OtherEnds ==
  /\ lk = "other" /\ apc = "lock"
  /\ lk' = "free"
  /\ UNCHANGED <<apc, held, flags, outcome, link, wire, childVars>>

\* No frame comes for as long as this holds: only the pump sends Alive.
Quiet == wire = <<>> /\ (link = "cut" \/ apc # "pump")

AgentTypeOK ==
  /\ ChildTypeOK
  /\ apc \in Gone \cup {"request", "lock", "spawn", "pump", "drain", "settle",
                        "release", "exit", "hung"}
  /\ held \in Seq({p \in Pieces : p.kind \in Forwarded}) /\ Len(held) < HoldLimit
  /\ flags \subseteq {"started", "done", "pwsent", "refused"}
  /\ outcome \in 0..255
  /\ lk \in {"free", "mine", "other"}
  /\ link \in {"none", "up", "cut", "closed"}
  /\ wire \in Seq(Frames)
============================================================================
