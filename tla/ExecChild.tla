----------------------------- MODULE ExecChild -----------------------------
(***************************************************************************)
(* The shell an upgrade runs in: the script crates/agent/src/exec/script.rs *)
(* builds, on the two terminals crates/agent/src/exec/pty.rs opens for it. *)
(*                                                                         *)
(* What the child says is a sequence of pieces: a marker of the wrapper, a *)
(* piece of the command's output (numbered), noise of the login shell, the *)
(* password if the terminal echoes it, or a line of a process the command  *)
(* left behind.  The agent reads them in ExecAgent.                        *)
(***************************************************************************)
EXTENDS Naturals, Sequences

CONSTANTS
  CmdCodes,   \* exit statuses the operator's command may have
  RcCodes,    \* exit statuses with which an rc file may end the login shell
  MaxOut,     \* bound: pieces the command writes to stdout
  MaxErr,     \* bound: pieces the command writes to stderr
  MaxNoise,   \* bound: pieces of noise at start; one more may come at the end
  PtyCap,     \* pieces the stdout terminal buffers before a writer blocks
  Daemons     \* whether the command may leave a process behind on its terminal

SudoFailedCode == 111
KilledCode     == 137

ASSUME ChildAssumption ==
  /\ CmdCodes \subseteq 0..255 /\ RcCodes \subseteq 0..255
  /\ {MaxOut, MaxErr, MaxNoise} \subseteq Nat
  /\ PtyCap \in Nat \ {0}
  /\ Daemons \in BOOLEAN

VARIABLES
  stage,    \* how far the script is
  status,   \* the exit status it will end with
  echo,     \* whether the terminal echoes what is typed
  typed,    \* whether the password waits in the terminal's input
  pty,      \* stdout terminal: pieces written and not read
  errpty,   \* stderr terminal: how many pieces are written and not read
  fds,      \* which terminals the agent still holds open
  daemon,   \* whether a process left behind holds the terminals
  said,     \* history: what the command has written to stdout
  erred,    \* history: how many pieces it has written to stderr
  noise,    \* noise pieces so far
  bracketed,\* history: whether the closing marker was printed
  ran       \* history: how many times the operator's command was started

childVars == <<stage, status, echo, typed, pty, errpty, fds, daemon, said,
               erred, noise, bracketed, ran>>

Mark(k)   == [kind |-> k, n |-> 0]
OutOf(n)  == [kind |-> "out", n |-> n]
Noise     == Mark("noise")
Password  == Mark("password")
LeftOver  == Mark("leftover")
Markers   == {"PwReady", "SudoFailed", "Started", "Done"}
Pieces    == {Mark(k) : k \in Markers \cup {"noise", "password", "leftover"}}
               \cup {OutOf(n) : n \in 1..MaxOut}

Waiting == {"none", "closed", "exited"}   \* not a running shell
Stages  == {"ask", "pwread", "sudo", "boot", "cmd", "unwind", "exiting"}
             \cup Waiting

\* A terminal keeps its slave side while the shell, or a process it left
\* behind, has it open.
SlaveOpen == stage \notin {"closed", "exited"} \/ daemon

\* Writing to the terminal: blocks when it is full, and goes nowhere once the
\* agent's side is closed.
Say(piece) ==
  IF "master" \in fds
    THEN Len(pty) < PtyCap /\ pty' = Append(pty, piece)
    ELSE UNCHANGED pty

ChildInit ==
  /\ stage = "none" /\ status = 0
  /\ echo = TRUE /\ typed = FALSE
  /\ pty = <<>> /\ errpty = 0 /\ fds = {}
  /\ daemon = FALSE
  /\ said = <<>> /\ erred = 0 /\ noise = 0 /\ bracketed = FALSE /\ ran = 0

---------------------------------------------------------------------------
\* Mutant: the marker without stty -echo.
AskWithEcho ==
  /\ stage = "ask"
  /\ Say(Mark("PwReady"))
  /\ stage' = "pwread"
  /\ UNCHANGED <<status, echo, typed, errpty, fds, daemon, said, erred, noise,
                 bracketed, ran>>

\* stty -echo, then the marker: never the other way round.
Ask ==
  /\ stage = "ask"
  /\ Say(Mark("PwReady"))
  /\ echo' = FALSE
  /\ stage' = "pwread"
  /\ UNCHANGED <<status, typed, errpty, fds, daemon, said, erred, noise,
                 bracketed, ran>>

\* read -r __mt_pw; stty echo.
ReadPw ==
  /\ stage = "pwread" /\ typed
  /\ typed' = FALSE /\ echo' = TRUE
  /\ stage' = "sudo"
  /\ UNCHANGED <<status, pty, errpty, fds, daemon, said, erred, noise,
                 bracketed, ran>>

\* sudo -S -v: either goes on to the login shell or ends the script.
Sudo ==
  /\ stage = "sudo"
  /\ \/ stage' = "boot" /\ UNCHANGED <<status, pty>>
     \/ /\ Say(Mark("SudoFailed"))
        /\ status' = SudoFailedCode
        /\ stage' = "exiting"
  /\ UNCHANGED <<echo, typed, errpty, fds, daemon, said, erred, noise,
                 bracketed, ran>>

\* The login shell's own output, on its way in and on its way out.
MakeNoise ==
  /\ \/ stage = "boot" /\ noise < MaxNoise
     \/ stage = "unwind" /\ noise <= MaxNoise
  /\ Say(Noise)
  /\ noise' = noise + 1
  /\ UNCHANGED <<stage, status, echo, typed, errpty, fds, daemon, said, erred,
                 bracketed, ran>>

\* An rc file ends the shell before the command is reached.
RcExit ==
  /\ stage = "boot"
  /\ status' \in RcCodes
  /\ stage' = "exiting"
  /\ UNCHANGED <<echo, typed, pty, errpty, fds, daemon, said, erred, noise,
                 bracketed, ran>>

\* echo __multitop_started__; eval ...
Start ==
  /\ stage = "boot"
  /\ Say(Mark("Started"))
  /\ stage' = "cmd"
  /\ ran' = ran + 1
  /\ UNCHANGED <<status, echo, typed, errpty, fds, daemon, said, erred, noise,
                 bracketed>>

CmdOut ==
  /\ stage = "cmd" /\ Len(said) < MaxOut
  /\ Say(OutOf(Len(said) + 1))
  /\ said' = Append(said, OutOf(Len(said) + 1))
  /\ UNCHANGED <<stage, status, echo, typed, errpty, fds, daemon, erred, noise,
                 bracketed, ran>>

CmdErr ==
  /\ stage = "cmd" /\ erred < MaxErr
  /\ erred' = erred + 1
  /\ errpty' = IF "errpipe" \in fds THEN errpty + 1 ELSE errpty
  /\ UNCHANGED <<stage, status, echo, typed, pty, fds, daemon, said, noise,
                 bracketed, ran>>

\* The command leaves a process behind that keeps the terminals open.
Fork ==
  /\ Daemons /\ stage = "cmd" /\ ~daemon
  /\ daemon' = TRUE
  /\ UNCHANGED <<stage, status, echo, typed, pty, errpty, fds, said, erred,
                 noise, bracketed, ran>>

\* __mt_rc=$?; echo __multitop_done__.
Done ==
  /\ stage = "cmd"
  /\ status' \in CmdCodes
  /\ Say(Mark("Done"))
  /\ bracketed' = TRUE
  /\ stage' = "unwind"
  /\ UNCHANGED <<echo, typed, errpty, fds, daemon, said, erred, noise, ran>>

\* The command itself says `exit`: eval runs in the shell, so no marker.
CmdExits ==
  /\ stage = "cmd"
  /\ status' \in CmdCodes
  /\ stage' = "unwind"
  /\ UNCHANGED <<echo, typed, pty, errpty, fds, daemon, said, erred, noise,
                 bracketed, ran>>

\* exit $__mt_rc, closing the terminals, and becoming a zombie: three moments
\* the agent can look at in between.
Exit ==
  /\ \/ stage = "unwind" /\ stage' = "exiting"
     \/ stage = "exiting" /\ stage' = "closed"
     \/ stage = "closed" /\ stage' = "exited"
  /\ UNCHANGED <<status, echo, typed, pty, errpty, fds, daemon, said, erred,
                 noise, bracketed, ran>>

\* SIGKILL, the OOM killer, or SIGHUP when the agent's side is gone.
Killed ==
  /\ stage \notin Waiting
  /\ status' = KilledCode
  /\ stage' = "closed"
  /\ UNCHANGED <<echo, typed, pty, errpty, fds, daemon, said, erred, noise,
                 bracketed, ran>>

\* The process left behind writes on after the shell has said it is done.
DaemonSpeaks ==
  /\ daemon /\ stage \in {"exiting", "closed", "exited"}
  /\ bracketed
  /\ "master" \in fds
  /\ Say(LeftOver)
  /\ UNCHANGED <<stage, status, echo, typed, errpty, fds, daemon, said, erred,
                 noise, bracketed, ran>>

DaemonEnds ==
  /\ daemon
  /\ daemon' = FALSE
  /\ UNCHANGED <<stage, status, echo, typed, pty, errpty, fds, said, erred,
                 noise, bracketed, ran>>

\* The steps the script takes by itself once started.
ScriptStep ==
  \/ Ask \/ ReadPw \/ Sudo \/ MakeNoise \/ RcExit \/ Start \/ CmdOut \/ CmdErr
  \/ Done \/ CmdExits \/ Exit

ChildStep == ScriptStep \/ Fork \/ Killed \/ DaemonSpeaks \/ DaemonEnds

ChildTypeOK ==
  /\ stage \in Stages /\ status \in 0..255
  /\ echo \in BOOLEAN /\ typed \in BOOLEAN
  /\ pty \in Seq(Pieces) /\ Len(pty) <= PtyCap
  /\ erred \in 0..MaxErr /\ errpty \in 0..erred
  /\ fds \subseteq {"master", "errpipe"}
  /\ daemon \in BOOLEAN /\ bracketed \in BOOLEAN
  /\ said \in Seq(Pieces) /\ Len(said) <= MaxOut
  /\ noise \in 0..(MaxNoise + 1) /\ ran \in Nat
============================================================================
