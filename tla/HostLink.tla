------------------------------ MODULE HostLink ------------------------------
(***************************************************************************)
(* A panel's link to its host: the task that connects to the agent, reads  *)
(* its packets and reconnects (run/spawn.rs spawn_monitor, tasks/spawn.rs  *)
(* spawn_fetch and spawn_docker, stream/prod.rs), and the agent's sampling *)
(* loop at the other end (agent lib.rs monitor_loop, emit.rs,              *)
(* stdin_watch.rs).                                                        *)
(*                                                                         *)
(* A packet is two halves of a header and a body, and arrives piece by     *)
(* piece.  What ssh or the agent has to say about an end is a line on      *)
(* stderr.                                                                 *)
(***************************************************************************)
EXTENDS Naturals, Sequences, FiniteSets

CONSTANTS
  Agents,      \* what may be found in the agent's place on the host
  MaxResizes,  \* bound of the panel's resizes
  MaxFailures  \* index of the last entry of RECONNECT_BACKOFF

ASSUME LinkAssumption ==
  /\ Agents \subseteq {"same", "newer", "incompatible", "older", "invalid", "no_hello",
                      "no_version", "banner", "repeats"}
  /\ MaxFailures \in Nat

VARIABLES
  task,     \* the task: its mode, where it is, what it knows of the session
  failures, \* reconnect_wait's count
  errbuf,   \* the last of the lines kept of stderr
  shown,    \* what the panel says last
  linkPanel,    \* the panel's size, and how often it was changed
  told,     \* the size the agent was told
  far,      \* pieces written by the agent that have not arrived
  near,     \* pieces that have arrived
  stderr,   \* lines of stderr
  stdin,    \* size lines on their way to the agent
  agent,    \* the agent's process: whether it runs, its build and panel size
  onHost,   \* what is installed on the host
  dry,      \* history: sessions in a row that delivered nothing
  spoke,    \* history: a line was written to stderr in this session
  torn      \* history: a header was dropped between its halves

linkVars == <<task, failures, errbuf, shown, linkPanel, told, far, near, stderr, stdin,
              agent, onHost, dry, spoke, torn>>

Half == {"head", "tail"}
MonitorPacket(p) == <<[part |-> "head", of |-> p], [part |-> "tail", of |-> p],
               [part |-> "body", of |-> p]>>
LinkText == <<[part |-> "text", of |-> "text"], [part |-> "text", of |-> "text"]>>

NoSession == [pending |-> FALSE, half |-> FALSE, text |-> FALSE, hello |-> FALSE,
              checked |-> FALSE, mismatch |-> FALSE, delivered |-> FALSE]
Down == [up |-> FALSE, build |-> "same", size |-> 0, greeted |-> FALSE]

LinkInit ==
  /\ onHost \in Agents
  /\ \E mode \in {"monitor", "once"} :
       task = [mode |-> mode, pc |-> "connect", s |-> NoSession]
  /\ failures = 0 /\ errbuf = "nothing" /\ shown = "nothing"
  /\ linkPanel = [size |-> 1, resizes |-> 0] /\ told = 0
  /\ far = <<>> /\ near = <<>> /\ stderr = <<>> /\ stdin = <<>>
  /\ agent = Down
  /\ dry = 0 /\ spoke = FALSE /\ torn = FALSE

At(pc) == task.pc = pc
Goto(pc) == task' = [task EXCEPT !.pc = pc]

wires == <<far, near, stderr, stdin>>
outside == <<linkPanel, onHost, agent>>
history == <<dry, spoke, torn>>

\* Nothing more will come on stdout.
Closed == ~agent.up /\ far = <<>> /\ near = <<>>

---------------------------------------------------------------------------
\* connect: ssh starts what is on the host, or does not get there.
Connect ==
  /\ At("connect")
  /\ \/ /\ agent' = [Down EXCEPT !.up = TRUE, !.build = onHost]
        /\ task' = [task EXCEPT !.pc = "handshake", !.s = NoSession]
        /\ UNCHANGED shown
     \/ /\ Goto("end") /\ shown' = "no_connection"
        /\ UNCHANGED agent
  /\ errbuf' = "nothing"
  /\ told' = 0 /\ far' = <<>> /\ near' = <<>> /\ stderr' = <<>> /\ stdin' = <<>>
  /\ spoke' = FALSE /\ torn' = FALSE
  /\ UNCHANGED <<failures, linkPanel, onHost, dry>>

\* read_handshake: four bytes, and the rest of a line if they are not the magic.
ReadHandshake ==
  /\ At("handshake")
  /\ \/ /\ near # <<>> /\ Head(near).part = "head"
        /\ near' = Tail(near)
        /\ task' = [task EXCEPT !.pc = "header", !.s.pending = TRUE]
        /\ UNCHANGED <<shown, stderr>>
     \/ /\ near # <<>> /\ Head(near).part = "text"
        /\ near' = Tail(near)
        /\ task' = [task EXCEPT !.pc = "header", !.s.text = TRUE]
        /\ UNCHANGED <<shown, stderr>>
     \/ /\ Closed
        /\ Goto("end")
        /\ shown' = IF stderr = <<>> THEN "closed" ELSE stderr[Len(stderr)]
        /\ stderr' = <<>>
        /\ UNCHANGED near
  /\ UNCHANGED <<failures, errbuf, told, far, stdin>> /\ UNCHANGED outside
  /\ UNCHANGED history

\* Where a session's end is reported.
Stop(reason) == Goto("report") /\ errbuf' = reason

\* read_packet: a header, for as long as it takes, and stderr beside it.  A line
\* of stderr drops the read of a header that is half there.
ReadHeader ==
  /\ At("header")
  /\ LET need == IF task.s.pending \/ task.s.half THEN 1 ELSE 2
         good == /\ near[need].part = "tail"
                 /\ need = 2 => near[1].part = "head"
     IN \/ /\ Len(near) >= need /\ good
           /\ near' = SubSeq(near, need + 1, Len(near))
           /\ task' = [task EXCEPT !.pc = "body", !.s.pending = FALSE, !.s.half = FALSE]
           /\ UNCHANGED <<errbuf, stderr>>
        \/ /\ Len(near) >= need /\ ~good
           /\ near' = SubSeq(near, need + 1, Len(near))
           /\ Stop(IF task.s.text THEN "text" ELSE "framing_lost")
           /\ UNCHANGED stderr
        \/ /\ Len(near) = 1 /\ need = 2
           /\ near' = <<>>
           /\ task' = [task EXCEPT !.s.half = TRUE]
           /\ UNCHANGED <<errbuf, stderr>>
  /\ UNCHANGED <<failures, shown, told, far, stdin>> /\ UNCHANGED outside
  /\ UNCHANGED history

ReadLinkStderr ==
  /\ At("header") /\ ~task.s.pending /\ stderr # <<>>
  /\ errbuf' = Head(stderr) /\ stderr' = Tail(stderr)
  /\ task' = [task EXCEPT !.s.half = FALSE]
  /\ torn' = (torn \/ task.s.half)
  /\ UNCHANGED <<failures, shown, told, far, near, stdin, dry, spoke>> /\ UNCHANGED outside

\* Mutant: the end of stdout is all there is to an end.
EndAtOnce ==
  /\ At("header") /\ Closed
  /\ Stop(errbuf) /\ stderr' = <<>>
  /\ UNCHANGED <<failures, shown, told, far, near, stdin>> /\ UNCHANGED outside
  /\ UNCHANGED history

\* The end of stdout in a header: drain_stderr.
EndInHeader ==
  /\ At("header") /\ Closed
  /\ Stop(IF stderr = <<>> THEN errbuf ELSE stderr[Len(stderr)])
  /\ stderr' = <<>>
  /\ UNCHANGED <<failures, shown, told, far, near, stdin>> /\ UNCHANGED outside
  /\ UNCHANGED history

EndInBody ==
  /\ At("body") /\ Closed
  /\ Stop("read_failed")
  /\ UNCHANGED <<failures, shown, told>> /\ UNCHANGED wires /\ UNCHANGED outside
  /\ UNCHANGED history

---------------------------------------------------------------------------
\* tell_size, at every packet.  Mutant: only the first size is told.
TellFirst ==
  IF told = 0 /\ agent.up
    THEN told' = linkPanel.size /\ stdin' = Append(stdin, linkPanel.size)
    ELSE UNCHANGED <<told, stdin>>
TellSize ==
  IF told # linkPanel.size /\ agent.up
    THEN told' = linkPanel.size /\ stdin' = Append(stdin, linkPanel.size)
    ELSE UNCHANGED <<told, stdin>>

\* needs_replacement of a Hello that is valid: of an older agent, and of a newer
\* one whose protocol does not reach back to this program's.
NeedsReplacement(build) == build \in {"older", "incompatible"}

\* The version of an agent without a Hello is that of its first frame.
Outdated(build) == build \notin {"same", "no_version"}

\* handle_verdict of what was read.  A verdict is to go on, or to end: for a
\* second Hello, or because the agent has to be replaced.
Verdict(p, s) ==
  CASE p = "hello" /\ s.hello -> "duplicate"
    [] p = "hello" /\ ~s.hello /\ agent.build = "invalid" -> "mismatch"
    [] p = "hello" /\ ~s.hello /\ agent.build # "invalid" ->
         IF ~s.checked /\ NeedsReplacement(agent.build) THEN "mismatch" ELSE "skip"
    [] p = "frame" -> IF ~s.checked /\ Outdated(agent.build) THEN "mismatch" ELSE "proceed"

\* What is known of the session after it.
Known(p, s) == [s EXCEPT !.hello = @ \/ p = "hello",
                         !.checked = @ \/ p # "hello" \/ agent.build # "invalid"]

On(pc, s) == task' = [task EXCEPT !.pc = pc, !.s = s]

\* One packet of a monitor.
ReadMonitor(p) ==
  LET v == Verdict(p, task.s)
      s == Known(p, task.s)
  IN \/ v = "skip" /\ On("header", s) /\ UNCHANGED shown
     \/ v = "proceed" /\ On("header", [s EXCEPT !.delivered = TRUE]) /\ shown' = "frame"
     \/ v = "mismatch" /\ On("replace", [s EXCEPT !.mismatch = TRUE]) /\ shown' = "mismatch"
     \/ v = "duplicate" /\ On("report", s) /\ shown' = "duplicate"

\* One packet of spawn_fetch or spawn_docker, which only says what it thinks of
\* the version.
ReadOnce(p) ==
  /\ task' = [task EXCEPT !.pc = "header", !.s.delivered = @ \/ p = "frame"]
  /\ shown' = IF p = "frame" THEN "frame"
              ELSE IF NeedsReplacement(agent.build) \/ agent.build = "invalid" THEN "mismatch"
              ELSE shown

\* interpret_packet may find a packet it cannot read.
ReadBody ==
  /\ At("body") /\ near # <<>>
  /\ near' = Tail(near)
  /\ LET p == Head(near).of
     IN \/ /\ (IF task.mode = "monitor" THEN ReadMonitor(p) /\ TellSize
                                       ELSE ReadOnce(p) /\ UNCHANGED <<told, stdin>>)
           /\ UNCHANGED errbuf
        \/ agent.build \in {"newer", "incompatible"} /\ Stop("unreadable") /\ UNCHANGED <<shown, told, stdin>>
  /\ UNCHANGED <<failures, far, stderr>> /\ UNCHANGED outside /\ UNCHANGED history

---------------------------------------------------------------------------
\* The session is over: the stream is dropped, and ssh with it.
Dropped == far' = <<>> /\ near' = <<>> /\ stdin' = <<>> /\ agent' = Down

\* What a monitor says of an end that was not its own, and a fetch of every one.
Report ==
  /\ At("report")
  /\ Goto("end")
  /\ shown' = IF task.mode = "once" /\ errbuf = "nothing" THEN shown
              ELSE IF errbuf = "nothing" THEN "closed" ELSE errbuf
  /\ UNCHANGED <<failures, errbuf, told, linkPanel, onHost, agent>> /\ UNCHANGED wires
  /\ UNCHANGED history

\* replacement_line: an install that works, or does not, or is not tried.
Replace ==
  /\ At("replace")
  /\ Goto("end")
  /\ \/ shown' = "replaced" /\ onHost' \in {"same"} \cap Agents
     \/ shown' = "not_replaced" /\ UNCHANGED onHost
  /\ UNCHANGED <<failures, errbuf, told, linkPanel, agent>> /\ UNCHANGED wires /\ UNCHANGED history

\* reconnect_wait: only what was delivered starts the count again.
Progress == IF task.s.delivered THEN 0 ELSE failures

Least(a, b) == IF a < b THEN a ELSE b

End ==
  /\ At("end")
  /\ Dropped /\ stderr' = <<>>
  /\ task' = [task EXCEPT !.pc = IF task.mode = "monitor" THEN "wait" ELSE "done", !.s = NoSession]
  /\ failures' = Least(Progress + 1, MaxFailures + 1)
  /\ dry' = IF task.s.delivered THEN 0 ELSE Least(dry + 1, MaxFailures + 1)
  /\ UNCHANGED <<errbuf, shown, linkPanel, told, onHost, spoke, torn>>

\* The wait that failures selects is over.
Wake ==
  /\ At("wait")
  /\ Goto("connect")
  /\ UNCHANGED <<failures, errbuf, shown, told>> /\ UNCHANGED wires /\ UNCHANGED outside
  /\ UNCHANGED history

---------------------------------------------------------------------------
\* The agent.  A Hello, if it knows of them, and a frame at every tick; a fetch
\* ends after its one frame.  One that only ever says Hello stands for a broken
\* one.  The pipe holds one packet.
Greets == agent.build \in {"same", "newer", "incompatible", "older", "invalid", "repeats"}

Emit ==
  /\ agent.up /\ far = <<>>
  /\ \/ /\ agent.build = "banner" /\ ~agent.greeted
        /\ far' = LinkText /\ agent' = [agent EXCEPT !.greeted = TRUE]
     \/ /\ agent.build # "banner" /\ Greets /\ ~agent.greeted
        /\ far' = MonitorPacket("hello")
        /\ agent' = [agent EXCEPT !.greeted = @ \/ agent.build # "repeats"]
     \/ /\ agent.build # "banner" /\ (Greets => agent.greeted)
        /\ far' = MonitorPacket("frame")
        /\ agent' = IF task.mode = "once" THEN [agent EXCEPT !.up = FALSE] ELSE agent
  /\ UNCHANGED <<task, failures, errbuf, shown, linkPanel, told, near, stderr, stdin, onHost>>
  /\ UNCHANGED history

\* A shell that prints a banner goes on to end.
BannerEnds ==
  /\ agent.up /\ agent.build = "banner" /\ agent.greeted
  /\ agent' = [agent EXCEPT !.up = FALSE]
  /\ UNCHANGED <<task, failures, errbuf, shown, linkPanel, told, onHost>> /\ UNCHANGED wires
  /\ UNCHANGED history

Arrive ==
  /\ far # <<>> /\ Len(near) < 3
  /\ near' = Append(near, Head(far)) /\ far' = Tail(far)
  /\ UNCHANGED <<task, failures, errbuf, shown, told, stderr, stdin>> /\ UNCHANGED outside
  /\ UNCHANGED history

\* read_commands: the watcher's thread sets the size the next tick samples for.
Resized ==
  /\ agent.up /\ stdin # <<>>
  /\ agent' = [agent EXCEPT !.size = Head(stdin)] /\ stdin' = Tail(stdin)
  /\ UNCHANGED <<task, failures, errbuf, shown, linkPanel, told, far, near, stderr, onHost>>
  /\ UNCHANGED history

\* The agent has something to say, and goes on.
Chatter ==
  /\ agent.up /\ ~spoke
  /\ stderr' = Append(stderr, "chatter") /\ spoke' = TRUE
  /\ UNCHANGED <<task, failures, errbuf, shown, told, far, near, stdin, dry, torn>>
  /\ UNCHANGED outside

\* The agent dies or the connection goes: what is under way is cut anywhere, and
\* the reason is there or not.
Cut ==
  /\ agent.up
  /\ agent' = [agent EXCEPT !.up = FALSE]
  /\ \E n \in 0..Len(far) : far' = SubSeq(far, 1, n)
  /\ \/ stderr' = Append(stderr, "reason") /\ spoke' = TRUE
     \/ UNCHANGED <<stderr, spoke>>
  /\ stdin' = <<>>
  /\ UNCHANGED <<task, failures, errbuf, shown, linkPanel, told, near, onHost, dry, torn>>

ResizePanel ==
  /\ linkPanel.resizes < MaxResizes
  /\ linkPanel' = [size |-> 3 - linkPanel.size, resizes |-> linkPanel.resizes + 1]
  /\ UNCHANGED <<task, failures, errbuf, shown, told, onHost, agent>> /\ UNCHANGED wires
  /\ UNCHANGED history

ReadOn == \/ Connect \/ ReadHandshake \/ ReadHeader \/ ReadLinkStderr \/ EndInHeader \/ EndInBody
        \/ ReadBody \/ Report \/ Replace \/ End \/ Wake
LinkNext == ReadOn \/ Emit \/ BannerEnds \/ Arrive \/ Resized \/ Chatter \/ Cut \/ ResizePanel

LinkSpec == LinkInit /\ [][LinkNext]_linkVars

\* The executor polls the task, the kernel and ssh move bytes, and the agent's
\* loop and its watcher run.
LinkFairness == /\ WF_linkVars(ReadOn) /\ WF_linkVars(Emit) /\ WF_linkVars(BannerEnds)
                /\ WF_linkVars(Arrive) /\ WF_linkVars(Resized)
LinkFairSpec == LinkSpec /\ LinkFairness
---------------------------------------------------------------------------
\* handshake_verdict: a panel shows no frame of an agent that is older than the
\* program, or speaks another protocol.
NoFrameOfAnOlder ==
  task.mode = "monitor" /\ task.s.delivered
    => agent.build \notin {"older", "invalid", "no_hello", "incompatible"}

\* needs_replacement: a newer agent whose Hello is compatible is never replaced by
\* an older one.
NeverDowngrades == [][onHost = "newer" => onHost' = "newer"]_linkVars

\* drain_stderr: an end is shown as a mere close only when nobody said why.
EndIsExplained ==
  shown = "closed" /\ At("end") /\ task.mode = "monitor" /\ agent.build # "repeats"
    => ~spoke

\* spawn_monitor: an end that the task made itself, with the agent still there, is
\* not reported as `Connection to <host> closed`.
OwnEndIsNotAClose == At("end") /\ agent.up => shown # "closed"

\* read_packet: the stream loses its framing only to text in its place, or to a
\* line of stderr between the halves of a header.
FramingIsKept == errbuf = "framing_lost" => torn

\* reconnect_wait: the wait grows with the sessions that delivered nothing, also
\* of a host that accepts every connection.
BackoffGrows ==
  At("wait") => Least(dry, MaxFailures + 1) <= failures /\ failures <= dry + 1

\* tell_size: an agent that goes on sampling samples for the panel's size.
SizeArrives ==
  <>[](task.mode = "monitor" /\ task.pc \in {"header", "body"} /\ agent.up)
    => []<>(agent.size = linkPanel.size)

\* spawn_monitor: a panel always gets another frame or another session.
KeepsTrying == task.mode = "monitor" => []<>(At("connect") \/ shown = "frame")
=============================================================================
