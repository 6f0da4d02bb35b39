----------------------------- MODULE HostActions -----------------------------
(***************************************************************************)
(* Actions on a host: a key arms kill, journal or renice for the process   *)
(* at the top of a panel, a second key confirms it (run/confirm_keys.rs);  *)
(* a tail needs no confirmation, and a panel with a command of its own     *)
(* runs it again and again (tasks/kill.rs).  Each is a task that runs one  *)
(* command through the agent, which it installs once if there is none      *)
(* (tasks/exec_runner.rs), and tells the panel by messages with the        *)
(* generation it was started with (app/apply.rs).                          *)
(*                                                                         *)
(* The server list may be replaced meanwhile: the panels are then new, and *)
(* the tasks of the old ones are still there.  Panels stay in the Monitor  *)
(* view, or the Fetch view for a custom one.                               *)
(***************************************************************************)
EXTENDS Integers, Sequences, FiniteSets, SequencesExt, FiniteSetsExt

CONSTANTS
  Panels, ActHosts, Pids,
  FirstHost,   \* [Panels -> Hosts]
  MaxGen,      \* bound of the generations
  MaxFaults,   \* bound of links that die or close, and spawns and installs that fail
  MaxWire      \* bound of messages and of the lines of a view

ASSUME ActionsAssumption ==
  /\ FirstHost \in [Panels -> ActHosts]
  /\ {MaxGen, MaxFaults, MaxWire} \subseteq Nat /\ 0 \notin Pids

VARIABLES
  panels,   \* App::panels: the host, the generation, the top process listed, the pane
  keys,     \* what owns the keys: grid, palette or passwords; and kill_confirm
  aux,      \* Tasks::aux, with the session of each
  msgs,     \* the channel to the app
  agents,   \* the hosts that have the agent
  faults,
  ran       \* history: the commands that hosts have run

actVars == <<panels, keys, aux, msgs, agents, faults, ran>>

NoConfirm == [kind |-> "none"]
NoTask == [kind |-> "none"]
Kinds == {"kill", "journal", "renice"}
Followed == {"journal", "tail"}   \* commands that do not end

\* What a task is to do, or a confirmation names.
Deed(kind, host, pid) == [kind |-> kind, host |-> host, pid |-> pid]

NewTask(kind, g, host, pid, named) ==
  [kind |-> kind, gen |-> g, host |-> host, pid |-> pid, named |-> named, at |-> "begin",
   attempt |-> 1, link |-> "none", began |-> FALSE, wire |-> <<>>, need |-> FALSE,
   note |-> "none"]

ActInit ==
  /\ \E custom \in SUBSET Panels :
       /\ panels = [p \in Panels |-> [host |-> FirstHost[p], gen |-> 0, top |-> 0, view |-> <<>>,
                                      custom |-> p \in custom]]
       /\ aux = [p \in Panels |-> IF p \in custom
                                  THEN NewTask("custom", 0, FirstHost[p], 0,
                                               Deed("custom", FirstHost[p], 0))
                                  ELSE NoTask]
  /\ keys = [at |-> "grid", confirm |-> NoConfirm]
  /\ msgs = <<>>
  /\ agents = {} /\ faults = 0 /\ ran = <<>>

---------------------------------------------------------------------------
\* The app.

\* set_aux with bump: the task that was there is aborted, and its ssh killed.
Start(p, kind, pid, named) ==
  /\ panels[p].gen < MaxGen
  /\ panels' = [panels EXCEPT ![p].gen = @ + 1]
  /\ aux' = [aux EXCEPT ![p] = NewTask(kind, panels[p].gen + 1, panels[p].host, pid, named)]
  /\ UNCHANGED <<msgs, agents, faults, ran>>

\* on_packet, of a monitor: the frame takes the pane.
Packet(p) ==
  /\ ~panels[p].custom
  /\ \E pid \in Pids : panels' = [panels EXCEPT ![p].top = pid, ![p].view = <<>>]
  /\ UNCHANGED <<keys, aux, msgs, agents, faults, ran>>

\* overlay_keys come first, then confirmation_keys, then those of the panel's
\* passwords screen, then the rest.
Free == keys.at = "grid" /\ keys.confirm = NoConfirm

\* process_keys.
Arm(p) ==
  /\ Free /\ panels[p].top # 0 /\ panels[p].gen < MaxGen
  /\ \E kind \in Kinds :
       keys' = [keys EXCEPT !.confirm = [kind |-> kind, panel |-> p, pid |-> panels[p].top,
                                         host |-> panels[p].host]]
  /\ UNCHANGED <<panels, aux, msgs, agents, faults, ran>>

\* Mutant: the process at the top of the panel now.
ConfirmTopNow ==
  /\ keys.at # "palette" /\ keys.confirm # NoConfirm
  /\ LET c == keys.confirm
     IN Start(c.panel, c.kind, panels[c.panel].top, Deed(c.kind, c.host, c.pid))
  /\ keys' = [keys EXCEPT !.confirm = NoConfirm]

\* kill_confirm_keys: the key that the row names; any other keeps it armed.
ConfirmAct ==
  /\ keys.at # "palette" /\ keys.confirm # NoConfirm
  /\ LET c == keys.confirm
     IN Start(c.panel, c.kind, c.pid, Deed(c.kind, c.host, c.pid))
  /\ keys' = [keys EXCEPT !.confirm = NoConfirm]
StandDown ==
  /\ keys.at # "palette" /\ keys.confirm # NoConfirm
  /\ keys' = [keys EXCEPT !.confirm = NoConfirm]
  /\ UNCHANGED <<panels, aux, msgs, agents, faults, ran>>

\* The l key.
TailLog(p) ==
  Free /\ Start(p, "tail", 0, Deed("tail", panels[p].host, 0)) /\ UNCHANGED keys

\* The palette opens over a confirmation; "add server" and the e key open the
\* passwords screen.
Overlay ==
  /\ \/ keys.at # "palette" /\ keys' = [keys EXCEPT !.at = "palette"]
     \/ keys.at = "palette" /\ \E to \in {"grid", "passwords"} : keys' = [keys EXCEPT !.at = to]
     \/ Free /\ keys' = [keys EXCEPT !.at = "passwords"]
     \/ keys.at = "passwords" /\ keys.confirm = NoConfirm /\ keys' = [keys EXCEPT !.at = "grid"]
  /\ UNCHANGED <<panels, aux, msgs, agents, faults, ran>>

\* replace_panels: the generation of every new panel.
GenOfNew == 1 + Max({panels[p].gen : p \in Panels})

\* Mutant: the passwords screen takes its keys before the confirmation.
MayEditAlways == keys.at = "passwords"
MayEdit == keys.at = "passwords" /\ keys.confirm = NoConfirm

\* write_servers, restart_all_agents: the monitors are started anew, and the
\* other tasks are still there.
EditServers ==
  /\ MayEdit
  /\ GenOfNew <= MaxGen
  /\ \E h \in [Panels -> ActHosts] :
       panels' = [p \in Panels |-> [host |-> h[p], gen |-> GenOfNew, top |-> 0, view |-> <<>>,
                                   custom |-> FALSE]]
  /\ UNCHANGED <<keys, aux, msgs, agents, faults, ran>>

\* on_aux_begin, on_aux_line, on_aux_done, of the message at the head.
Apply ==
  /\ msgs # <<>>
  /\ LET m == Head(msgs)
         p == panels[m.panel]
         entry == [host |-> m.host, gen |-> m.gen, what |-> m.what]
     IN panels' = IF p.gen # m.gen THEN panels
                  ELSE [panels EXCEPT ![m.panel].view =
                          IF m.what = "begin" THEN <<entry>>
                          ELSE IF Len(@) < MaxWire THEN Append(@, entry) ELSE Append(Tail(@), entry)]
  /\ msgs' = Tail(msgs)
  /\ UNCHANGED <<keys, aux, agents, faults, ran>>

---------------------------------------------------------------------------
\* The task, and the session that it reads.
AtTask(p, at) == aux[p].kind # "none" /\ aux[p].at = at
Becomes(p, t) == aux' = [aux EXCEPT ![p] = t]
Send(p, what) ==
  /\ Len(msgs) < MaxWire
  /\ msgs' = Append(msgs, [panel |-> p, gen |-> aux[p].gen, host |-> aux[p].host, what |-> what])
ActFault == faults < MaxFaults /\ faults' = faults + 1

\* generic_exec, attempt_once.
Begin(p) ==
  /\ AtTask(p, "begin")
  /\ Send(p, "begin")
  /\ Becomes(p, [aux[p] EXCEPT !.at = "spawn"])
  /\ UNCHANGED <<panels, keys, agents, faults, ran>>
SpawnExec(p) ==
  /\ AtTask(p, "spawn")
  /\ Becomes(p, [aux[p] EXCEPT !.at = "drain", !.link = "up", !.began = FALSE, !.need = FALSE])
  /\ UNCHANGED <<panels, keys, msgs, agents, faults, ran>>
SpawnFails(p) ==
  /\ AtTask(p, "spawn")
  /\ ActFault
  /\ Send(p, "error")
  /\ Becomes(p, [aux[p] EXCEPT !.at = "done", !.note = "failed"])
  /\ UNCHANGED <<panels, keys, agents, ran>>

\* The host: without the agent the bootstrap says so and nothing is run.
HostRuns(p) ==
  /\ AtTask(p, "drain") /\ aux[p].link = "up" /\ ~aux[p].began
  /\ LET t == [aux[p] EXCEPT !.began = TRUE]
     IN IF t.host \notin agents
        THEN Becomes(p, [t EXCEPT !.need = TRUE, !.link = "closed"]) /\ UNCHANGED ran
        ELSE /\ IF t.kind \in Followed THEN Becomes(p, [t EXCEPT !.wire = <<"line">>])
                ELSE \E exit \in {"exit_0", "exit_1"} :
                       Becomes(p, [t EXCEPT !.wire = <<"line", exit>>, !.link = "closed"])
             /\ ran' = IF t.kind = "custom" THEN ran
                       ELSE Append(ran, [panel |-> p, gen |-> t.gen,
                                         did |-> Deed(t.kind, t.host, t.pid), named |-> t.named])
  /\ UNCHANGED <<panels, keys, msgs, agents, faults>>
\* What is on its way is lost; the link falls silent, or ends.
LinkBreaks(p) ==
  /\ AtTask(p, "drain") /\ aux[p].link # "dead"
  /\ ActFault
  /\ \E n \in 0..Len(aux[p].wire), link \in {"dead", "closed"} :
       Becomes(p, [aux[p] EXCEPT !.wire = SubSeq(@, 1, n), !.link = link, !.began = TRUE])
  /\ UNCHANGED <<panels, keys, msgs, agents, ran>>

\* Mutant: ssh keeps a silent link for ever.
GivesUpNever == FALSE
\* ServerAliveInterval, ServerAliveCountMax.
GivesUp == TRUE
SshGivesUp(p) ==
  /\ aux[p].kind # "none" /\ aux[p].link = "dead" /\ GivesUp
  /\ Becomes(p, [aux[p] EXCEPT !.link = "closed"])
  /\ UNCHANGED <<panels, keys, msgs, agents, faults, ran>>

\* drain_stdout: frames until the exit, the end, or 30 s of silence.
ReadLine(p) ==
  /\ AtTask(p, "drain") /\ aux[p].wire # <<>>
  /\ Head(aux[p].wire) = "line"
  /\ Send(p, "line")
  /\ Becomes(p, [aux[p] EXCEPT !.wire = Tail(@)])
  /\ UNCHANGED <<panels, keys, agents, faults, ran>>
ReadExit(p) ==
  /\ AtTask(p, "drain") /\ aux[p].wire # <<>>
  /\ Head(aux[p].wire) # "line"
  /\ Becomes(p, [aux[p] EXCEPT !.wire = <<>>, !.at = "stderr", !.note = Head(aux[p].wire)])
  /\ UNCHANGED <<panels, keys, msgs, agents, faults, ran>>
ReadEnd(p) ==
  /\ AtTask(p, "drain") /\ aux[p].wire = <<>> /\ aux[p].link = "closed"
  /\ Becomes(p, [aux[p] EXCEPT !.at = "stderr", !.note = "finished"])
  /\ UNCHANGED <<panels, keys, msgs, agents, faults, ran>>
Stall(p) ==
  /\ AtTask(p, "drain") /\ aux[p].wire = <<>> /\ aux[p].link = "dead"
  /\ Send(p, "error")
  /\ Becomes(p, [aux[p] EXCEPT !.at = "stderr", !.note = "stalled"])
  /\ UNCHANGED <<panels, keys, agents, faults, ran>>

\* Mutant: a run that ended without a status is tried again, too.
RetriesUnanswered(t) == t.attempt = 1 /\ (t.need \/ t.note = "finished")
\* One more attempt, when the bootstrap has said that there is no agent.
Retries(t) == t.need /\ t.attempt = 1

\* read_need_agent reads to the end of the stderr, and a line after the
\* bootstrap's takes its word back.
ReadStderr(p) ==
  /\ AtTask(p, "stderr") /\ aux[p].link = "closed"
  /\ LET t == aux[p]
     IN \/ /\ Becomes(p, IF Retries(t) THEN [t EXCEPT !.at = "install"]
                         ELSE [t EXCEPT !.at = "done", !.note = IF t.need THEN "no_agent" ELSE @])
           /\ UNCHANGED faults
        \/ /\ t.need /\ ActFault
           /\ Becomes(p, [t EXCEPT !.at = "done", !.need = FALSE])
  /\ UNCHANGED <<panels, keys, msgs, agents, ran>>

\* install_agent.
Install(p) ==
  /\ AtTask(p, "install")
  /\ Send(p, "line")
  /\ \/ /\ agents' = agents \cup {aux[p].host}
        /\ Becomes(p, [aux[p] EXCEPT !.at = "spawn", !.attempt = 2, !.note = "none"])
        /\ UNCHANGED faults
     \/ /\ ActFault
        /\ Becomes(p, [aux[p] EXCEPT !.at = "done", !.note = "no_agent"])
        /\ UNCHANGED agents
  /\ UNCHANGED <<panels, keys, ran>>

\* spawn_kill and the like send the note; spawn_custom begins again.
TaskEnds(p) ==
  /\ AtTask(p, "done")
  /\ IF aux[p].kind = "custom"
     THEN UNCHANGED msgs
          /\ Becomes(p, NewTask("custom", aux[p].gen, aux[p].host, 0,
                                Deed("custom", aux[p].host, 0)))
     ELSE Send(p, aux[p].note) /\ Becomes(p, NoTask)
  /\ UNCHANGED <<panels, keys, agents, faults, ran>>

TaskSteps(p) ==
  \/ Begin(p) \/ SpawnExec(p) \/ ReadLine(p) \/ ReadExit(p) \/ ReadEnd(p) \/ Stall(p)
  \/ ReadStderr(p) \/ Install(p) \/ TaskEnds(p)

ActNext ==
  \/ \E p \in Panels :
       \/ Packet(p) \/ Arm(p) \/ TailLog(p)
       \/ TaskSteps(p) \/ SpawnFails(p)
       \/ HostRuns(p) \/ LinkBreaks(p) \/ SshGivesUp(p)
  \/ ConfirmAct \/ StandDown \/ Overlay \/ EditServers \/ Apply

ActSpec == ActInit /\ [][ActNext]_actVars

\* The runtime runs the tasks and the event loop, and the hosts answer.
ActFairness ==
  /\ WF_actVars(Apply)
  /\ \A p \in Panels : WF_actVars(TaskSteps(p)) /\ WF_actVars(HostRuns(p) \/ SshGivesUp(p))

ActFairSpec == ActSpec /\ ActFairness

---------------------------------------------------------------------------
\* kill_confirm_keys: what a host runs is what the confirmation named when it was
\* armed (the action, the host and the process), whatever is at the top of the
\* panel by then and however the server list was edited; and it runs at most once
\* for one confirmation, however the attempts went: a second attempt is made only
\* when the first ran nothing.
ConfirmedRunsOnce ==
  \A i \in 1..Len(ran) :
    /\ ran[i].did = ran[i].named
    /\ \A j \in (i + 1)..Len(ran) : <<ran[i].panel, ran[i].gen>> # <<ran[j].panel, ran[j].gen>>

\* Every line of a pane comes from the host that the panel shows, and from one
\* run on it: nothing of a task that outlives its panel is taken for its
\* successor's (views.rs:51-57).
LinesAreTheHosts ==
  \A p \in Panels : \A i \in 1..Len(panels[p].view) :
    panels[p].view[i].host = panels[p].host /\ panels[p].view[i].gen = panels[p].view[1].gen

\* A kill comes to its end, whatever the link does: the task sends what became
\* of it, or another action has taken its place.
KillIsAnswered ==
  \A p \in Panels : aux[p].kind = "kill" ~> aux[p].kind # "kill"
=============================================================================
