----------------------------- MODULE AppUpgrade -----------------------------
(***************************************************************************)
(* The upgrade state machine of the dashboard: crates/multitop/src/app     *)
(* (views.rs, upgrade.rs, apply.rs), the event loop and the task slots of  *)
(* crates/multitop/src/run, and the server-list edit of password_actions.rs.*)
(*                                                                         *)
(* One loop owns the panels.  Background tasks (an upgrade or a view on a  *)
(* panel, a credential lookup) only send it messages, stamped with the     *)
(* panel they were started for and its generation or the epoch of the      *)
(* panel list.  The panel list can be edited under them, and a task that is *)
(* aborted may still get the message out it was about to send.             *)
(***************************************************************************)
EXTENDS Naturals, Sequences, FiniteSets

CONSTANTS
  Hosts,      \* accounts (user@host:port) that can be in the server list
  NoCommand,  \* hosts with no upgrade_cmd
  MaxPanels,  \* bound: length of the server list
  Edits,      \* whether the server list is edited
  CanDie,     \* whether an upgrade task may end without sending AuxDone
  Budget,     \* MSG_DRAIN_BUDGET
  QueueCap,   \* capacity of the message channel
  MaxViews,   \* bound: view tasks at a time that will report their end
  MaxGen,     \* bound: generations
  MaxEpoch,   \* bound: edits of the server list
  MaxBoots    \* bound: how often the app is started again

ASSUME AppAssumption ==
  /\ NoCommand \subseteq Hosts
  /\ MaxPanels \in Nat \ {0} /\ QueueCap \in Nat \ {0}
  /\ {Budget, MaxViews, MaxGen, MaxEpoch, MaxBoots} \subseteq Nat
  /\ Edits \in BOOLEAN /\ CanDie \in BOOLEAN

VARIABLES
  lpc,      \* the loop: idle, drain, watch, spawn or down
  left,     \* how many more messages this drain may apply
  todo,     \* panels whose upgrade task is about to be spawned
  panels,   \* the panel list
  epoch,    \* panels_epoch
  boots,    \* bound: how often the app was started again
  modal,    \* AppMode::ShowUpgradeModal: the upgrade confirmation is up
  armed,    \* quit_armed
  queue,    \* the message channel
  slots,    \* Tasks.upgrades, one per panel
  orphans,  \* aborted tasks that will still send their last message
  loads,    \* credential lookups on their way
  views,    \* view tasks on their way that will report their end
  record,   \* host_updates, in memory and in state.toml
  marker,   \* upgrade_started_at is set (and so later than last_update)
  fate      \* history: how each host's last run really went

loopVars == <<lpc, left, todo>>
taskVars == <<slots, orphans, loads, views>>
vars == <<loopVars, panels, epoch, boots, modal, armed, queue, taskVars,
          record, marker, fate>>

Panel(h, g, lk) ==
  [host |-> h, gen |-> g, mode |-> "other", ust |-> "nil", ugen |-> 0,
   lookup |-> lk]

NoTask     == [st |-> "none", gen |-> 0]
Task(g)    == [st |-> "running", gen |-> g]

\* A message, with the host its sender works on (which the code does not send).
Msg(k, i, g, e, h, res) ==
  [kind |-> k, panel |-> i, gen |-> g, epoch |-> e, host |-> h, res |-> res]

Job(i, g, e, h) == [panel |-> i, gen |-> g, epoch |-> e, host |-> h]

\* An aborted task may be past its last await, and then it still sends: the
\* tasks in the slots in `is` that do.
Aborted(is) ==
  {Job(i, slots[i].gen, epoch, panels[i].host) :
     i \in {j \in is : slots[j].st = "running"}}

ServerLists ==
  {s \in UNION {[1..n -> Hosts] : n \in 1..MaxPanels} :
     \A i, j \in DOMAIN s : s[i] = s[j] => i = j}

Boot(list) == [i \in DOMAIN list |-> Panel(list[i], 0, "notasked")]

Init ==
  /\ lpc = "idle" /\ left = 0 /\ todo = {}
  /\ \E s \in ServerLists : panels = Boot(s)
  /\ epoch = 0 /\ boots = 0 /\ modal = FALSE /\ armed = FALSE
  /\ queue = <<>>
  /\ slots = [i \in DOMAIN panels |-> NoTask]
  /\ orphans = {} /\ loads = {} /\ views = {}
  /\ record = [h \in Hosts |-> "never"] /\ marker = FALSE
  /\ fate = [h \in Hosts |-> "never"]

---------------------------------------------------------------------------
\* What the app asks of its panels.
Runs(p)      == p.host \notin NoCommand
InFlight     == \E i \in DOMAIN panels : panels[i].ust = "started"
InUpgrade    == \E i \in DOMAIN panels : panels[i].mode = "upgrade"
AnyChecking  == \E i \in DOMAIN panels : panels[i].lookup = "inflight"
Gens         == {panels[i].gen : i \in DOMAIN panels}
GenRoom      == \A g \in Gens : g < MaxGen
\* The loop takes a key that no confirmation claims.
FreeKey      == lpc = "idle" /\ ~modal /\ ~armed

\* The filter and the focus: which panels are on screen.
Shown == SUBSET DOMAIN panels

---------------------------------------------------------------------------
\* `u`, first press: enter_upgrade_view, and one lookup for every host that was
\* never asked about.
EnterUpgradeView ==
  /\ FreeKey /\ ~InUpgrade
  /\ panels' = [i \in DOMAIN panels |->
       [panels[i] EXCEPT !.mode = "upgrade",
                         !.lookup = IF @ = "notasked" THEN "inflight" ELSE @]]
  /\ loads' = loads \cup
       {Job(i, 0, epoch, panels[i].host) :
          i \in {j \in DOMAIN panels : panels[j].lookup = "notasked"}}
  /\ UNCHANGED <<loopVars, epoch, boots, modal, armed, queue, slots, orphans,
                 views, record, marker, fate>>

MayConfirm ==
  InUpgrade /\ ~InFlight /\ \E i \in DOMAIN panels : Runs(panels[i])

\* Showing or taking away the confirmation, and nothing else.
ConfirmationIs(up) ==
  /\ modal' = up
  /\ UNCHANGED <<loopVars, panels, epoch, boots, armed, queue, taskVars, record,
                 marker, fate>>

\* `u`, second press: not while a run is in flight.
AskToConfirm == FreeKey /\ MayConfirm /\ ConfirmationIs(TRUE)

\* `:vault unlock` raises the confirmation when there is no vault to unlock, and
\* the answer of an unlock raises it whoever asked for the unlock: neither looks
\* at the view or at the runs.  (The answer is a message, but neither the rest of
\* its drain nor the watchdog looks at the confirmation, and while it is waited
\* for no key of this module is taken.)
AskAfterUnlock == lpc = "idle" /\ ConfirmationIs(TRUE)

\* `U` on the confirmation: deferred while a lookup is in flight.  The panels
\* that are shown move to a new generation, the started ones are recorded and
\* saved, and only then are their tasks spawned.
Started(shown) == {i \in shown : Runs(panels[i])}

\* run_upgrade, for one panel.
Begun(p) ==
  [p EXCEPT !.gen = @ + 1, !.ugen = p.gen + 1, !.mode = "upgrade",
            !.ust = IF Runs(p) THEN "started" ELSE "done"]

\* mark_upgrades_started.
Recorded(shown) ==
  [h \in Hosts |-> IF \E i \in Started(shown) : panels[i].host = h THEN "started"
                   ELSE record[h]]

Confirm ==
  /\ lpc = "idle" /\ modal /\ ~armed /\ ~AnyChecking /\ GenRoom
  /\ \E shown \in Shown :
       /\ panels' = [i \in DOMAIN panels |->
            IF i \in shown THEN Begun(panels[i]) ELSE panels[i]]
       /\ record' = Recorded(shown)
       /\ marker' = (marker \/ Started(shown) # {})
       /\ todo' = Started(shown)
  /\ modal' = FALSE
  /\ lpc' = "spawn"
  /\ UNCHANGED <<left, epoch, boots, armed, queue, taskVars, fate>>

\* execute_cmds: set_upgrade puts each task in its panel's slot and aborts
\* whatever is there.
SpawnUpgrades ==
  /\ lpc = "spawn"
  /\ slots' = [i \in DOMAIN slots |->
       IF i \in todo THEN Task(panels[i].ugen) ELSE slots[i]]
  /\ \E late \in SUBSET Aborted(todo) : orphans' = orphans \cup late
  /\ fate' = [h \in Hosts |->
       IF \E i \in todo : panels[i].host = h THEN "running" ELSE fate[h]]
  /\ lpc' = "idle" /\ todo' = {}
  /\ UNCHANGED <<left, panels, epoch, boots, modal, armed, queue, loads, views,
                 record, marker>>

CancelConfirm == lpc = "idle" /\ modal /\ ~armed /\ ConfirmationIs(FALSE)

\* Settings (passwords::open), by a key or by the palette, which is taken before
\* any confirmation: a lookup for the selected host.
OpenSettings(i) ==
  /\ lpc = "idle" /\ i \in DOMAIN panels /\ panels[i].lookup = "notasked"
  /\ panels' = [panels EXCEPT ![i].lookup = "inflight"]
  /\ loads' = loads \cup {Job(i, 0, epoch, panels[i].host)}
  /\ UNCHANGED <<loopVars, epoch, boots, modal, armed, queue, slots, orphans,
                 views, record, marker, fate>>

\* on_save: a password is an answer to a lookup nobody has asked for, and may
\* start the upgrade of its host again, which is recorded and saved first.
Resumed(p) == [Begun(p) EXCEPT !.lookup = IF @ = "notasked" THEN "answered" ELSE @]

SavePassword(i) ==
  /\ FreeKey /\ i \in DOMAIN panels
  /\ \/ /\ panels[i].lookup = "notasked"
        /\ panels' = [panels EXCEPT ![i].lookup = "answered"]
        /\ UNCHANGED <<lpc, todo, record, marker>>
     \/ /\ Runs(panels[i]) /\ panels[i].ust # "started" /\ GenRoom
        /\ panels' = [panels EXCEPT ![i] = Resumed(@)]
        /\ record' = [record EXCEPT ![panels[i].host] = "started"]
        /\ marker' = TRUE
        /\ todo' = {i} /\ lpc' = "spawn"
  /\ UNCHANGED <<left, epoch, boots, modal, armed, queue, taskVars, fate>>

\* A view is chosen by a key, which takes the upgrade confirmation away, or by a
\* word of the palette, which leaves any confirmation as it is.
ViewChosen ==
  /\ lpc = "idle"
  /\ \/ modal' = modal
     \/ ~armed /\ modal' = FALSE

\* switch_stats and the graphs and alerts views: a panel with a run keeps its
\* generation.
SwitchView ==
  /\ ViewChosen /\ GenRoom
  /\ panels' = [i \in DOMAIN panels |->
       [panels[i] EXCEPT !.mode = "other",
          !.gen = IF panels[i].ust = "started" THEN @ ELSE @ + 1]]
  /\ UNCHANGED <<loopVars, epoch, boots, armed, queue, taskVars, record, marker,
                 fate>>

\* toggle_fetch and toggle_docker: every panel moves on and gets a view task.
FetchView ==
  /\ ViewChosen /\ GenRoom
  /\ panels' = [i \in DOMAIN panels |->
       [panels[i] EXCEPT !.mode = "other", !.gen = @ + 1]]
  /\ \E is \in SUBSET DOMAIN panels :
       /\ views' = views \cup
            {Job(i, panels[i].gen + 1, epoch, panels[i].host) : i \in is}
       /\ Cardinality(views') <= MaxViews
  /\ UNCHANGED <<loopVars, epoch, boots, armed, queue, slots, orphans, loads,
                 record, marker, fate>>

\* The server list is edited: a new list of panels above every generation ever
\* used, with the credentials of the accounts that stay, and no upgrade task.
\*
\* Mutants: generations start again from 0; a panel that stays is not replaced.
GenFromZero == 0

NextGen == 1 + CHOOSE g \in Gens : \A k \in Gens : k <= g

Carried(h) ==
  IF \E i \in DOMAIN panels : panels[i].host = h
    THEN panels[CHOOSE i \in DOMAIN panels : panels[i].host = h].lookup
    ELSE "notasked"

RebuiltInPlace(list) ==
  [i \in DOMAIN list |->
     IF i \in DOMAIN panels /\ panels[i].host = list[i] THEN panels[i]
     ELSE Panel(list[i], NextGen, Carried(list[i]))]

Rebuilt(list) == [i \in DOMAIN list |-> Panel(list[i], NextGen, Carried(list[i]))]

EditServers ==
  /\ Edits /\ FreeKey /\ epoch < MaxEpoch /\ GenRoom
  /\ \E s \in ServerLists :
       /\ panels' = Rebuilt(s)
       /\ slots' = [i \in DOMAIN s |-> NoTask]
  /\ epoch' = epoch + 1
  /\ \E late \in SUBSET Aborted(DOMAIN slots) : orphans' = orphans \cup late
  /\ fate' = [h \in Hosts |-> IF fate[h] = "running" THEN "lost" ELSE fate[h]]
  /\ UNCHANGED <<loopVars, boots, modal, armed, queue, loads, views, record,
                 marker>>

\* Quitting asks first while a run is in flight.
RequestQuit ==
  /\ FreeKey /\ InFlight
  /\ armed' = TRUE
  /\ UNCHANGED <<loopVars, panels, epoch, boots, modal, queue, taskVars, record,
                 marker, fate>>

CancelQuit ==
  /\ lpc = "idle" /\ armed
  /\ armed' = FALSE
  /\ UNCHANGED <<loopVars, panels, epoch, boots, modal, queue, taskVars, record,
                 marker, fate>>

---------------------------------------------------------------------------
\* Messages.  accepts: the generation is still the panel's.
Known(m)     == m.panel \in DOMAIN panels
Accepts(m)   == Known(m) /\ panels[m.panel].gen = m.gen
\* Mutant: the run that is going on takes any run's last word for its own.
BelongsToAny(m) == Known(m) /\ panels[m.panel].ust = "started"
Belongs(m)   == Known(m) /\ panels[m.panel].ust = "started"
                         /\ panels[m.panel].ugen = m.gen

\* Mutant: the other panels are not looked at.
NobodyElse(m)         == FALSE
\* Whether another panel's run is in flight, and whether a lookup is answered.
OthersFly(m) == \E i \in DOMAIN panels \ {m.panel} : panels[i].ust = "started"
Answers(m)   == m.kind = "cred" /\ m.epoch = epoch /\ Known(m)
Finishes(m)  == m.kind = "done" /\ Belongs(m)

\* on_aux_done, for the run the panel is waiting for.
FinishRun(m) ==
  /\ Finishes(m)
  /\ panels' = [panels EXCEPT ![m.panel].ust = "done"]
  /\ record' = [record EXCEPT ![panels[m.panel].host] = m.res]
  /\ marker' = (marker /\ ~(m.res = "ok" /\ ~OthersFly(m)))
  /\ armed' = (armed /\ OthersFly(m))

\* on_credential_loaded: the epoch decides.
AnswerLookup(m) ==
  /\ Answers(m)
  /\ panels' = [panels EXCEPT ![m.panel].lookup = "answered"]
  /\ UNCHANGED <<record, marker, armed>>

\* Everything else changes the view at most: a late or foreign AuxDone, the
\* answer of a view, a lookup for another list of panels.
IgnoreMsg(m) ==
  /\ ~Finishes(m) /\ ~Answers(m)
  /\ UNCHANGED <<panels, record, marker, armed>>

Apply ==
  /\ queue # <<>>
  /\ LET m == Head(queue) IN FinishRun(m) \/ AnswerLookup(m) \/ IgnoreMsg(m)
  /\ queue' = Tail(queue)
  /\ UNCHANGED <<todo, epoch, boots, modal, taskVars, fate>>

\* drain_messages: the first message, then at most Budget more.
Receive == lpc = "idle" /\ Apply /\ lpc' = "drain" /\ left' = Budget

Drain   == lpc = "drain" /\ left > 0 /\ Apply /\ left' = left - 1 /\ UNCHANGED lpc

\* A packet of a monitor: it comes all the time, and any number of them may use
\* up the budget.
Packet ==
  /\ lpc = "idle"
  /\ lpc' = "drain" /\ left' \in 0..Budget
  /\ UNCHANGED <<todo, panels, epoch, boots, modal, armed, queue, taskVars,
                 record, marker, fate>>

EndDrain ==
  /\ lpc = "drain" /\ (left = 0 \/ queue = <<>>)
  /\ lpc' = "watch" /\ left' = 0
  /\ UNCHANGED <<todo, panels, epoch, boots, modal, armed, queue, taskVars,
                 record, marker, fate>>

\* Mutant: only a slot without a handle counts.
DeadIfEmpty(i) == panels[i].ust = "started" /\ slots[i].st = "none"

\* The watchdog: a finished handle under a panel that is still STARTED.
Dead(i) == panels[i].ust = "started" /\ slots[i].st = "finished"

WatchdogVerdict == "failed"

Watchdog ==
  /\ lpc = "watch"
  /\ panels' = [i \in DOMAIN panels |->
       IF Dead(i) THEN [panels[i] EXCEPT !.ust = "done"] ELSE panels[i]]
  /\ record' = [h \in Hosts |->
       IF \E i \in DOMAIN panels : Dead(i) /\ panels[i].host = h THEN WatchdogVerdict
       ELSE record[h]]
  /\ lpc' = "idle"
  /\ UNCHANGED <<left, todo, epoch, boots, modal, armed, queue, taskVars, marker,
                 fate>>

---------------------------------------------------------------------------
\* The tasks.
Room      == Len(queue) < QueueCap
Post(m)   == Room /\ queue' = Append(queue, m)
LoopAlone == UNCHANGED <<loopVars, panels, epoch, boots, modal, armed, record,
                         marker>>

\* spawn_upgrade's one exit: AuxDone is sent, and the task is over a moment
\* later.
SendDone(i) ==
  /\ i \in DOMAIN slots /\ slots[i].st = "running" /\ lpc # "down"
  /\ \E res \in {"ok", "failed"} :
       /\ Post(Msg("done", i, slots[i].gen, epoch, panels[i].host, res))
       /\ fate' = [fate EXCEPT ![panels[i].host] = res]
  /\ slots' = [slots EXCEPT ![i].st = "sent"]
  /\ LoopAlone /\ UNCHANGED <<orphans, loads, views>>

FinishTask(i) ==
  /\ i \in DOMAIN slots /\ slots[i].st = "sent" /\ lpc # "down"
  /\ slots' = [slots EXCEPT ![i].st = "finished"]
  /\ LoopAlone /\ UNCHANGED <<queue, orphans, loads, views, fate>>

\* A task that panics.
TaskDies(i) ==
  /\ CanDie
  /\ i \in DOMAIN slots /\ slots[i].st = "running" /\ lpc # "down"
  /\ slots' = [slots EXCEPT ![i].st = "finished"]
  /\ fate' = [fate EXCEPT ![panels[i].host] = "lost"]
  /\ LoopAlone /\ UNCHANGED <<queue, orphans, loads, views>>

OrphanEnds ==
  /\ lpc # "down"
  /\ \E t \in orphans :
       /\ orphans' = orphans \ {t}
       /\ \E res \in {"ok", "failed"} :
            Post(Msg("done", t.panel, t.gen, t.epoch, t.host, res))
  /\ LoopAlone /\ UNCHANGED <<slots, loads, views, fate>>

LookupAnswers ==
  /\ lpc # "down"
  /\ \E t \in loads :
       /\ loads' = loads \ {t}
       /\ Post(Msg("cred", t.panel, t.gen, t.epoch, t.host, "none"))
  /\ LoopAlone /\ UNCHANGED <<slots, orphans, views, fate>>

ViewEnds ==
  /\ lpc # "down"
  /\ \E t \in views :
       /\ views' = views \ {t}
       /\ Post(Msg("done", t.panel, t.gen, t.epoch, t.host, "failed"))
  /\ LoopAlone /\ UNCHANGED <<slots, orphans, loads, fate>>

---------------------------------------------------------------------------
\* The app ends: it quits (abort_all) or is killed, and its tasks with it.
End ==
  /\ lpc # "down"
  /\ lpc' = "down" /\ left' = 0 /\ todo' = {}
  /\ modal' = FALSE /\ armed' = FALSE
  /\ queue' = <<>>
  /\ slots' = [i \in DOMAIN slots |-> NoTask]
  /\ orphans' = {} /\ loads' = {} /\ views' = {}
  /\ panels' = Boot([i \in DOMAIN panels |-> panels[i].host])
  /\ fate' = [h \in Hosts |-> IF fate[h] = "running" THEN "lost" ELSE fate[h]]
  /\ UNCHANGED <<epoch, boots, record, marker>>

\* And is started again on what it saved.
Restart ==
  /\ lpc = "down" /\ boots < MaxBoots
  /\ lpc' = "idle" /\ boots' = boots + 1 /\ epoch' = 0
  /\ UNCHANGED <<left, todo, panels, modal, armed, queue, taskVars, record,
                 marker, fate>>

Keys ==
  \/ \E i \in 1..MaxPanels : OpenSettings(i) \/ SavePassword(i)
  \/ EnterUpgradeView \/ AskToConfirm \/ AskAfterUnlock \/ Confirm \/ CancelConfirm
  \/ SwitchView \/ FetchView \/ EditServers \/ RequestQuit \/ CancelQuit

LoopStep == SpawnUpgrades \/ Receive \/ Drain \/ EndDrain \/ Watchdog

TaskStep ==
  \/ \E i \in 1..MaxPanels : SendDone(i) \/ FinishTask(i) \/ TaskDies(i)
  \/ OrphanEnds \/ LookupAnswers \/ ViewEnds

Next == Keys \/ LoopStep \/ Packet \/ TaskStep \/ End \/ Restart

Spec == Init /\ [][Next]_vars

\* The loop goes on, packets keep coming (every monitor streams or reports that
\* it reconnects), the channel is first in first out, so a queued message has
\* its turn, and a task that waits for room in it gets its own.
Fairness ==
  /\ WF_vars(LoopStep)
  /\ SF_vars(Receive)
  /\ SF_vars(Packet)
  /\ \A i \in 1..MaxPanels : SF_vars(SendDone(i)) /\ WF_vars(FinishTask(i))
  /\ SF_vars(LookupAnswers)

FairSpec == Spec /\ Fairness
---------------------------------------------------------------------------
Kinds   == {"done", "cred"}
Results == {"ok", "failed", "none"}
Records == {"never", "started", "ok", "failed"}
Jobs    == [panel : 1..MaxPanels, gen : 0..MaxGen, epoch : 0..MaxEpoch,
            host : Hosts]
\* Only an AuxDone has a result.
Msgs    ==
  {m \in [kind : Kinds, panel : 1..MaxPanels, gen : 0..MaxGen,
          epoch : 0..MaxEpoch, host : Hosts, res : Results] :
     m.kind = "done" <=> m.res # "none"}
Panels  == [host : Hosts, gen : 0..MaxGen, mode : {"other", "upgrade"},
            ust : {"nil", "started", "done"}, ugen : 0..MaxGen,
            lookup : {"notasked", "inflight", "answered"}]
Slots   == [st : {"none", "running", "sent", "finished"}, gen : 0..MaxGen]

\* The panel list and the task slots have one length.
ListsOK ==
  \E n \in 1..MaxPanels : panels \in [1..n -> Panels] /\ slots \in [1..n -> Slots]

\* The values of the app's variables; a drain never applies more than its
\* budget.
TypeOK ==
  /\ lpc \in {"idle", "drain", "watch", "spawn", "down"}
  /\ left \in 0..Budget /\ todo \subseteq DOMAIN panels
  /\ ListsOK
  /\ epoch \in 0..MaxEpoch /\ boots \in 0..MaxBoots
  /\ modal \in BOOLEAN /\ armed \in BOOLEAN /\ marker \in BOOLEAN
  /\ queue \in Seq(Msgs) /\ Len(queue) <= QueueCap
  /\ orphans \subseteq Jobs /\ loads \subseteq Jobs /\ views \subseteq Jobs
  /\ record \in [Hosts -> Records]
  /\ fate \in [Hosts -> {"never", "running", "ok", "failed", "lost"}]

Queued == {queue[i] : i \in DOMAIN queue}

\* A message that the app takes as a panel's answer comes from a task working
\* on that panel's host: not from a task of an earlier list of panels whose
\* index and generation came up again, and not from another kind of task.
AnswersComeFromTheHost ==
  \A m \in Queued :
    Finishes(m) \/ Answers(m) => m.host = panels[m.panel].host

\* A panel that says STARTED has its own run in its slot, or about to be put
\* there, so that the watchdog can find a dead one and quitting can abort it.
StartedHasItsTask ==
  \A i \in DOMAIN panels :
    panels[i].ust = "started" =>
      \/ i \in todo
      \/ slots[i].st # "none" /\ slots[i].gen = panels[i].ugen

\* set_upgrade never aborts a run that is going on (run/tasks.rs:94-96: "a second
\* run cannot start while the first is in flight").  It may, after AskAfterUnlock.
NoRunIsReplaced == \A i \in todo : slots[i].st # "running"

\* A message that ends a panel's run is the last word of the task in the panel's
\* slot: a run that was replaced may still send its own, and must not be taken
\* for the one that goes on.
LastWordIsOwn ==
  \A m \in Queued :
    Finishes(m) =>
      /\ slots[m.panel].st \in {"sent", "finished"} /\ slots[m.panel].gen = m.gen
      /\ fate[panels[m.panel].host] = m.res

\* The app calls a run a success only if that run said so.
OkIsTrue == \A h \in Hosts : record[h] = "ok" => fate[h] = "ok"

\* Whenever a run is going on, state.toml shows it as started and the marker is
\* set: if the app dies now, the next start can tell.
PowerLossIsSeen ==
  \A h \in Hosts : fate[h] = "running" => record[h] = "started" /\ marker

\* No panel stays in STARTED, even when its task dies without a word.
EveryRunEnds ==
  \A i \in 1..MaxPanels :
    (i \in DOMAIN panels /\ panels[i].ust = "started")
      ~> ~(i \in DOMAIN panels /\ panels[i].ust = "started")

\* A confirmation is not deferred for ever by a lookup that is never answered.
LookupsLand == AnyChecking ~> ~AnyChecking

\* The watchdog records as failed only a run whose task died without AuxDone:
\* no host is recorded as failed whose run told the app that it went well.
FailedIsTrue == \A h \in Hosts : record[h] = "failed" => fate[h] # "ok"

\* A quit is armed only while upgrades are in flight.
ArmedMeansInFlight == armed => InFlight

\* The next start warns of an interrupted run only if a run started and no
\* completion followed.
MarkerMeansInterrupted ==
  marker => \E h \in Hosts : record[h] = "started"
=============================================================================
