-------------------------- MODULE AppUpgradeProofs --------------------------
(***************************************************************************)
(* Proofs about the upgrade state machine of the dashboard for any list of *)
(* hosts, any channel and any order of edits, deaths and late messages:    *)
(* answers reach the panel they are about, a started panel has its task, a *)
(* success was said by the run itself, and an interrupted run is seen.     *)
(***************************************************************************)
EXTENDS AppUpgrade, SequenceTheorems, WellFoundedInduction, TLAPS

---------------------------------------------------------------------------
\* A generation of an earlier list: no panel can be waiting for it.
Stale(g) ==
  \A k \in DOMAIN panels :
    /\ g < panels[k].gen
    /\ panels[k].ust = "started" => g < panels[k].ugen

\* The sender of an AuxDone works on the host that its index now stands for, or
\* belongs to an earlier list.
Placed(j) ==
  \/ /\ j.panel \in DOMAIN panels
     /\ j.host = panels[j.panel].host /\ j.gen <= panels[j.panel].gen
  \/ Stale(j.gen)

\* A lookup of this epoch was made for the panel that its index stands for.
LookupPlaced(j) ==
  /\ j.epoch <= epoch
  /\ j.epoch = epoch => j.panel \in DOMAIN panels /\ j.host = panels[j.panel].host

\* A message that ends the run a panel waits for was sent by that run.
OwnWord(m) ==
  Belongs(m) => /\ slots[m.panel].st \in {"sent", "finished"}
                /\ slots[m.panel].gen = m.gen
                /\ fate[panels[m.panel].host] = m.res

GoodMsgs ==
  {m \in Msgs : /\ m.kind = "done" => Placed(m) /\ OwnWord(m)
                /\ m.kind = "cred" => LookupPlaced(m)}

\* The tasks that will still send something.
PendingInv ==
  /\ queue \in Seq(GoodMsgs)
  /\ \A j \in orphans \cup views : Placed(j) /\ ~Belongs(j)
  /\ \A j \in loads : LookupPlaced(j)
  /\ lpc = "down" => queue = <<>> /\ orphans = {} /\ views = {} /\ loads = {}

\* Every account is once in the list, generations only grow, and only a host with
\* a command has runs.
PanelsInv ==
  /\ \A i, k \in DOMAIN panels : panels[i].host = panels[k].host => i = k
  /\ \A i \in DOMAIN panels :
       /\ slots[i].gen <= panels[i].gen /\ panels[i].ugen <= panels[i].gen
       /\ panels[i].ust = "started" => Runs(panels[i])

IdleHasNoTodo == lpc # "spawn" => todo = {}

\* Panels between the key that starts their run and its task.
TodoInv ==
  /\ IdleHasNoTodo
  /\ \A i \in todo : /\ panels[i].ust = "started" /\ slots[i].gen < panels[i].ugen
                     /\ record[panels[i].host] = "started" /\ marker

\* What the slots say of the runs, and what the app has recorded of them.  A run
\* that is about to be replaced goes on until then.
RunsInv ==
  /\ StartedHasItsTask
  /\ \A i \in DOMAIN panels :
       slots[i].st = "running" =>
         /\ fate[panels[i].host] = "running"
         /\ panels[i].ust = "started"
         /\ i \notin todo => panels[i].ugen = slots[i].gen
  /\ \A h \in Hosts :
       fate[h] = "running" =>
         \E i \in DOMAIN panels : panels[i].host = h /\ slots[i].st = "running"
  /\ OkIsTrue /\ PowerLossIsSeen

AppInv == PendingInv /\ PanelsInv /\ TodoInv /\ RunsInv

---------------------------------------------------------------------------
\* A list of panels as two functions on the same indices.
LEMMA ListTypes ==
  ASSUME ListsOK
  PROVE  /\ panels \in [DOMAIN panels -> Panels] /\ slots \in [DOMAIN panels -> Slots]
         /\ DOMAIN slots = DOMAIN panels
         /\ \E n \in 1..MaxPanels : DOMAIN panels = 1..n
         /\ DOMAIN panels \subseteq 1..MaxPanels /\ DOMAIN panels # {}
<1>1. PICK n \in 1..MaxPanels : panels \in [1..n -> Panels] /\ slots \in [1..n -> Slots]
  BY DEF ListsOK
<1>2. 1 \in 1..n /\ 1..n \subseteq 1..MaxPanels
  BY AppAssumption
<1> QED
  BY <1>1, <1>2

\* The generation a rebuilt list starts from is above every one before.
LEMMA NextGenIsNew ==
  ASSUME TypeOK
  PROVE  /\ NextGen \in Nat /\ \A i \in DOMAIN panels : panels[i].gen < NextGen
         /\ GenRoom => NextGen <= MaxGen
<1>0. MaxGen \in Nat /\ MaxGen + 1 \in Nat
  BY AppAssumption
<1> DEFINE T == {MaxGen - g : g \in Gens}
<1>1. Gens \subseteq 0..MaxGen /\ Gens # {}
  BY ListTypes DEF Gens, Panels, TypeOK
<1>2. T \subseteq Nat /\ T # {}
  <2>1. \A g \in 0..MaxGen : MaxGen - g \in Nat
    BY <1>0
  <2> QED
    BY <1>1, <2>1
<1>3. PICK x \in T : \A y \in T : ~(<<y, x>> \in OpToRel(<, Nat))
  <2>1. IsWellFoundedOn(OpToRel(<, Nat), Nat)
    BY NatLessThanWellFounded
  <2> QED
    BY <1>2, <2>1, WFMin
<1>4. \A y \in T : ~(y < x)
  BY <1>2, <1>3 DEF OpToRel
<1>5. PICK g \in Gens : x = MaxGen - g
  OBVIOUS
<1>6. \A k \in Gens : k <= g
  <2> TAKE k \in Gens
  <2>1. MaxGen - k \in T /\ k \in 0..MaxGen /\ g \in 0..MaxGen
    BY <1>1
  <2>2. ~(MaxGen - k < MaxGen - g)
    BY <1>4, <1>5, <2>1
  <2> QED
    BY <1>0, <2>1, <2>2
<1> DEFINE top == CHOOSE h \in Gens : \A k \in Gens : k <= h
<1>7. top \in Gens /\ \A k \in Gens : k <= top
  BY <1>6
<1>8. NextGen = 1 + top
  BY DEF NextGen
<1> HIDE DEF top
<1>9. top \in 0..MaxGen /\ (GenRoom => top < MaxGen)
  BY <1>1, <1>7 DEF GenRoom
<1>10. \A i \in DOMAIN panels : panels[i].gen \in Gens
  BY DEF Gens
<1>11. \A i \in DOMAIN panels : panels[i].gen <= top /\ panels[i].gen \in 0..MaxGen
  BY <1>1, <1>7, <1>10
<1>12. NextGen \in Nat /\ (GenRoom => NextGen <= MaxGen)
  BY <1>0, <1>8, <1>9
<1>13. \A i \in DOMAIN panels : panels[i].gen < NextGen
  BY <1>8, <1>9, <1>11
<1> QED
  BY <1>12, <1>13

\* A step that keeps the indices keeps one length.
LEMMA ListTypesKept ==
  ASSUME ListsOK, panels' \in [DOMAIN panels -> Panels], slots' \in [DOMAIN panels -> Slots]
  PROVE  ListsOK'
<1>1. PICK n \in 1..MaxPanels : DOMAIN panels = 1..n
  BY ListTypes
<1> QED
  BY <1>1 DEF ListsOK

\* A message that was sent.
LEMMA PostTypes ==
  ASSUME TypeOK, NEW m \in Msgs, Post(m)
  PROVE  queue' \in Seq(Msgs) /\ Len(queue') <= QueueCap
BY AppAssumption DEF TypeOK, Post, Room

\* A message that was applied.
LEMMA HeadTypes ==
  ASSUME TypeOK, queue # <<>>
  PROVE  /\ Head(queue) \in Msgs
         /\ Tail(queue) \in Seq(Msgs) /\ Len(Tail(queue)) <= QueueCap
<1>1. /\ Head(queue) \in Msgs
      /\ Tail(queue) \in Seq(Msgs) /\ Len(Tail(queue)) = Len(queue) - 1
  BY HeadTailProperties DEF TypeOK
<1> QED
  BY <1>1, AppAssumption DEF TypeOK

\* What changes of one panel keeps it a panel.
LEMMA PanelChanges ==
  ASSUME NEW p \in Panels
  PROVE  /\ [p EXCEPT !.ust = "done"] \in Panels
         /\ \A l \in {"notasked", "inflight", "answered"} :
              /\ [p EXCEPT !.lookup = l] \in Panels
              /\ [p EXCEPT !.mode = "upgrade", !.lookup = l] \in Panels
         /\ p.gen < MaxGen =>
              /\ \A g \in {p.gen, p.gen + 1} :
                   [p EXCEPT !.mode = "other", !.gen = g] \in Panels
              /\ Begun(p) \in Panels /\ Resumed(p) \in Panels
<1>1. MaxGen \in Nat /\ p.gen \in 0..MaxGen
  BY AppAssumption DEF Panels
<1>2. [p EXCEPT !.ust = "done"] \in Panels
  BY DEF Panels
<1>3. \A l \in {"notasked", "inflight", "answered"} :
        /\ [p EXCEPT !.lookup = l] \in Panels
        /\ [p EXCEPT !.mode = "upgrade", !.lookup = l] \in Panels
  BY DEF Panels
<1>4. ASSUME p.gen < MaxGen
      PROVE  /\ \A g \in {p.gen, p.gen + 1} :
                  [p EXCEPT !.mode = "other", !.gen = g] \in Panels
             /\ Begun(p) \in Panels
  <2>1. p.gen + 1 \in 0..MaxGen
    BY <1>1, <1>4
  <2>2. \A g \in 0..MaxGen : [p EXCEPT !.mode = "other", !.gen = g] \in Panels
    BY DEF Panels
  <2>3. Begun(p) \in Panels
    BY <2>1 DEF Panels, Begun
  <2> QED
    BY <1>1, <2>1, <2>2, <2>3
<1>5. ASSUME Begun(p) \in Panels PROVE Resumed(p) \in Panels
  BY <1>5 DEF Panels, Resumed
<1> QED
  BY <1>2, <1>3, <1>4, <1>5

\* A new panel.
LEMMA NewPanels ==
  ASSUME NEW h \in Hosts, NEW g \in 0..MaxGen, NEW l \in {"notasked", "inflight", "answered"}
  PROVE  Panel(h, g, l) \in Panels
<1>1. 0 \in 0..MaxGen
  BY AppAssumption
<1> QED
  BY <1>1 DEF Panel, Panels

\* Both kinds of slots that the app makes.
LEMMA NewSlots ==
  /\ NoTask \in Slots
  /\ \A g \in 0..MaxGen : Task(g) \in Slots
  /\ \A s \in Slots : \A st \in {"none", "running", "sent", "finished"} :
       [s EXCEPT !.st = st] \in Slots
BY AppAssumption DEF NoTask, Task, Slots

\* Keys keep the types.
LEMMA KeyTypes ==
  ASSUME TypeOK, IdleHasNoTodo, Keys
  PROVE  TypeOK'
<1> USE ListTypes DEF loopVars, taskVars
<1>0. /\ panels \in [DOMAIN panels -> Panels] /\ slots \in [DOMAIN panels -> Slots]
      /\ DOMAIN panels \subseteq 1..MaxPanels /\ ListsOK
      /\ \A i \in DOMAIN panels : panels[i].host \in Hosts /\ panels[i].gen \in 0..MaxGen
      /\ \A i \in DOMAIN panels : panels[i].lookup \in {"notasked", "inflight", "answered"}
      /\ epoch \in 0..MaxEpoch /\ MaxEpoch \in Nat /\ MaxGen \in Nat
      /\ loads \subseteq Jobs /\ views \subseteq Jobs /\ orphans \subseteq Jobs
      /\ GenRoom => \A i \in DOMAIN panels : panels[i].gen < MaxGen
  BY AppAssumption DEF TypeOK, Panels, GenRoom, Gens
<1>00. \A i \in DOMAIN panels, g \in 0..MaxGen : Job(i, g, epoch, panels[i].host) \in Jobs
  BY <1>0 DEF Job, Jobs
<1>1. ASSUME panels' \in [DOMAIN panels -> Panels], slots' \in [DOMAIN panels -> Slots]
      PROVE  ListsOK' /\ DOMAIN panels' = DOMAIN panels
  BY <1>0, <1>1, ListTypesKept
<1>2. CASE EnterUpgradeView
  <2>1. panels' \in [DOMAIN panels -> Panels]
    BY <1>0, <1>2, PanelChanges DEF EnterUpgradeView
  <2>2. loads' \subseteq Jobs
    <3>1. 0 \in 0..MaxGen
      BY <1>0
    <3>2. \A i \in DOMAIN panels : Job(i, 0, epoch, panels[i].host) \in Jobs
      BY <1>00, <3>1
    <3> QED
      BY <1>0, <1>2, <3>2 DEF EnterUpgradeView
  <2>3. ListsOK' /\ DOMAIN panels' = DOMAIN panels
    BY <1>0, <1>1, <1>2, <2>1 DEF EnterUpgradeView
  <2> QED
    BY <1>2, <2>2, <2>3 DEF EnterUpgradeView, TypeOK
<1>3. CASE AskToConfirm \/ AskAfterUnlock \/ CancelConfirm \/ RequestQuit \/ CancelQuit
  BY <1>3 DEF AskToConfirm, AskAfterUnlock, CancelConfirm, ConfirmationIs, RequestQuit,
     CancelQuit, TypeOK, ListsOK
<1>4. CASE Confirm
  <2>1. PICK shown \in Shown :
          /\ panels' = [i \in DOMAIN panels |->
               IF i \in shown THEN Begun(panels[i]) ELSE panels[i]]
          /\ record' = Recorded(shown)
          /\ marker' = (marker \/ Started(shown) # {})
          /\ todo' = Started(shown)
    BY <1>4 DEF Confirm
  <2>2. panels' \in [DOMAIN panels -> Panels]
    BY <1>0, <1>4, <2>1, PanelChanges DEF Confirm
  <2>3. ListsOK' /\ DOMAIN panels' = DOMAIN panels
    BY <1>0, <1>1, <1>4, <2>2 DEF Confirm
  <2>4. record' \in [Hosts -> Records]
    BY <2>1 DEF Recorded, Records, TypeOK
  <2>5. marker' \in BOOLEAN
    BY <2>1
  <2>6. todo' \subseteq DOMAIN panels
    BY <2>1 DEF Started, Shown
  <2> QED
    BY <1>4, <2>3, <2>4, <2>5, <2>6 DEF Confirm, TypeOK
<1>5. ASSUME NEW i, OpenSettings(i) PROVE TypeOK'
  <2>1. i \in DOMAIN panels
    BY <1>5 DEF OpenSettings
  <2>2. panels' \in [DOMAIN panels -> Panels]
    BY <1>0, <1>5, <2>1, PanelChanges DEF OpenSettings
  <2>3. loads' \subseteq Jobs
    BY <1>0, <1>00, <1>5, <2>1 DEF OpenSettings
  <2>4. ListsOK' /\ DOMAIN panels' = DOMAIN panels
    BY <1>0, <1>1, <1>5, <2>2 DEF OpenSettings
  <2> QED
    BY <1>5, <2>3, <2>4 DEF OpenSettings, TypeOK
<1>6. ASSUME NEW i, SavePassword(i) PROVE TypeOK'
  <2>1. i \in DOMAIN panels
    BY <1>6 DEF SavePassword
  <2>2. CASE /\ panels' = [panels EXCEPT ![i].lookup = "answered"]
             /\ UNCHANGED <<lpc, todo, record, marker>>
    <3>1. panels' \in [DOMAIN panels -> Panels]
      BY <1>0, <2>1, <2>2, PanelChanges
    <3>2. ListsOK' /\ DOMAIN panels' = DOMAIN panels
      BY <1>0, <1>1, <1>6, <3>1 DEF SavePassword
    <3> QED
      BY <1>6, <2>2, <3>2 DEF SavePassword, TypeOK
  <2>3. CASE /\ GenRoom /\ panels' = [panels EXCEPT ![i] = Resumed(@)]
             /\ record' = [record EXCEPT ![panels[i].host] = "started"]
             /\ marker' = TRUE
             /\ todo' = {i} /\ lpc' = "spawn"
    <3>1. panels' \in [DOMAIN panels -> Panels]
      BY <1>0, <2>1, <2>3, PanelChanges
    <3>2. ListsOK' /\ DOMAIN panels' = DOMAIN panels
      BY <1>0, <1>1, <1>6, <3>1 DEF SavePassword
    <3>3. record' \in [Hosts -> Records] /\ todo' \subseteq DOMAIN panels /\ lpc' = "spawn"
      BY <1>0, <2>1, <2>3 DEF TypeOK, Records
    <3>4. marker' \in BOOLEAN
      BY <2>3
    <3> QED
      BY <1>6, <3>2, <3>3, <3>4 DEF SavePassword, TypeOK
  <2> QED
    BY <1>6, <2>2, <2>3 DEF SavePassword
<1>7. CASE SwitchView
  <2>1. panels' \in [DOMAIN panels -> Panels]
    BY <1>0, <1>7, PanelChanges DEF SwitchView
  <2>2. ListsOK' /\ DOMAIN panels' = DOMAIN panels
    BY <1>0, <1>1, <1>7, <2>1 DEF SwitchView
  <2> QED
    BY <1>7, <2>2 DEF SwitchView, ViewChosen, TypeOK
<1>8. CASE FetchView
  <2>1. panels' \in [DOMAIN panels -> Panels]
    BY <1>0, <1>8, PanelChanges DEF FetchView
  <2>2. ListsOK' /\ DOMAIN panels' = DOMAIN panels
    BY <1>0, <1>1, <1>8, <2>1 DEF FetchView
  <2>3. \A i \in DOMAIN panels : panels[i].gen + 1 \in 0..MaxGen
    <3>1. GenRoom
      BY <1>8 DEF FetchView
    <3> TAKE i \in DOMAIN panels
    <3>2. panels[i].gen < MaxGen /\ panels[i].gen \in 0..MaxGen
      BY <1>0, <3>1
    <3> QED
      BY <1>0, <3>2
  <2>4. views' \subseteq Jobs
    BY <1>0, <1>00, <1>8, <2>3 DEF FetchView
  <2> QED
    BY <1>8, <2>2, <2>4 DEF FetchView, ViewChosen, TypeOK
<1>9. CASE EditServers
  <2>1. PICK s \in ServerLists :
          panels' = Rebuilt(s) /\ slots' = [i \in DOMAIN s |-> NoTask]
    BY <1>9 DEF EditServers
  <2>2. PICK n \in 1..MaxPanels : s \in [1..n -> Hosts]
    BY DEF ServerLists
  <2>3. \A h \in Hosts : Carried(h) \in {"notasked", "inflight", "answered"}
    BY <1>0 DEF Carried
  <2>4. NextGen \in 0..MaxGen
    BY <1>9, NextGenIsNew, AppAssumption DEF EditServers
  <2>5. panels' \in [1..n -> Panels] /\ slots' \in [1..n -> Slots]
    BY <2>1, <2>2, <2>3, <2>4, NewPanels, NewSlots DEF Rebuilt
  <2>6. ListsOK'
    BY <2>2, <2>5 DEF ListsOK
  <2>7. orphans' \subseteq Jobs
    <3>1. Aborted(DOMAIN slots) \subseteq Jobs
      BY <1>0, <1>00 DEF Aborted, Slots
    <3> QED
      BY <1>0, <1>9, <3>1 DEF EditServers
  <2>8. epoch' \in 0..MaxEpoch /\ todo' \subseteq DOMAIN panels'
    <3>1. todo' = {} /\ epoch' = epoch + 1 /\ epoch < MaxEpoch
      BY <1>9 DEF EditServers, FreeKey, IdleHasNoTodo
    <3> QED
      BY <1>0, <3>1
  <2>9. fate' \in [Hosts -> {"never", "running", "ok", "failed", "lost"}]
    BY <1>9 DEF EditServers, TypeOK
  <2> QED
    BY <1>9, <2>6, <2>7, <2>8, <2>9 DEF EditServers, TypeOK
<1> QED
  BY <1>2, <1>3, <1>4, <1>5, <1>6, <1>7, <1>8, <1>9 DEF Keys

\* Messages that are applied, and the steps of the loop, keep the types.
LEMMA LoopTypes ==
  ASSUME TypeOK, LoopStep \/ Packet
  PROVE  TypeOK'
<1> USE DEF loopVars, taskVars
<1>0. /\ panels \in [DOMAIN panels -> Panels] /\ slots \in [DOMAIN panels -> Slots]
      /\ ListsOK /\ record \in [Hosts -> Records] /\ Budget \in Nat
      /\ \A i \in DOMAIN panels : panels[i].host \in Hosts /\ panels[i].ugen \in 0..MaxGen
  BY ListTypes, AppAssumption DEF TypeOK, Panels
<1>1. ASSUME panels' \in [DOMAIN panels -> Panels], slots' \in [DOMAIN panels -> Slots]
      PROVE  ListsOK' /\ DOMAIN panels' = DOMAIN panels
  BY <1>0, <1>1, ListTypesKept
<1>2. CASE SpawnUpgrades
  <2>1. slots' \in [DOMAIN panels -> Slots]
    BY <1>0, <1>2, ListTypes, NewSlots DEF SpawnUpgrades
  <2>2. ListsOK' /\ DOMAIN panels' = DOMAIN panels
    BY <1>0, <1>1, <1>2, <2>1 DEF SpawnUpgrades
  <2>3. orphans' \subseteq Jobs
    <3>1. \A i \in todo :
            slots[i] \in Slots /\ Job(i, slots[i].gen, epoch, panels[i].host) \in Jobs
      BY <1>0, ListTypes DEF Job, Jobs, Slots, TypeOK
    <3>2. Aborted(todo) \subseteq Jobs
      BY <3>1 DEF Aborted
    <3> QED
      BY <1>2, <3>2 DEF SpawnUpgrades, TypeOK
  <2>4. fate' \in [Hosts -> {"never", "running", "ok", "failed", "lost"}]
    BY <1>2 DEF SpawnUpgrades, TypeOK
  <2> QED
    BY <1>2, <2>2, <2>3, <2>4 DEF SpawnUpgrades, TypeOK
<1>3. ASSUME Apply, lpc' \in {"idle", "drain"}, left' \in 0..Budget
      PROVE  TypeOK'
  <2> DEFINE m == Head(queue)
  <2>1. m \in Msgs /\ queue' \in Seq(Msgs) /\ Len(queue') <= QueueCap
    BY <1>3, HeadTypes DEF Apply
  <2>2. panels' \in [DOMAIN panels -> Panels]
    <3> HIDE DEF m
    <3>1. FinishRun(m) \/ AnswerLookup(m) \/ IgnoreMsg(m)
      BY <1>3 DEF Apply, m
    <3>2. CASE FinishRun(m)
      <4>1. m.panel \in DOMAIN panels /\ panels' = [panels EXCEPT ![m.panel].ust = "done"]
        BY <3>2 DEF FinishRun, Finishes, Belongs, Known
      <4>2. [panels[m.panel] EXCEPT !.ust = "done"] \in Panels
        BY <1>0, <4>1, PanelChanges
      <4> QED
        BY <1>0, <4>1, <4>2
    <3>3. CASE AnswerLookup(m)
      <4>1. /\ m.panel \in DOMAIN panels
            /\ panels' = [panels EXCEPT ![m.panel].lookup = "answered"]
        BY <3>3 DEF AnswerLookup, Answers, Known
      <4>2. [panels[m.panel] EXCEPT !.lookup = "answered"] \in Panels
        BY <1>0, <4>1, PanelChanges
      <4> QED
        BY <1>0, <4>1, <4>2
    <3>4. CASE IgnoreMsg(m)
      BY <1>0, <3>4 DEF IgnoreMsg
    <3> QED
      BY <3>1, <3>2, <3>3, <3>4
  <2>3. ListsOK' /\ DOMAIN panels' = DOMAIN panels
    BY <1>0, <1>1, <1>3, <2>2 DEF Apply
  <2>4. record' \in [Hosts -> Records]
    <3>1. CASE FinishRun(m)
      <4>1. m.res \in Records
        BY <2>1, <3>1 DEF FinishRun, Finishes, Msgs, Results, Records
      <4> QED
        BY <1>0, <3>1, <4>1 DEF FinishRun
    <3>2. CASE UNCHANGED record
      BY <1>0, <3>2
    <3> QED
      BY <1>3, <3>1, <3>2 DEF Apply, AnswerLookup, IgnoreMsg
  <2>5. marker' \in BOOLEAN /\ armed' \in BOOLEAN
    BY <1>3, Zenon DEF Apply, FinishRun, AnswerLookup, IgnoreMsg, TypeOK
  <2> QED
    BY <1>3, <2>1, <2>3, <2>4, <2>5 DEF Apply, TypeOK
<1>4. CASE Receive \/ Drain
  BY <1>0, <1>3, <1>4 DEF Receive, Drain, TypeOK
<1>5. CASE EndDrain \/ Packet
  <2>1. left' \in 0..Budget /\ lpc' \in {"drain", "watch"}
    <3>1. 0 \in 0..Budget
      BY <1>0
    <3> QED
      BY <1>5, <3>1 DEF EndDrain, Packet
  <2>2. UNCHANGED <<todo, panels, epoch, boots, modal, armed, queue, taskVars, record,
                    marker, fate>>
    BY <1>5 DEF EndDrain, Packet
  <2> QED
    BY <2>1, <2>2 DEF TypeOK, ListsOK
<1>6. CASE Watchdog
  <2>1. panels' \in [DOMAIN panels -> Panels]
    BY <1>0, <1>6, PanelChanges DEF Watchdog
  <2>2. ListsOK' /\ DOMAIN panels' = DOMAIN panels
    BY <1>0, <1>1, <1>6, <2>1 DEF Watchdog
  <2>3. record' \in [Hosts -> Records]
    BY <1>0, <1>6 DEF Watchdog, WatchdogVerdict, Records
  <2> QED
    BY <1>6, <2>2, <2>3 DEF Watchdog, TypeOK
<1> QED
  BY <1>2, <1>4, <1>5, <1>6 DEF LoopStep

\* The steps of the tasks keep the types.
LEMMA TaskTypes ==
  ASSUME TypeOK, TaskStep
  PROVE  TypeOK'
<1> USE DEF loopVars, LoopAlone
<1>0. /\ panels \in [DOMAIN panels -> Panels] /\ slots \in [DOMAIN panels -> Slots]
      /\ ListsOK /\ DOMAIN panels \subseteq 1..MaxPanels /\ DOMAIN slots = DOMAIN panels
      /\ fate \in [Hosts -> {"never", "running", "ok", "failed", "lost"}]
      /\ epoch \in 0..MaxEpoch
      /\ \A i \in DOMAIN panels : panels[i].host \in Hosts /\ slots[i].gen \in 0..MaxGen
  BY ListTypes DEF TypeOK, Panels, Slots
<1>1. ASSUME UNCHANGED panels, slots' \in [DOMAIN panels -> Slots]
      PROVE  ListsOK' /\ DOMAIN panels' = DOMAIN panels
  BY <1>0, <1>1, ListTypesKept
<1>2. ASSUME NEW i, SendDone(i) PROVE TypeOK'
  <2>1. i \in DOMAIN panels
    BY <1>0, <1>2 DEF SendDone
  <2>2. \A res \in {"ok", "failed"} :
          Msg("done", i, slots[i].gen, epoch, panels[i].host, res) \in Msgs
    BY <1>0, <2>1 DEF Msg, Msgs, Kinds, Results
  <2>3. queue' \in Seq(Msgs) /\ Len(queue') <= QueueCap
    BY <1>2, <2>2, PostTypes DEF SendDone
  <2>4. slots' \in [DOMAIN panels -> Slots]
    BY <1>0, <1>2, <2>1, NewSlots DEF SendDone
  <2>5. fate' \in [Hosts -> {"never", "running", "ok", "failed", "lost"}]
    BY <1>0, <1>2 DEF SendDone
  <2> QED
    BY <1>1, <1>2, <2>3, <2>4, <2>5 DEF SendDone, TypeOK
<1>3. ASSUME NEW i, FinishTask(i) \/ TaskDies(i) PROVE TypeOK'
  <2>1. slots' \in [DOMAIN panels -> Slots]
    <3>1. i \in DOMAIN panels /\ slots' = [slots EXCEPT ![i].st = "finished"]
      BY <1>0, <1>3 DEF FinishTask, TaskDies
    <3>2. [slots[i] EXCEPT !.st = "finished"] \in Slots
      BY <1>0, <3>1, NewSlots
    <3> QED
      BY <1>0, <3>1, <3>2
  <2>2. fate' \in [Hosts -> {"never", "running", "ok", "failed", "lost"}]
    BY <1>0, <1>3 DEF FinishTask, TaskDies
  <2> QED
    BY <1>1, <1>3, <2>1, <2>2 DEF FinishTask, TaskDies, TypeOK
<1>4. ASSUME NEW t \in Jobs, NEW k \in Kinds, NEW res \in Results,
             k = "done" <=> res # "none",
             Post(Msg(k, t.panel, t.gen, t.epoch, t.host, res))
      PROVE  queue' \in Seq(Msgs) /\ Len(queue') <= QueueCap
  <2>1. Msg(k, t.panel, t.gen, t.epoch, t.host, res) \in Msgs
    BY <1>4 DEF Msg, Msgs, Jobs
  <2> QED
    BY <1>4, <2>1, PostTypes
<1>5. CASE OrphanEnds
  <2>1. queue' \in Seq(Msgs) /\ Len(queue') <= QueueCap /\ orphans' \subseteq orphans
    BY <1>4, <1>5 DEF OrphanEnds, TypeOK, Kinds, Results
  <2> QED
    BY <1>5, <2>1 DEF OrphanEnds, TypeOK, ListsOK
<1>6. CASE LookupAnswers
  <2>1. queue' \in Seq(Msgs) /\ Len(queue') <= QueueCap /\ loads' \subseteq loads
    BY <1>4, <1>6 DEF LookupAnswers, TypeOK, Kinds, Results
  <2> QED
    BY <1>6, <2>1 DEF LookupAnswers, TypeOK, ListsOK
<1>7. CASE ViewEnds
  <2>1. queue' \in Seq(Msgs) /\ Len(queue') <= QueueCap /\ views' \subseteq views
    BY <1>4, <1>7 DEF ViewEnds, TypeOK, Kinds, Results
  <2> QED
    BY <1>7, <2>1 DEF ViewEnds, TypeOK, ListsOK
<1> QED
  BY <1>2, <1>3, <1>5, <1>6, <1>7 DEF TaskStep

\* Leaving, and the next start, keep the types.
LEMMA BootTypes ==
  ASSUME TypeOK, IdleHasNoTodo, End \/ Restart
  PROVE  TypeOK'
<1> USE DEF loopVars, taskVars
<1>0. /\ panels \in [DOMAIN panels -> Panels] /\ slots \in [DOMAIN panels -> Slots]
      /\ ListsOK /\ DOMAIN slots = DOMAIN panels /\ 0 \in 0..MaxGen
      /\ \A i \in DOMAIN panels : panels[i].host \in Hosts
  BY ListTypes, AppAssumption DEF TypeOK, Panels
<1>1. CASE End
  <2>1. \A h \in Hosts : Panel(h, 0, "notasked") \in Panels
    BY <1>0, NewPanels
  <2>2. panels' \in [DOMAIN panels -> Panels] /\ slots' \in [DOMAIN panels -> Slots]
    BY <1>0, <1>1, <2>1, NewSlots DEF End, Boot
  <2>3. ListsOK'
    BY <1>0, <2>2, ListTypesKept
  <2>4. fate' \in [Hosts -> {"never", "running", "ok", "failed", "lost"}]
    BY <1>1 DEF End, TypeOK
  <2>5. queue' \in Seq(Msgs) /\ Len(queue') <= QueueCap /\ 0 \in 0..Budget
    BY <1>1, AppAssumption DEF End
  <2> QED
    BY <1>1, <2>3, <2>4, <2>5 DEF End, TypeOK
<1>2. CASE Restart
  <2>1. boots' \in 0..MaxBoots /\ epoch' \in 0..MaxEpoch
    BY <1>2, AppAssumption DEF Restart, TypeOK
  <2> QED
    BY <1>2, <2>1 DEF Restart, TypeOK, ListsOK
<1> QED
  BY <1>1, <1>2

\* Every step keeps the types.
LEMMA TypeStep ==
  ASSUME TypeOK, IdleHasNoTodo, [Next]_vars
  PROVE  TypeOK'
<1>1. CASE UNCHANGED vars
  BY <1>1 DEF vars, loopVars, taskVars, TypeOK, ListsOK
<1> QED
  BY <1>1, KeyTypes, LoopTypes, TaskTypes, BootTypes DEF Next

---------------------------------------------------------------------------
\* A step that keeps the list: no generation goes back, and a run that starts is
\* newer than all before on its panel.
Grows ==
  /\ DOMAIN panels' = DOMAIN panels
  /\ \A i \in DOMAIN panels :
       /\ panels'[i].host = panels[i].host /\ panels[i].gen <= panels'[i].gen
       /\ panels'[i].ust = "started" =>
            \/ panels[i].ust = "started" /\ panels'[i].ugen = panels[i].ugen
            \/ panels[i].gen < panels'[i].ugen

\* A step that keeps what the last word of a panel's run says.
WordsKept ==
  \A i \in DOMAIN panels :
    slots[i].st \in {"sent", "finished"} /\ slots[i].gen = panels[i].ugen =>
      /\ slots'[i].st \in {"sent", "finished"} /\ slots'[i].gen = slots[i].gen
      /\ fate'[panels[i].host] = fate[panels[i].host]

\* The types that the steps below need.
LEMMA AppFacts ==
  ASSUME TypeOK
  PROVE  /\ panels \in [DOMAIN panels -> Panels] /\ slots \in [DOMAIN panels -> Slots]
         /\ DOMAIN slots = DOMAIN panels /\ DOMAIN panels # {}
         /\ \A i \in DOMAIN panels :
              /\ panels[i].host \in Hosts /\ panels[i].gen \in Nat /\ panels[i].ugen \in Nat
              /\ slots[i].gen \in Nat
         /\ epoch \in Nat /\ todo \subseteq DOMAIN panels
         /\ record \in [Hosts -> Records]
         /\ fate \in [Hosts -> {"never", "running", "ok", "failed", "lost"}]
         /\ \A j \in orphans \cup views \cup loads :
              j \in Jobs /\ j.gen \in Nat /\ j.epoch \in Nat
         /\ \A m \in Msgs : m.gen \in Nat /\ m.epoch \in Nat
<1>1. \A g \in 0..MaxGen : g \in Nat
  BY AppAssumption
<1>2. \A e \in 0..MaxEpoch : e \in Nat
  BY AppAssumption
<1>3. /\ panels \in [DOMAIN panels -> Panels] /\ slots \in [DOMAIN panels -> Slots]
      /\ DOMAIN slots = DOMAIN panels /\ DOMAIN panels # {}
  BY ListTypes DEF TypeOK
<1>4. \A i \in DOMAIN panels :
        /\ panels[i].host \in Hosts /\ panels[i].gen \in Nat /\ panels[i].ugen \in Nat
        /\ slots[i].gen \in Nat
  BY <1>1, <1>3 DEF Panels, Slots
<1>5. \A j \in orphans \cup views \cup loads : j \in Jobs /\ j.gen \in Nat /\ j.epoch \in Nat
  BY <1>1, <1>2 DEF TypeOK, Jobs
<1>6. \A m \in Msgs : m.gen \in Nat /\ m.epoch \in Nat
  BY <1>1, <1>2 DEF Msgs
<1> QED
  BY <1>2, <1>3, <1>4, <1>5, <1>6 DEF TypeOK

\* The sender of an AuxDone stays placed, and does not become the run that its
\* panel waits for.
LEMMA PlacedKept ==
  ASSUME TypeOK, TypeOK', Grows, NEW j, j.gen \in Nat, Placed(j)
  PROVE  /\ Placed(j)'
         /\ Belongs(j)' => Belongs(j)
<1>0. /\ DOMAIN panels' = DOMAIN panels /\ DOMAIN panels # {}
      /\ \A i \in DOMAIN panels :
           /\ panels[i].gen \in Nat /\ panels[i].ugen \in Nat
           /\ panels'[i].gen \in Nat /\ panels'[i].ugen \in Nat
  <2>1. PICK n \in 1..MaxPanels : panels' \in [1..n -> Panels]
    BY DEF TypeOK, ListsOK
  <2>2. \A g \in 0..MaxGen : g \in Nat
    BY AppAssumption
  <2>3. \A i \in DOMAIN panels' : panels'[i].gen \in Nat /\ panels'[i].ugen \in Nat
    BY <2>1, <2>2 DEF Panels
  <2> QED
    BY <2>3, AppFacts DEF Grows
<1>1. Belongs(j)' => Belongs(j)
  <2> SUFFICES ASSUME Belongs(j)' PROVE Belongs(j)
    OBVIOUS
  <2> DEFINE i == j.panel
  <2>1. i \in DOMAIN panels /\ panels'[i].ust = "started" /\ panels'[i].ugen = j.gen
    BY <1>0 DEF Belongs, Known
  <2>2. j.gen <= panels[i].gen
    BY <1>0, <2>1 DEF Placed, Stale
  <2>3. panels[i].ust = "started" /\ panels'[i].ugen = panels[i].ugen
    BY <1>0, <2>1, <2>2 DEF Grows
  <2> QED
    BY <2>1, <2>3 DEF Belongs, Known
<1>2. Placed(j)'
  <2>1. CASE /\ j.panel \in DOMAIN panels
             /\ j.host = panels[j.panel].host /\ j.gen <= panels[j.panel].gen
    BY <1>0, <2>1 DEF Placed, Grows
  <2>2. CASE Stale(j.gen)
    <3> SUFFICES ASSUME NEW k \in DOMAIN panels
                 PROVE  /\ j.gen < panels'[k].gen
                        /\ panels'[k].ust = "started" => j.gen < panels'[k].ugen
      BY <1>0 DEF Placed, Stale
    <3> QED
      BY <1>0, <2>2 DEF Stale, Grows
  <2> QED
    BY <2>1, <2>2 DEF Placed
<1> QED
  BY <1>1, <1>2

\* What is on its way stays good.
LEMMA PendingKept ==
  ASSUME TypeOK, TypeOK', PendingInv, Grows, WordsKept, epoch' = epoch
  PROVE  /\ queue \in Seq(GoodMsgs')
         /\ \A j \in orphans \cup views : Placed(j)' /\ ~Belongs(j)'
         /\ \A j \in loads : LookupPlaced(j)'
<1>1. \A j \in orphans \cup views : Placed(j)' /\ ~Belongs(j)'
  BY AppFacts, PlacedKept DEF PendingInv
<1>2. ASSUME NEW j, LookupPlaced(j) PROVE LookupPlaced(j)'
  BY <1>2 DEF LookupPlaced, Grows
<1>3. ASSUME NEW m \in GoodMsgs PROVE m \in GoodMsgs'
  <2>1. m \in Msgs /\ m.gen \in Nat
    BY AppFacts DEF GoodMsgs
  <2>2. CASE m.kind = "done"
    <3>1. Placed(m)' /\ (Belongs(m)' => Belongs(m))
      BY <2>1, <2>2, PlacedKept DEF GoodMsgs
    <3>2. OwnWord(m)'
      <4> SUFFICES ASSUME Belongs(m)' PROVE OwnWord(m)'
        BY DEF OwnWord
      <4>1. Belongs(m) /\ OwnWord(m)
        BY <2>2, <3>1 DEF GoodMsgs
      <4>2. /\ m.panel \in DOMAIN panels /\ slots[m.panel].gen = panels[m.panel].ugen
            /\ slots[m.panel].st \in {"sent", "finished"}
        BY <4>1 DEF Belongs, Known, OwnWord
      <4>3. /\ slots'[m.panel].st \in {"sent", "finished"} /\ slots'[m.panel].gen = m.gen
            /\ fate'[panels'[m.panel].host] = m.res
        BY <4>1, <4>2 DEF WordsKept, Grows, OwnWord
      <4> QED
        BY <4>3 DEF OwnWord
    <3> QED
      BY <2>1, <2>2, <3>1, <3>2 DEF GoodMsgs
  <2>3. CASE m.kind = "cred"
    BY <1>2, <2>1, <2>3 DEF GoodMsgs
  <2> QED
    BY <2>1, <2>2, <2>3 DEF GoodMsgs, Msgs, Kinds
<1>4. queue \in Seq(GoodMsgs')
  BY <1>3, SeqMonotonic DEF PendingInv
<1> QED
  BY <1>1, <1>2, <1>4 DEF PendingInv

---------------------------------------------------------------------------
\* The questions, packets and the end of a drain change nothing of the runs.
LEMMA QuietSteps ==
  ASSUME TypeOK, TypeOK', AppInv,
         \/ AskToConfirm \/ AskAfterUnlock \/ CancelConfirm \/ RequestQuit \/ CancelQuit
         \/ Packet \/ EndDrain
  PROVE  AppInv'
<1>1. /\ UNCHANGED <<panels, slots, epoch, queue, orphans, loads, views, todo, record,
                     marker, fate>>
      /\ lpc # "down" /\ (lpc' = lpc \/ lpc' \in {"drain", "watch"})
      /\ lpc = "spawn" => lpc' = lpc
  BY DEF AskToConfirm, AskAfterUnlock, CancelConfirm, ConfirmationIs, RequestQuit, CancelQuit,
         Packet, EndDrain, FreeKey, loopVars, taskVars
<1>2. Grows /\ WordsKept
  BY <1>1, AppFacts DEF Grows, WordsKept
<1>3. PendingInv'
  BY <1>1, <1>2, PendingKept DEF AppInv, PendingInv
<1>4. PanelsInv' /\ RunsInv'
  BY <1>1 DEF AppInv, PanelsInv, RunsInv, StartedHasItsTask, OkIsTrue, PowerLossIsSeen
<1>5. TodoInv'
  BY <1>1 DEF AppInv, TodoInv, IdleHasNoTodo
<1> QED
  BY <1>3, <1>4, <1>5 DEF AppInv

\* A key that changes views, or asks for credentials, leaves every run alone: the
\* tasks it starts are of this list, and no view has the generation of a run.
LEMMA ViewSteps ==
  ASSUME TypeOK, TypeOK', AppInv,
         /\ UNCHANGED <<lpc, epoch, queue, slots, orphans, todo, record, marker, fate>>
         /\ DOMAIN panels' = DOMAIN panels
         /\ \A i \in DOMAIN panels :
              /\ panels'[i].host = panels[i].host /\ panels[i].gen <= panels'[i].gen
              /\ panels'[i].ust = panels[i].ust /\ panels'[i].ugen = panels[i].ugen
         /\ \A j \in views' \ views :
              /\ j.panel \in DOMAIN panels /\ j.host = panels[j.panel].host
              /\ panels[j.panel].gen < j.gen /\ j.gen <= panels'[j.panel].gen
         /\ \A j \in loads' \ loads : 
              /\ j.panel \in DOMAIN panels /\ j.host = panels[j.panel].host
              /\ j.epoch = epoch,
         lpc # "down"
  PROVE  AppInv'
<1>1. Grows /\ WordsKept
  BY AppFacts DEF Grows, WordsKept
<1>2. PendingInv'
  <2>1. /\ queue \in Seq(GoodMsgs')
        /\ \A j \in orphans \cup views : Placed(j)' /\ ~Belongs(j)'
        /\ \A j \in loads : LookupPlaced(j)'
    BY <1>1, PendingKept DEF AppInv
  <2>2. ASSUME NEW j \in views' \ views PROVE Placed(j)' /\ ~Belongs(j)'
    <3>1. /\ j.panel \in DOMAIN panels /\ j.host = panels'[j.panel].host
          /\ panels[j.panel].gen < j.gen /\ j.gen <= panels'[j.panel].gen
      BY <2>2
    <3>2. panels[j.panel].ugen <= panels[j.panel].gen /\ panels[j.panel].ugen \in Nat
          /\ panels[j.panel].gen \in Nat
      BY <3>1, AppFacts DEF AppInv, PanelsInv
    <3>3. j.gen \in Nat
      <4>1. j \in Jobs /\ MaxGen \in Nat
        BY <2>2, AppAssumption DEF TypeOK
      <4>2. j.gen \in 0..MaxGen
        BY <4>1 DEF Jobs
      <4> QED
        BY <4>1, <4>2
    <3>4. panels'[j.panel].ugen = panels[j.panel].ugen
      BY <3>1
    <3> QED
      BY <3>1, <3>2, <3>3, <3>4 DEF Placed, Belongs
  <2>3. ASSUME NEW j \in loads' \ loads PROVE LookupPlaced(j)'
    <3>1. /\ j.panel \in DOMAIN panels' /\ j.host = panels'[j.panel].host
          /\ j.epoch = epoch' /\ epoch' \in Nat
      BY <2>3, AppFacts
    <3> QED
      BY <3>1 DEF LookupPlaced
  <2> QED
    BY <2>1, <2>2, <2>3 DEF PendingInv
<1>3. PanelsInv'
  <2>1. \A i \in DOMAIN panels : 
          slots[i].gen <= panels'[i].gen /\ panels'[i].ugen <= panels'[i].gen
    <3> TAKE i \in DOMAIN panels
    <3>1. panels[i].gen <= panels'[i].gen /\ panels'[i].gen \in Nat
      <4>1. PICK n \in 1..MaxPanels : panels' \in [1..n -> Panels]
        BY DEF TypeOK, ListsOK
      <4>2. \A g \in 0..MaxGen : g \in Nat
        BY AppAssumption
      <4> QED
        BY <4>1, <4>2 DEF Panels
    <3>2. slots[i].gen <= panels[i].gen /\ panels[i].ugen <= panels[i].gen
      BY DEF AppInv, PanelsInv
    <3> QED
      BY <3>1, <3>2, AppFacts
  <2> QED
    BY <2>1 DEF AppInv, PanelsInv, Runs
<1>4. RunsInv'
  BY AppFacts DEF AppInv, RunsInv, StartedHasItsTask, OkIsTrue, PowerLossIsSeen
<1>5. TodoInv'
  BY AppFacts DEF AppInv, TodoInv, IdleHasNoTodo
<1> QED
  BY <1>2, <1>3, <1>4, <1>5 DEF AppInv

\* The keys of that kind.
LEMMA ViewKeys ==
  ASSUME TypeOK, TypeOK', AppInv, EnterUpgradeView \/ SwitchView \/ FetchView
  PROVE  AppInv'
<1>0. /\ lpc = "idle"
      /\ UNCHANGED <<lpc, epoch, queue, slots, orphans, todo, record, marker, fate>>
  BY DEF EnterUpgradeView, SwitchView, FetchView, ViewChosen, FreeKey, loopVars, taskVars
<1>1. CASE EnterUpgradeView
  <2>1. /\ DOMAIN panels' = DOMAIN panels /\ views' = views
        /\ \A i \in DOMAIN panels :
             /\ panels'[i].host = panels[i].host /\ panels'[i].gen = panels[i].gen
             /\ panels'[i].ust = panels[i].ust /\ panels'[i].ugen = panels[i].ugen
    BY ZenonT(40), <1>1, AppFacts DEF EnterUpgradeView, Panels
  <2>2. \A j \in loads' \ loads : 
          /\ j.panel \in DOMAIN panels /\ j.host = panels[j.panel].host
          /\ j.epoch = epoch
    <3> TAKE j \in loads' \ loads
    <3>1. PICK i \in DOMAIN panels : j = Job(i, 0, epoch, panels[i].host)
      BY <1>1 DEF EnterUpgradeView
    <3> QED
      BY <3>1 DEF Job
  <2>3. \A i \in DOMAIN panels : panels[i].gen <= panels'[i].gen
    BY <2>1, AppFacts
  <2> QED
    BY <1>0, <2>1, <2>2, <2>3, ViewSteps
<1>2. CASE SwitchView
  <2>1. /\ DOMAIN panels' = DOMAIN panels /\ views' = views /\ loads' = loads
        /\ \A i \in DOMAIN panels :
             /\ panels'[i].host = panels[i].host
             /\ panels'[i].gen = panels[i].gen \/ panels'[i].gen = panels[i].gen + 1
             /\ panels'[i].ust = panels[i].ust /\ panels'[i].ugen = panels[i].ugen
    BY ZenonT(40), <1>2, AppFacts DEF SwitchView, Panels, taskVars
  <2>2. \A i \in DOMAIN panels : panels[i].gen <= panels'[i].gen
    BY <2>1, AppFacts
  <2> QED
    BY <1>0, <2>1, <2>2, ViewSteps
<1>3. CASE FetchView
  <2>1. /\ DOMAIN panels' = DOMAIN panels /\ loads' = loads
        /\ \A i \in DOMAIN panels :
             /\ panels'[i].host = panels[i].host /\ panels'[i].gen = panels[i].gen + 1
             /\ panels'[i].ust = panels[i].ust /\ panels'[i].ugen = panels[i].ugen
    <3>1. /\ panels' = [i \in DOMAIN panels |-> [panels[i] EXCEPT !.mode = "other", !.gen = @ + 1]]
          /\ loads' = loads
      BY <1>3 DEF FetchView
    <3>2. DOMAIN panels' = DOMAIN panels
      BY <3>1
    <3>3. ASSUME NEW i \in DOMAIN panels
          PROVE  /\ panels'[i].host = panels[i].host /\ panels'[i].gen = panels[i].gen + 1
                 /\ panels'[i].ust = panels[i].ust /\ panels'[i].ugen = panels[i].ugen
      <4>1. panels[i] \in Panels
        BY AppFacts
      <4>2. panels'[i] = [panels[i] EXCEPT !.mode = "other", !.gen = panels[i].gen + 1]
        BY <3>1
      <4> QED
        BY <4>1, <4>2 DEF Panels
    <3> QED
      BY <3>1, <3>2, <3>3
  <2>2. \A j \in views' \ views : 
          /\ j.panel \in DOMAIN panels /\ j.host = panels[j.panel].host
          /\ j.gen = panels[j.panel].gen + 1
    <3> TAKE j \in views' \ views
    <3>1. PICK i \in DOMAIN panels : j = Job(i, panels[i].gen + 1, epoch, panels[i].host)
      BY <1>3 DEF FetchView
    <3> QED
      BY <3>1 DEF Job
  <2>3. \A i \in DOMAIN panels : panels[i].gen <= panels'[i].gen
    BY <2>1, AppFacts
  <2>4. \A j \in views' \ views : 
          panels[j.panel].gen < j.gen /\ j.gen <= panels'[j.panel].gen
    BY <2>1, <2>2, AppFacts
  <2> QED
    BY <1>0, <2>1, <2>2, <2>3, <2>4, ViewSteps
<1> QED
  BY <1>1, <1>2, <1>3

\* And the keys on one panel: settings, and a password that starts nothing.
LEMMA LookupKeys ==
  ASSUME TypeOK, TypeOK', AppInv, NEW i, lpc = "idle", i \in DOMAIN panels, NEW l,
         panels' = [panels EXCEPT ![i].lookup = l],
         loads' \in {loads, loads \cup {Job(i, 0, epoch, panels[i].host)}},
         UNCHANGED <<lpc, epoch, queue, slots, orphans, views, todo, record, marker,
                     fate>>
  PROVE  AppInv'
<1>1. /\ DOMAIN panels' = DOMAIN panels
      /\ \A k \in DOMAIN panels :
           /\ panels'[k].host = panels[k].host /\ panels'[k].gen = panels[k].gen
           /\ panels'[k].ust = panels[k].ust /\ panels'[k].ugen = panels[k].ugen
  BY AppFacts DEF Panels
<1>2. \A j \in loads' \ loads : 
        /\ j.panel \in DOMAIN panels /\ j.host = panels[j.panel].host
        /\ j.epoch = epoch
  BY DEF Job
<1>3. \A k \in DOMAIN panels : panels[k].gen <= panels'[k].gen
  BY <1>1, AppFacts
<1> QED
  BY <1>1, <1>2, <1>3, ViewSteps

\* The keys that start runs, of the panels of todo': each run is recorded first,
\* and is newer than all that is on its way, a run that it replaces included.
LEMMA StartKeys ==
  ASSUME TypeOK, TypeOK', AppInv, lpc = "idle", lpc' = "spawn",
         UNCHANGED <<epoch, queue, orphans, views, loads, slots, fate>>,
         todo' \subseteq DOMAIN panels,
         DOMAIN panels' = DOMAIN panels,
         \A i \in DOMAIN panels :
           /\ panels'[i].host = panels[i].host
           /\ \/ panels'[i].gen = panels[i].gen + 1 /\ panels'[i].ugen = panels[i].gen + 1
              \/ panels'[i].gen = panels[i].gen /\ panels'[i].ugen = panels[i].ugen,
         \A i \in todo' :
           /\ Runs(panels[i])
           /\ panels'[i].ust = "started" /\ panels'[i].ugen = panels[i].gen + 1,
         \A i \in DOMAIN panels \ todo' :
           panels'[i].ust = "started" =>
             panels[i].ust = "started" /\ panels'[i].ugen = panels[i].ugen,
         \A i \in DOMAIN panels \ todo' :
           panels[i].ust = "started" => panels'[i].ust = "started",
         \A h \in Hosts : 
           record'[h] = IF \E i \in todo' : panels[i].host = h THEN "started" ELSE record[h],
         marker' = (marker \/ todo' # {})
  PROVE  AppInv'
<1>0. /\ todo = {} /\ DOMAIN slots = DOMAIN panels
      /\ \A i \in DOMAIN panels :
           /\ panels[i].host \in Hosts /\ panels[i].gen \in Nat /\ panels[i].ugen \in Nat
           /\ slots[i].gen \in Nat
           /\ slots[i].gen <= panels[i].gen /\ panels[i].ugen <= panels[i].gen
  BY AppFacts DEF AppInv, PanelsInv, TodoInv, IdleHasNoTodo
<1>1. Grows
  BY <1>0 DEF Grows
<1>2. PendingInv'
  <2>1. WordsKept
    BY DEF WordsKept
  <2> QED
    BY <1>1, <2>1, PendingKept DEF AppInv, PendingInv
<1>3. PanelsInv'
  <2>1. \A i \in DOMAIN panels : 
          slots[i].gen <= panels'[i].gen /\ panels'[i].ugen <= panels'[i].gen
    BY <1>0
  <2> QED
    BY <2>1 DEF AppInv, PanelsInv, Runs
<1>4. TodoInv'
  <2>1. \A i \in todo' : slots[i].gen < panels'[i].ugen
    BY <1>0
  <2>2. \A i \in todo' : record'[panels'[i].host] = "started" /\ marker'
    BY <1>0
  <2> QED
    BY <2>1, <2>2 DEF TodoInv, IdleHasNoTodo
<1>5. StartedHasItsTask'
  BY <1>0 DEF AppInv, RunsInv, StartedHasItsTask
<1>6. \A i \in DOMAIN panels :
        slots[i].st = "running" =>
          /\ fate[panels[i].host] = "running" /\ panels'[i].ust = "started"
          /\ i \notin todo' => panels'[i].ugen = slots[i].gen
  BY <1>0 DEF AppInv, RunsInv
<1>7. OkIsTrue' /\ PowerLossIsSeen'
  <2>1. /\ \A h \in Hosts : record'[h] = "ok" => record[h] = "ok"
        /\ \A h \in Hosts : record[h] = "started" => record'[h] = "started"
        /\ marker => marker'
    OBVIOUS
  <2> QED
    BY <2>1 DEF AppInv, RunsInv, OkIsTrue, PowerLossIsSeen
<1>8. RunsInv'
  BY <1>5, <1>6, <1>7 DEF AppInv, RunsInv
<1> QED
  BY <1>2, <1>3, <1>4, <1>8 DEF AppInv

\* Confirming a run keeps the invariant.
LEMMA ConfirmStep ==
  ASSUME TypeOK, TypeOK', AppInv, Confirm
  PROVE  AppInv'
<1>1. PICK shown \in Shown :
        /\ panels' = [i \in DOMAIN panels |->
             IF i \in shown THEN Begun(panels[i]) ELSE panels[i]]
        /\ record' = Recorded(shown)
        /\ marker' = (marker \/ Started(shown) # {})
        /\ todo' = Started(shown)
  BY DEF Confirm
<1>3. /\ lpc = "idle" /\ lpc' = "spawn"
      /\ UNCHANGED <<epoch, queue, orphans, views, loads, slots, fate>>
  BY DEF Confirm, taskVars
<1>4. todo' \subseteq DOMAIN panels /\ \A i \in DOMAIN panels : 
        i \in todo' <=> i \in shown /\ Runs(panels[i])
  BY <1>1 DEF Started, Shown
<1>5. ASSUME NEW i \in DOMAIN panels
      PROVE  /\ panels'[i].host = panels[i].host
             /\ \/ panels'[i].gen = panels[i].gen + 1 /\ panels'[i].ugen = panels[i].gen + 1
                \/ panels'[i].gen = panels[i].gen /\ panels'[i].ugen = panels[i].ugen
             /\ i \in todo' =>
                  panels'[i].ust = "started" /\ panels'[i].ugen = panels[i].gen + 1
             /\ i \notin todo' =>
                  \/ panels'[i].ust = "done" /\ ~Runs(panels[i])
                  \/ panels'[i] = panels[i]
  <2>1. panels[i] \in Panels
    BY AppFacts
  <2>2. CASE i \in shown
    <3>1. panels'[i] = Begun(panels[i])
      BY <1>1, <2>2
    <3> QED
      BY <1>4, <2>1, <2>2, <3>1 DEF Begun, Panels
  <2>3. CASE i \notin shown
    BY <1>1, <1>4, <2>3
  <2> QED
    BY <2>2, <2>3
<1>6. \A h \in Hosts : 
        record'[h] = IF \E i \in todo' : panels[i].host = h THEN "started" ELSE record[h]
  BY <1>1 DEF Recorded
<1>7. DOMAIN panels' = DOMAIN panels /\ marker' = (marker \/ todo' # {})
  BY <1>1
<1>8. \A i \in DOMAIN panels \ todo' :
        /\ panels'[i].ust = "started" =>
             panels[i].ust = "started" /\ panels'[i].ugen = panels[i].ugen
        /\ panels[i].ust = "started" => panels'[i].ust = "started"
  BY <1>5 DEF AppInv, PanelsInv
<1> QED
  BY <1>3, <1>4, <1>5, <1>6, <1>7, <1>8, StartKeys

\* Saving a password keeps the invariant.
LEMMA SaveStep ==
  ASSUME TypeOK, TypeOK', AppInv, NEW i, SavePassword(i)
  PROVE  AppInv'
<1>0. /\ FreeKey /\ i \in DOMAIN panels
      /\ UNCHANGED <<left, epoch, boots, modal, armed, queue, slots, orphans, loads, views,
                     fate>>
  BY DEF SavePassword, taskVars
<1>1. CASE /\ panels' = [panels EXCEPT ![i].lookup = "answered"]
           /\ UNCHANGED <<lpc, todo, record, marker>>
  BY <1>0, <1>1, LookupKeys DEF FreeKey
<1>2. CASE /\ Runs(panels[i]) /\ panels[i].ust # "started"
           /\ panels' = [panels EXCEPT ![i] = Resumed(@)]
           /\ record' = [record EXCEPT ![panels[i].host] = "started"]
           /\ marker' = TRUE
           /\ todo' = {i} /\ lpc' = "spawn"
  <2>1. /\ panels'[i].host = panels[i].host /\ panels'[i].gen = panels[i].gen + 1
        /\ panels'[i].ugen = panels[i].gen + 1 /\ panels'[i].ust = "started"
    <3>1. panels[i] \in Panels /\ panels'[i] = Resumed(panels[i])
      BY <1>0, <1>2, AppFacts
    <3> DEFINE b == Begun(panels[i])
    <3>2. /\ b.host = panels[i].host /\ b.gen = panels[i].gen + 1
          /\ b.ugen = panels[i].gen + 1 /\ b.ust = "started"
          /\ DOMAIN b = {"host", "gen", "mode", "ust", "ugen", "lookup"}
      BY <1>2, <3>1 DEF Begun, Panels
    <3>3. \E l : panels'[i] = [b EXCEPT !.lookup = l]
      BY <3>1 DEF Resumed
    <3> QED
      BY <3>2, <3>3
  <2>2. \A k \in DOMAIN panels \ {i} : panels'[k] = panels[k]
    BY <1>0, <1>2, AppFacts
  <2>3. \A h \in Hosts : 
          record'[h] = IF \E k \in todo' : panels[k].host = h THEN "started" ELSE record[h]
    BY <1>0, <1>2, AppFacts
  <2>4. marker' = (marker \/ todo' # {})
    BY <1>2
  <2>5. lpc = "idle" /\ DOMAIN panels' = DOMAIN panels
    BY <1>0, <1>2, AppFacts DEF FreeKey
  <2> QED
    BY <1>0, <1>2, <2>1, <2>2, <2>3, <2>4, <2>5, StartKeys
<1> QED
  BY <1>1, <1>2 DEF SavePassword

\* The keys of Server Settings keep the invariant.
LEMMA SettingsStep ==
  ASSUME TypeOK, TypeOK', AppInv, NEW i, OpenSettings(i)
  PROVE  AppInv'
BY LookupKeys DEF OpenSettings, loopVars

\* A new list of panels starts above every generation that was ever used: what is
\* on its way is for nobody.
LEMMA EditStep ==
  ASSUME TypeOK, TypeOK', AppInv, EditServers
  PROVE  AppInv'
<1>1. PICK s \in ServerLists : panels' = Rebuilt(s) /\ slots' = [i \in DOMAIN s |-> NoTask]
  BY DEF EditServers
<1>2. /\ lpc = "idle" /\ lpc' = "idle" /\ todo = {} /\ todo' = {} /\ ~modal'
      /\ epoch' = epoch + 1 /\ UNCHANGED <<queue, loads, views, record, marker>>
      /\ orphans' \subseteq orphans \cup Aborted(DOMAIN slots)
      /\ fate' = [h \in Hosts |-> IF fate[h] = "running" THEN "lost" ELSE fate[h]]
  BY DEF EditServers, FreeKey, loopVars, AppInv, TodoInv, IdleHasNoTodo
<1>3. \A i, k \in DOMAIN s : s[i] = s[k] => i = k
  BY DEF ServerLists
<1>4. /\ DOMAIN panels' = DOMAIN s
      /\ \A i \in DOMAIN s :
           /\ panels'[i].host = s[i] /\ panels'[i].gen = NextGen
           /\ panels'[i].ust = "nil" /\ panels'[i].ugen = 0
           /\ slots'[i].st = "none" /\ slots'[i].gen = 0
  BY <1>1 DEF Rebuilt, Panel, NoTask
<1>5. NextGen \in Nat /\ \A i \in DOMAIN panels : panels[i].gen < NextGen
  BY NextGenIsNew
<1>6. ASSUME NEW g \in Nat, g < NextGen PROVE Stale(g)'
  BY <1>4, <1>6 DEF Stale
<1>7. ASSUME NEW j, j.gen \in Nat, Placed(j) PROVE Placed(j)'
  <2>1. j.gen < NextGen
    <3>1. CASE /\ j.panel \in DOMAIN panels /\ j.gen <= panels[j.panel].gen
      BY <1>5, <1>7, <3>1, AppFacts
    <3>2. CASE Stale(j.gen)
      BY <1>5, <1>7, <3>2, AppFacts DEF Stale
    <3> QED
      BY <1>7, <3>1, <3>2 DEF Placed
  <2> QED
    BY <1>6, <1>7, <2>1 DEF Placed
<1>8. \A j : ~Belongs(j)'
  BY <1>4 DEF Belongs, Known
<1>9. ASSUME NEW j, j.epoch \in Nat, LookupPlaced(j) PROVE LookupPlaced(j)'
  <2>1. j.epoch <= epoch /\ epoch \in Nat
    BY <1>9, AppFacts DEF LookupPlaced
  <2>2. j.epoch <= epoch' /\ j.epoch # epoch'
    BY <1>2, <1>9, <2>1
  <2> QED
    BY <2>2 DEF LookupPlaced
<1>10. PendingInv'
  <2>1. ASSUME NEW m \in GoodMsgs PROVE m \in GoodMsgs'
    <3>1. m \in Msgs /\ m.gen \in Nat /\ m.epoch \in Nat
      BY AppFacts DEF GoodMsgs
    <3>2. m.kind = "done" => Placed(m)' /\ OwnWord(m)'
      BY <1>7, <1>8, <3>1 DEF GoodMsgs, OwnWord
    <3>3. m.kind = "cred" => LookupPlaced(m)'
      BY <1>9, <3>1 DEF GoodMsgs
    <3> QED
      BY <3>1, <3>2, <3>3 DEF GoodMsgs
  <2>2. queue' \in Seq(GoodMsgs')
    BY <1>2, <2>1, SeqMonotonic DEF AppInv, PendingInv
  <2>3. ASSUME NEW j \in orphans' \cup views' PROVE Placed(j)'
    <3>1. CASE j \in orphans \cup views
      BY <1>7, <3>1, AppFacts DEF AppInv, PendingInv
    <3>2. CASE j \in Aborted(DOMAIN slots)
      <4>1. PICK i \in DOMAIN slots : j.gen = slots[i].gen
        BY <3>2 DEF Aborted, Job
      <4>2. slots[i].gen <= panels[i].gen /\ panels[i].gen < NextGen
            /\ slots[i].gen \in Nat /\ panels[i].gen \in Nat
        BY <1>5, <4>1, AppFacts DEF AppInv, PanelsInv
      <4> QED
        BY <1>5, <1>6, <4>1, <4>2 DEF Placed
    <3> QED
      BY <1>2, <2>3, <3>1, <3>2
  <2>4. \A j \in loads' : LookupPlaced(j)'
    BY <1>2, <1>9, AppFacts DEF AppInv, PendingInv
  <2> QED
    BY <1>2, <1>8, <2>2, <2>3, <2>4 DEF PendingInv
<1>11. PanelsInv'
  BY <1>3, <1>4, <1>5 DEF PanelsInv
<1>12. TodoInv'
  BY <1>2 DEF TodoInv, IdleHasNoTodo
<1>13. RunsInv'
  <2>1. StartedHasItsTask' /\ \A h \in Hosts : fate'[h] # "running"
    BY <1>2, <1>4 DEF StartedHasItsTask
  <2>2. OkIsTrue'
    BY <1>2 DEF AppInv, RunsInv, OkIsTrue
  <2> QED
    BY <1>4, <2>1, <2>2 DEF RunsInv, PowerLossIsSeen
<1> QED
  BY <1>10, <1>11, <1>12, <1>13 DEF AppInv

---------------------------------------------------------------------------
\* The tasks of the runs that were recorded are put in their slots: what they
\* replace is an older run's.
LEMMA SpawnStep ==
  ASSUME TypeOK, TypeOK', AppInv, SpawnUpgrades
  PROVE  AppInv'
<1>1. /\ lpc = "spawn" /\ lpc' = "idle" /\ todo' = {} /\ panels' = panels
      /\ UNCHANGED <<epoch, queue, loads, views, record, marker, modal>>
      /\ slots' = [i \in DOMAIN slots |->
                     IF i \in todo THEN Task(panels[i].ugen) ELSE slots[i]]
      /\ orphans' \subseteq orphans \cup Aborted(todo)
      /\ fate' = [h \in Hosts |->
                    IF \E i \in todo : panels[i].host = h THEN "running" ELSE fate[h]]
  BY DEF SpawnUpgrades
<1>2. /\ DOMAIN slots = DOMAIN panels /\ todo \subseteq DOMAIN panels
      /\ \A i \in DOMAIN panels :
           /\ panels[i].host \in Hosts /\ panels[i].gen \in Nat /\ panels[i].ugen \in Nat
           /\ slots[i].gen \in Nat
           /\ slots[i].gen <= panels[i].gen /\ panels[i].ugen <= panels[i].gen
      /\ \A i, k \in DOMAIN panels : panels[i].host = panels[k].host => i = k
  BY AppFacts DEF AppInv, PanelsInv
<1>3. \A i \in todo : /\ panels[i].ust = "started" /\ slots[i].gen < panels[i].ugen
                      /\ record[panels[i].host] = "started" /\ marker
  BY DEF AppInv, TodoInv
<1>4. \A i \in DOMAIN panels :
        /\ i \in todo => /\ slots'[i].st = "running" /\ slots'[i].gen = panels[i].ugen
                         /\ fate'[panels[i].host] = "running"
        /\ i \notin todo => /\ slots'[i] = slots[i]
                            /\ fate'[panels[i].host] = fate[panels[i].host]
  <2> TAKE i \in DOMAIN panels
  <2>1. slots'[i] = IF i \in todo THEN Task(panels[i].ugen) ELSE slots[i]
    BY <1>1, <1>2
  <2>2. i \in todo => fate'[panels[i].host] = "running"
    BY <1>1, <1>2
  <2>3. i \notin todo => fate'[panels[i].host] = fate[panels[i].host]
    BY <1>1, <1>2
  <2> QED
    BY <2>1, <2>2, <2>3 DEF Task
<1>5. PendingInv'
  <2>1. Grows /\ WordsKept
    BY <1>1, <1>2, <1>3, <1>4 DEF Grows, WordsKept
  <2>2. ASSUME NEW j \in Aborted(todo) PROVE Placed(j)' /\ ~Belongs(j)'
    <3>1. PICK i \in todo : j = Job(i, slots[i].gen, epoch, panels[i].host)
      BY DEF Aborted
    <3> QED
      BY <1>1, <1>2, <1>3, <3>1 DEF Job, Placed, Belongs
  <2> QED
    BY <1>1, <2>1, <2>2, PendingKept DEF AppInv, PendingInv
<1>6. PanelsInv'
  <2>1. \A i \in DOMAIN panels :
          slots'[i].gen <= panels[i].gen /\ panels[i].ugen <= panels[i].gen
    BY <1>2, <1>4
  <2> QED
    BY <1>1, <1>2, <2>1 DEF AppInv, PanelsInv, Runs
<1>7. TodoInv'
  BY <1>1 DEF AppInv, TodoInv, IdleHasNoTodo
<1>8. StartedHasItsTask'
  <2> SUFFICES ASSUME NEW i \in DOMAIN panels, panels[i].ust = "started"
               PROVE  slots'[i].st # "none" /\ slots'[i].gen = panels[i].ugen
    BY <1>1 DEF StartedHasItsTask
  <2>1. i \in todo \/ (slots[i].st # "none" /\ slots[i].gen = panels[i].ugen)
    BY DEF AppInv, RunsInv, StartedHasItsTask
  <2> QED
    BY <1>4, <2>1
<1>9. \A i \in DOMAIN panels :
        slots'[i].st = "running" =>
          /\ fate'[panels[i].host] = "running"
          /\ panels[i].ust = "started" /\ panels[i].ugen = slots'[i].gen
  BY <1>3, <1>4 DEF AppInv, RunsInv
<1>10. \A h \in Hosts :
         fate'[h] = "running" =>
           \E i \in DOMAIN panels : panels[i].host = h /\ slots'[i].st = "running"
  <2> TAKE h \in Hosts
  <2>1. CASE \E i \in todo : panels[i].host = h
    BY <1>2, <1>4, <2>1
  <2>2. CASE ~\E i \in todo : panels[i].host = h
    <3>1. fate'[h] = fate[h]
      BY <1>1, <2>2
    <3> HAVE fate'[h] = "running"
    <3>2. PICK i \in DOMAIN panels : panels[i].host = h /\ slots[i].st = "running"
      BY <3>1 DEF AppInv, RunsInv
    <3> QED
      BY <1>4, <2>2, <3>2
  <2> QED
    BY <2>1, <2>2
<1>11. OkIsTrue' /\ PowerLossIsSeen'
  <2> SUFFICES ASSUME NEW h \in Hosts
               PROVE  /\ record'[h] = "ok" => fate'[h] = "ok"
                      /\ fate'[h] = "running" => record'[h] = "started" /\ marker'
    BY DEF OkIsTrue, PowerLossIsSeen
  <2>1. CASE \E i \in todo : panels[i].host = h
    BY <1>1, <1>3, <2>1
  <2>2. CASE ~\E i \in todo : panels[i].host = h
    BY <1>1, <2>2 DEF AppInv, RunsInv, OkIsTrue, PowerLossIsSeen
  <2> QED
    BY <2>1, <2>2
<1>12. RunsInv'
  <2>1. panels' = panels
    BY <1>1
  <2> QED
    BY <1>8, <1>9, <1>10, <1>11, <2>1 DEF RunsInv
<1> QED
  BY <1>5, <1>6, <1>7, <1>12 DEF AppInv

\* What a run is over with: of a panel of `over`, whose task sent its last word
\* or is gone, the panel is done; no other panel, and no task, is touched.
LEMMA OverSteps ==
  ASSUME TypeOK, TypeOK', AppInv, lpc \in {"idle", "drain", "watch"},
         lpc' # "spawn", lpc' # "down",
         UNCHANGED <<epoch, orphans, views, loads, slots, todo, modal, fate>>,
         queue' = queue \/ (queue # <<>> /\ queue' = Tail(queue)),
         NEW over \in SUBSET DOMAIN panels,
         \A i \in over : panels[i].ust = "started" /\ slots[i].st # "running",
         DOMAIN panels' = DOMAIN panels,
         \A i \in DOMAIN panels :
           /\ panels'[i].host = panels[i].host /\ panels'[i].gen = panels[i].gen
           /\ panels'[i].ugen = panels[i].ugen
           /\ panels'[i].ust = IF i \in over THEN "done" ELSE panels[i].ust,
         \A h \in Hosts :
           record'[h] = record[h] \/ \E i \in over : panels[i].host = h,
         \A i \in over :
           record'[panels[i].host] = "ok" => fate[panels[i].host] = "ok",
         marker => marker' \/ \A i \in DOMAIN panels \ over : panels[i].ust # "started"
  PROVE  AppInv'
<1>0. /\ todo = {} /\ DOMAIN slots = DOMAIN panels
      /\ \A i \in DOMAIN panels : panels[i].host \in Hosts /\ panels[i].gen \in Nat
      /\ \A i, k \in DOMAIN panels : panels[i].host = panels[k].host => i = k
  BY AppFacts DEF AppInv, PanelsInv, TodoInv, IdleHasNoTodo
<1>1. PendingInv'
  <2>1. Grows /\ WordsKept
    BY <1>0 DEF Grows, WordsKept
  <2>2. queue \in Seq(GoodMsgs')
    BY <2>1, PendingKept DEF AppInv
  <2>3. queue' \in Seq(GoodMsgs')
    BY <2>2, HeadTailProperties
  <2> QED
    BY <2>1, <2>3, PendingKept DEF AppInv, PendingInv
<1>2. PanelsInv' /\ TodoInv'
  BY <1>0 DEF AppInv, PanelsInv, TodoInv, IdleHasNoTodo, Runs
<1>3. StartedHasItsTask'
  BY <1>0 DEF AppInv, RunsInv, StartedHasItsTask
<1>4. \A i \in DOMAIN panels :
        slots[i].st = "running" =>
          /\ fate[panels[i].host] = "running" /\ i \notin over
          /\ panels[i].ust = "started" /\ panels[i].ugen = slots[i].gen
  BY <1>0 DEF AppInv, RunsInv
<1>5. OkIsTrue'
  BY DEF AppInv, RunsInv, OkIsTrue
<1>6. PowerLossIsSeen'
  <2> SUFFICES ASSUME NEW h \in Hosts, fate[h] = "running"
               PROVE  record'[h] = "started" /\ marker'
    BY DEF PowerLossIsSeen
  <2>1. PICK i \in DOMAIN panels : panels[i].host = h /\ slots[i].st = "running"
    BY DEF AppInv, RunsInv
  <2>2. i \notin over /\ panels[i].ust = "started"
    BY <1>4, <2>1
  <2>3. ~\E k \in over : panels[k].host = h
    BY <1>0, <2>1, <2>2
  <2> QED
    BY <2>2, <2>3 DEF AppInv, RunsInv, PowerLossIsSeen
<1>7. \A h \in Hosts :
        fate[h] = "running" =>
          \E i \in DOMAIN panels : panels[i].host = h /\ slots[i].st = "running"
  BY DEF AppInv, RunsInv
<1> QED
  BY <1>1, <1>2, <1>3, <1>4, <1>5, <1>6, <1>7 DEF AppInv, RunsInv

\* A message that is applied: the loop takes the last word of a run for what the
\* run said, and nothing else changes a run.
LEMMA ApplyStep ==
  ASSUME TypeOK, TypeOK', AppInv, Receive \/ Drain
  PROVE  AppInv'
<1> DEFINE m == Head(queue)
<1>1. /\ Apply /\ lpc \in {"idle", "drain"} /\ lpc' = "drain" /\ queue # <<>>
      /\ queue' = Tail(queue)
      /\ UNCHANGED <<epoch, orphans, views, loads, slots, todo, modal, fate>>
      /\ FinishRun(m) \/ AnswerLookup(m) \/ IgnoreMsg(m)
  BY DEF Receive, Drain, Apply, taskVars
<1>2. m \in GoodMsgs
  BY <1>1, HeadTailProperties DEF AppInv, PendingInv
<1>3. todo = {}
  BY <1>1 DEF AppInv, TodoInv, IdleHasNoTodo
<1> HIDE DEF m
<1>4. CASE FinishRun(m)
  <2> DEFINE i == m.panel
  <2>1. /\ i \in DOMAIN panels /\ panels[i].ust = "started" /\ panels[i].ugen = m.gen
        /\ panels' = [panels EXCEPT ![i].ust = "done"]
        /\ record' = [record EXCEPT ![panels[i].host] = m.res]
        /\ marker' = (marker /\ ~(m.res = "ok" /\ ~OthersFly(m)))
        /\ m.kind = "done" /\ Belongs(m)
    BY <1>4 DEF FinishRun, Finishes, Belongs, Known
  <2>2. slots[i].st \in {"sent", "finished"} /\ fate[panels[i].host] = m.res
    BY <1>2, <2>1 DEF GoodMsgs, OwnWord
  <2>3. DOMAIN panels' = DOMAIN panels
        /\ \A k \in DOMAIN panels :
             /\ panels'[k].host = panels[k].host /\ panels'[k].gen = panels[k].gen
             /\ panels'[k].ugen = panels[k].ugen
             /\ panels'[k].ust = IF k \in {i} THEN "done" ELSE panels[k].ust
    BY <2>1, AppFacts DEF Panels
  <2>4. /\ \A h \in Hosts : record'[h] = record[h] \/ \E k \in {i} : panels[k].host = h
        /\ record'[panels[i].host] = m.res
    BY <2>1, AppFacts
  <2>5. marker => marker' \/ \A k \in DOMAIN panels \ {i} : panels[k].ust # "started"
    BY <2>1 DEF OthersFly
  <2> DEFINE over == {i}
  <2>6. over \in SUBSET DOMAIN panels /\ \A k \in over : k = i
    BY <2>1
  <2>7. \A h \in Hosts : record'[h] = record[h] \/ \E k \in over : panels[k].host = h
    BY <2>4
  <2> HIDE DEF i, over
  <2>8. \A k \in over : /\ panels[k].ust = "started" /\ slots[k].st # "running"
                        /\ record'[panels[k].host] = "ok" => fate[panels[k].host] = "ok"
    BY <2>1, <2>2, <2>4, <2>6
  <2>9. marker => marker' \/ \A k \in DOMAIN panels \ over : panels[k].ust # "started"
    BY <2>5 DEF over
  <2>10. \A k \in DOMAIN panels :
           /\ panels'[k].host = panels[k].host /\ panels'[k].gen = panels[k].gen
           /\ panels'[k].ugen = panels[k].ugen
           /\ panels'[k].ust = IF k \in over THEN "done" ELSE panels[k].ust
    BY <2>3 DEF over
  <2> QED
    BY <1>1, <2>3, <2>6, <2>7, <2>8, <2>9, <2>10, OverSteps
<1>5. CASE AnswerLookup(m) \/ IgnoreMsg(m)
  <2>1. /\ DOMAIN panels' = DOMAIN panels /\ record' = record /\ marker' = marker
        /\ \A k \in DOMAIN panels :
             /\ panels'[k].host = panels[k].host /\ panels'[k].gen = panels[k].gen
             /\ panels'[k].ugen = panels[k].ugen /\ panels'[k].ust = panels[k].ust
    BY <1>5, AppFacts DEF AnswerLookup, IgnoreMsg, Panels
  <2> DEFINE over == {}
  <2>2. /\ over \in SUBSET DOMAIN panels /\ \A k : k \notin over
        /\ DOMAIN panels \ over = DOMAIN panels
    OBVIOUS
  <2> HIDE DEF over
  <2> QED
    BY <1>1, <2>1, <2>2, OverSteps
<1> QED
  BY <1>1, <1>4, <1>5

\* The watchdog ends only runs whose task is gone.
LEMMA WatchStep ==
  ASSUME TypeOK, TypeOK', AppInv, Watchdog
  PROVE  AppInv'
<1> DEFINE over == {i \in DOMAIN panels : Dead(i)}
<1>1. /\ lpc = "watch" /\ lpc' = "idle" /\ marker' = marker /\ queue' = queue
      /\ UNCHANGED <<epoch, orphans, views, loads, slots, todo, modal, fate>>
  BY DEF Watchdog, taskVars
<1>2. over \in SUBSET DOMAIN panels
      /\ \A i \in over : panels[i].ust = "started" /\ slots[i].st # "running"
  BY DEF Dead
<1>3. DOMAIN panels' = DOMAIN panels
      /\ \A k \in DOMAIN panels :
           /\ panels'[k].host = panels[k].host /\ panels'[k].gen = panels[k].gen
           /\ panels'[k].ugen = panels[k].ugen
           /\ panels'[k].ust = IF k \in over THEN "done" ELSE panels[k].ust
  BY AppFacts DEF Watchdog, Panels
<1>4. \A h \in Hosts :
        \/ record'[h] = record[h]
        \/ record'[h] = "failed" /\ \E i \in over : panels[i].host = h
  BY DEF Watchdog, WatchdogVerdict
<1>5. \A i \in over : record'[panels[i].host] = "failed"
  BY AppFacts DEF Watchdog, WatchdogVerdict
<1> HIDE DEF over
<1> QED
  BY <1>1, <1>2, <1>3, <1>4, <1>5, OverSteps

\* A run ends: with its last word, after it, or without one.
LEMMA TaskEndSteps ==
  ASSUME TypeOK, TypeOK', AppInv, NEW i, SendDone(i) \/ FinishTask(i) \/ TaskDies(i)
  PROVE  AppInv'
<1>0. /\ DOMAIN slots = DOMAIN panels /\ i \in DOMAIN panels /\ lpc # "down"
      /\ slots \in [DOMAIN panels -> Slots]
      /\ fate \in [Hosts -> {"never", "running", "ok", "failed", "lost"}]
      /\ UNCHANGED <<lpc, todo, panels, epoch, modal, record, marker, orphans, loads, views>>
      /\ \A k \in DOMAIN panels : 
           panels[k].host \in Hosts /\ panels[k].gen \in Nat /\ panels[k].ugen \in Nat
      /\ \A k, l \in DOMAIN panels : panels[k].host = panels[l].host => k = l
  BY AppFacts DEF SendDone, FinishTask, TaskDies, LoopAlone, loopVars, AppInv, PanelsInv
<1>1. PICK r : 
        \/ /\ slots[i].st = "running" /\ slots' = [slots EXCEPT ![i].st = "sent"]
           /\ r \in {"ok", "failed"} /\ fate' = [fate EXCEPT ![panels[i].host] = r]
           /\ queue' = Append(queue, Msg("done", i, slots[i].gen, epoch, panels[i].host, r))
        \/ /\ slots[i].st = "running" /\ slots' = [slots EXCEPT ![i].st = "finished"]
           /\ r = "lost" /\ fate' = [fate EXCEPT ![panels[i].host] = r]
           /\ queue' = queue
        \/ /\ slots[i].st = "sent" /\ slots' = [slots EXCEPT ![i].st = "finished"]
           /\ r = fate[panels[i].host] /\ fate' = fate
           /\ queue' = queue
  BY DEF SendDone, FinishTask, TaskDies, Post
<1>2. /\ \A k \in DOMAIN panels : slots'[k].gen = slots[k].gen
      /\ \A k \in DOMAIN panels \ {i} :
           slots'[k] = slots[k] /\ fate'[panels[k].host] = fate[panels[k].host]
      /\ slots'[i].st \in {"sent", "finished"} /\ slots[i].st \in {"running", "sent"}
      /\ slots[i].st = "sent" => fate'[panels[i].host] = fate[panels[i].host]
      /\ fate'[panels[i].host] = r
      /\ \A h \in Hosts : h # panels[i].host => fate'[h] = fate[h]
  <2>1. \A k \in DOMAIN panels \ {i} : slots'[k] = slots[k]
    BY <1>0, <1>1
  <2>2. /\ slots'[i].gen = slots[i].gen
        /\ slots'[i].st \in {"sent", "finished"} /\ slots[i].st \in {"running", "sent"}
    BY <1>0, <1>1 DEF Slots
  <2>3. /\ \A h \in Hosts : h # panels[i].host => fate'[h] = fate[h]
        /\ fate'[panels[i].host] = r
        /\ slots[i].st = "sent" => fate'[panels[i].host] = fate[panels[i].host]
    BY <1>0, <1>1
  <2> QED
    BY <1>0, <2>1, <2>2, <2>3
<1>3. Grows /\ WordsKept
  <2>1. Grows
    BY <1>0 DEF Grows
  <2>2. WordsKept
    BY <1>0, <1>2 DEF WordsKept
  <2> QED
    BY <2>1, <2>2
<1>4. queue' \in Seq(GoodMsgs')
  <2> PICK m : m = Msg("done", i, slots[i].gen, epoch, panels[i].host, r)
    OBVIOUS
  <2>1. queue \in Seq(GoodMsgs')
    BY <1>0, <1>3, PendingKept DEF AppInv
  <2>2. CASE r \in {"ok", "failed"} /\ queue' = Append(queue, m) /\ slots[i].st = "running"
    <3>1. m \in Msgs
      <4>1. /\ i \in 1..MaxPanels /\ slots[i].gen \in 0..MaxGen /\ epoch \in 0..MaxEpoch
        BY <1>0, ListTypes DEF TypeOK, Slots
      <4> QED
        BY <1>0, <2>2, <4>1 DEF Msg, Msgs, Kinds, Results
    <3>2. Placed(m)'
      BY <1>0 DEF Placed, Msg, AppInv, PanelsInv
    <3>3. OwnWord(m)'
      BY <1>0, <1>2 DEF OwnWord, Belongs, Msg
    <3>4. m \in GoodMsgs'
      BY <3>1, <3>2, <3>3 DEF GoodMsgs, Msg
    <3> QED
      BY <2>1, <2>2, <3>4
  <2> QED
    BY <1>1, <2>1, <2>2
<1>5. PendingInv'
  BY <1>0, <1>3, <1>4, PendingKept DEF AppInv, PendingInv
<1>6. PanelsInv' /\ TodoInv'
  BY <1>0, <1>2, AppFacts DEF AppInv, PanelsInv, TodoInv, IdleHasNoTodo
<1>7. StartedHasItsTask'
  BY <1>0, <1>2 DEF AppInv, RunsInv, StartedHasItsTask
<1>8. \A k \in DOMAIN panels :
        slots'[k].st = "running" =>
          /\ fate'[panels[k].host] = "running" /\ panels[k].ust = "started"
          /\ k \notin todo => panels[k].ugen = slots'[k].gen
  BY <1>2 DEF AppInv, RunsInv
<1>9. \A h \in Hosts :
        fate'[h] = "running" =>
          \E k \in DOMAIN panels : panels[k].host = h /\ slots'[k].st = "running"
  <2> SUFFICES ASSUME NEW h \in Hosts, fate'[h] = "running"
               PROVE  \E k \in DOMAIN panels : panels[k].host = h /\ slots'[k].st = "running"
    OBVIOUS
  <2>1. fate[h] = "running"
    BY <1>1, <1>2
  <2>2. PICK k \in DOMAIN panels : panels[k].host = h /\ slots[k].st = "running"
    BY <2>1 DEF AppInv, RunsInv
  <2>3. k # i
    BY <1>0, <1>1, <1>2, <2>2
  <2> QED
    BY <1>2, <2>2, <2>3
<1>10. OkIsTrue' /\ PowerLossIsSeen'
  <2>1. /\ \A h \in Hosts : fate'[h] = "running" => fate[h] = "running"
        /\ slots[i].st = "running" => record[panels[i].host] = "started"
    BY <1>0, <1>1, <1>2 DEF AppInv, RunsInv, PowerLossIsSeen
  <2> QED
    BY <1>0, <1>2, <2>1 DEF AppInv, RunsInv, OkIsTrue, PowerLossIsSeen
<1> QED
  BY <1>0, <1>5, <1>6, <1>7, <1>8, <1>9, <1>10 DEF AppInv, RunsInv

\* The tasks whose answer the app does not wait for send it.
LEMMA LateSteps ==
  ASSUME TypeOK, TypeOK', AppInv, OrphanEnds \/ LookupAnswers \/ ViewEnds
  PROVE  AppInv'
<1>0. /\ UNCHANGED <<lpc, todo, panels, epoch, modal, record, marker, slots, fate>>
      /\ orphans' \subseteq orphans /\ loads' \subseteq loads /\ views' \subseteq views
      /\ lpc # "down"
  BY DEF OrphanEnds, LookupAnswers, ViewEnds, LoopAlone, loopVars
<1>1. /\ queue \in Seq(GoodMsgs')
      /\ \A j \in orphans \cup views : Placed(j)' /\ ~Belongs(j)'
      /\ \A j \in loads : LookupPlaced(j)'
  <2>1. Grows /\ WordsKept
    BY <1>0, AppFacts DEF Grows, WordsKept
  <2> QED
    BY <1>0, <2>1, PendingKept DEF AppInv
<1>2. PICK t \in orphans \cup views \cup loads, res \in Results, k \in Kinds :
        /\ queue' = Append(queue, Msg(k, t.panel, t.gen, t.epoch, t.host, res))
        /\ k = "done" <=> res # "none"
        /\ k = "done" => t \in orphans \cup views
        /\ k = "cred" => t \in loads
  BY DEF OrphanEnds, LookupAnswers, ViewEnds, Post, Results, Kinds
<1>3. PICK m : m = Msg(k, t.panel, t.gen, t.epoch, t.host, res)
  OBVIOUS
<1>4. m \in GoodMsgs'
  <2>1. m \in Msgs
    BY <1>2, <1>3, AppFacts DEF Msg, Msgs, Jobs
  <2>2. k = "done" => Placed(m)' /\ ~Belongs(m)'
    BY <1>1, <1>2, <1>3 DEF Msg, Placed, Belongs, Known
  <2>3. k = "cred" => LookupPlaced(m)'
    BY <1>1, <1>2, <1>3 DEF Msg, LookupPlaced
  <2>4. m.kind = k
    BY <1>3 DEF Msg
  <2> QED
    BY <2>1, <2>2, <2>3, <2>4 DEF GoodMsgs, OwnWord
<1>5. PendingInv'
  <2>1. queue' \in Seq(GoodMsgs')
    BY <1>1, <1>2, <1>3, <1>4
  <2> QED
    BY <1>0, <1>1, <2>1 DEF PendingInv
<1>6. PanelsInv' /\ RunsInv'
  BY <1>0 DEF AppInv, PanelsInv, RunsInv, StartedHasItsTask, OkIsTrue, PowerLossIsSeen
<1>7. TodoInv'
  BY <1>0 DEF AppInv, TodoInv, IdleHasNoTodo
<1> QED
  BY <1>5, <1>6, <1>7 DEF AppInv

\* Leaving takes every task with it, and the next start finds what was recorded.
LEMMA BootSteps ==
  ASSUME TypeOK, TypeOK', AppInv, End \/ Restart
  PROVE  AppInv'
<1>1. CASE End
  <2>1. /\ lpc' = "down" /\ todo' = {} /\ ~modal' /\ queue' = <<>>
        /\ orphans' = {} /\ loads' = {} /\ views' = {}
        /\ UNCHANGED <<record, marker>>
        /\ \A h \in Hosts : fate'[h] = IF fate[h] = "running" THEN "lost" ELSE fate[h]
    BY <1>1 DEF End
  <2>2. /\ DOMAIN panels' = DOMAIN panels
        /\ \A i \in DOMAIN panels :
             /\ panels'[i].host = panels[i].host /\ panels'[i].gen = 0
             /\ panels'[i].ust = "nil" /\ panels'[i].ugen = 0
             /\ slots'[i].st = "none" /\ slots'[i].gen = 0
    BY <1>1, AppFacts DEF End, Boot, Panel, NoTask
  <2>3. PendingInv' /\ TodoInv'
    BY <2>1 DEF PendingInv, TodoInv, IdleHasNoTodo
  <2>4. PanelsInv'
    BY <2>2 DEF AppInv, PanelsInv
  <2>5. StartedHasItsTask' /\ OkIsTrue' /\ \A h \in Hosts : fate'[h] # "running"
    BY <2>1, <2>2 DEF AppInv, RunsInv, StartedHasItsTask, OkIsTrue
  <2>6. RunsInv'
    BY <2>2, <2>5 DEF RunsInv, PowerLossIsSeen
  <2> QED
    BY <2>3, <2>4, <2>6 DEF AppInv
<1>2. CASE Restart
  <2>1. /\ queue = <<>> /\ orphans = {} /\ views = {} /\ loads = {} /\ todo = {}
        /\ UNCHANGED <<queue, orphans, views, loads, todo, panels, slots, modal, record, marker,
                       fate>>
    BY <1>2 DEF Restart, taskVars, AppInv, PendingInv, TodoInv, IdleHasNoTodo
  <2>2. PendingInv'
    BY <2>1 DEF PendingInv
  <2>3. PanelsInv' /\ RunsInv'
    BY <2>1 DEF AppInv, PanelsInv, RunsInv, StartedHasItsTask, OkIsTrue, PowerLossIsSeen
  <2>4. TodoInv'
    BY <2>1 DEF AppInv, TodoInv, IdleHasNoTodo
  <2> QED
    BY <2>2, <2>3, <2>4 DEF AppInv
<1> QED
  BY <1>1, <1>2

\* The invariant holds at the start.
LEMMA AppInit ==
  ASSUME Init
  PROVE  TypeOK /\ AppInv
<1>0. /\ 0 \in 0..MaxGen /\ 0 \in 0..MaxEpoch /\ 0 \in 0..MaxBoots /\ 0 \in 0..Budget
      /\ 0 <= QueueCap
  BY AppAssumption
<1>1. PICK s \in ServerLists : panels = Boot(s)
  BY DEF Init
<1>2. PICK n \in 1..MaxPanels : s \in [1..n -> Hosts]
  BY DEF ServerLists
<1>3. panels \in [1..n -> Panels] /\ slots \in [1..n -> Slots]
  <2>1. \A i \in 1..n : Panel(s[i], 0, "notasked") \in Panels
    BY <1>0, <1>2, NewPanels
  <2>2. panels \in [1..n -> Panels]
    BY <1>1, <1>2, <2>1 DEF Boot
  <2> QED
    BY <2>2, NewSlots DEF Init
<1>4. /\ \A i \in DOMAIN panels :
           /\ panels[i].host = s[i] /\ panels[i].gen = 0 /\ panels[i].ust = "nil"
           /\ panels[i].ugen = 0 /\ slots[i].st = "none" /\ slots[i].gen = 0
      /\ DOMAIN panels = DOMAIN s
  BY <1>1 DEF Init, Boot, Panel, NoTask
<1>5. TypeOK
  <2>1. ListsOK
    BY <1>3 DEF ListsOK
  <2>2. queue \in Seq(Msgs) /\ Len(queue) <= QueueCap
    BY <1>0 DEF Init
  <2> QED
    BY <1>0, <2>1, <2>2 DEF Init, TypeOK, Records
<1>6. PendingInv /\ TodoInv
  BY DEF Init, PendingInv, TodoInv, IdleHasNoTodo
<1>7. PanelsInv
  BY <1>4 DEF PanelsInv, ServerLists
<1>8. RunsInv
  BY <1>4 DEF Init, RunsInv, StartedHasItsTask, OkIsTrue, PowerLossIsSeen
<1> QED
  BY <1>5, <1>6, <1>7, <1>8 DEF AppInv

\* And every step keeps it.
LEMMA AppStep ==
  ASSUME TypeOK, AppInv, [Next]_vars
  PROVE  TypeOK' /\ AppInv'
<1>1. TypeOK'
  BY TypeStep DEF AppInv, TodoInv
<1>2. CASE UNCHANGED vars
  <2>1. UNCHANGED <<panels, slots, epoch, queue, orphans, loads, views, todo, record, marker,
                    fate, lpc, modal>>
    BY <1>2 DEF vars, loopVars, taskVars
  <2>2. Grows /\ WordsKept
    BY <2>1, AppFacts DEF Grows, WordsKept
  <2>3. PendingInv'
    BY <1>1, <2>1, <2>2, PendingKept DEF AppInv, PendingInv
  <2>4. PanelsInv' /\ RunsInv'
    BY <2>1 DEF AppInv, PanelsInv, RunsInv, StartedHasItsTask, OkIsTrue, PowerLossIsSeen
  <2>5. TodoInv'
    BY <2>1 DEF AppInv, TodoInv, IdleHasNoTodo
  <2> QED
    BY <1>1, <2>3, <2>4, <2>5 DEF AppInv
<1>3. CASE Keys
  BY <1>1, <1>3, SettingsStep, SaveStep, ViewKeys, QuietSteps, ConfirmStep, EditStep DEF Keys
<1>4. CASE LoopStep \/ Packet
  BY <1>1, <1>4, SpawnStep, ApplyStep, QuietSteps, WatchStep DEF LoopStep
<1>5. CASE TaskStep
  BY <1>1, <1>5, TaskEndSteps, LateSteps DEF TaskStep
<1>6. CASE End \/ Restart
  BY <1>1, <1>6, BootSteps
<1> QED
  BY <1>1, <1>2, <1>3, <1>4, <1>5, <1>6 DEF Next

---------------------------------------------------------------------------
\* The values of the app's variables are those of its types, and the invariant
\* holds in every state it can be in.
THEOREM AppInvariant == Spec => [](TypeOK /\ AppInv)
<1>1. Init => TypeOK /\ AppInv
  BY AppInit
<1>2. TypeOK /\ AppInv /\ [Next]_vars => (TypeOK /\ AppInv)'
  BY AppStep
<1> QED
  BY <1>1, <1>2, PTL DEF Spec

\* The types alone.
THEOREM AppTypeCorrect == Spec => []TypeOK
BY AppInvariant, PTL

\* A message that a panel takes as its answer was sent by a task on that panel's
\* host, whatever was edited, aborted or restarted since (app/apply.rs).
THEOREM AnswersReachTheirHost == Spec => []AnswersComeFromTheHost
<1>1. TypeOK /\ AppInv => AnswersComeFromTheHost
  <2> SUFFICES ASSUME TypeOK, AppInv, NEW m \in Queued, Finishes(m) \/ Answers(m)
               PROVE  m.host = panels[m.panel].host
    BY DEF AnswersComeFromTheHost
  <2>1. m \in GoodMsgs
    BY DEF Queued, AppInv, PendingInv
  <2>2. CASE Finishes(m)
    <3>1. ~Stale(m.gen)
      BY <2>1, <2>2, AppFacts DEF Finishes, Belongs, Known, Stale, GoodMsgs
    <3> QED
      BY <2>1, <2>2, <3>1 DEF Finishes, GoodMsgs, Placed
  <2>3. CASE Answers(m)
    BY <2>1, <2>3 DEF Answers, GoodMsgs, LookupPlaced
  <2> QED
    BY <2>2, <2>3
<1> QED
  BY <1>1, AppInvariant, PTL

\* A panel that says STARTED has its own task, or is about to get it (run/tasks.rs).
THEOREM StartedPanelsHaveTasks == Spec => []StartedHasItsTask
<1>1. AppInv => StartedHasItsTask
  BY DEF AppInv, RunsInv
<1> QED
  BY <1>1, AppInvariant, PTL

\* A recorded success was said by the host's last run itself (on_aux_done).
THEOREM SuccessWasSaid == Spec => []OkIsTrue
<1>1. AppInv => OkIsTrue
  BY DEF AppInv, RunsInv
<1> QED
  BY <1>1, AppInvariant, PTL

\* While a run is going on, what is saved says so (mark_upgrades_started).
THEOREM InterruptedRunsAreSeen == Spec => []PowerLossIsSeen
<1>1. AppInv => PowerLossIsSeen
  BY DEF AppInv, RunsInv
<1> QED
  BY <1>1, AppInvariant, PTL

\* What ends a panel's run is the last word of the task in its slot, never that of
\* a run the task took the slot from (on_aux_done, set_upgrade).
THEOREM OnlyItsOwnWordEndsARun == Spec => []LastWordIsOwn
<1>1. AppInv => LastWordIsOwn
  BY DEF AppInv, PendingInv, GoodMsgs, OwnWord, LastWordIsOwn, Queued, Finishes
<1> QED
  BY <1>1, AppInvariant, PTL

=============================================================================
