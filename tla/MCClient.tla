------------------------------ MODULE MCClient ------------------------------
(***************************************************************************)
(* The smaller machines of the client and its agent, for TLC: the install  *)
(* of an agent, the monitor's link, the polls and the card of the Ops      *)
(* view, kills and tails, what an upgrade paints, and the client's files.  *)
(* The modules share nothing and are run one at a time: a behaviour is one *)
(* of one module, and the other variables stay as they began.              *)
(***************************************************************************)
EXTENDS AgentInstall, HostLink, OpsPolls, OpsCatalogue, OpsCard, HostActions,
        Painter, Files, TLC

VARIABLE part   \* the module whose behaviour this is

clientVars == <<installVars, linkVars, opsVars, catVars, cardVars, actVars, paintVars, filesVars>>

\* The pollers and the instances are the same two model values.
Alike == Permutations(Pollers \cup Instances)

\* Three comers: two of one build that were given one process id, of whom one
\* connects and one replaces, and one of another build.
BuildOf == [c \in Comers |-> IF c = "d" THEN "new" ELSE "old"]
TokenOf == [c \in Comers |-> IF c = "b" THEN "a" ELSE c]
ErrandOf == [c \in Comers |-> IF c \in {"b", "c"} THEN "replace" ELSE "connect"]

TwoHosts == <<"h1", "h2">>
WatchedHost == <<"h1">>
SameCadence == [h \in {"h1", "h2"} |-> 8]
WatchedCadence == [h \in {"h1"} |-> 8]
TwoTools == <<"cron.status", "docker.containers">>
HereFirst == [p \in Panels |-> "a"]
OneHost == [a \in Accounts |-> "host"]

UpToTwo(S) == {{}} \cup {{a, b} : a \in S, b \in S}
PublishedChecks == [name : {"disk", "daily"}, instance : {"", "i", "j"}, ok : {"yes", "unsaid"}]
ManyHealths ==
  [checks : UpToTwo(PublishedChecks), oldest : {-1, 5, 6}, cadence : {-1, 4, 3}, sampled : {2}]
ManySuites == UpToTwo([name : {"disk", "daily"}, instance : {"", "i"}, inSuite : {"yes", "no"}])
ManyEgresses == SUBSET {"", "confirmed", "leaked", "disagreement", "unknown", "odd"}
ManyFacts ==
  [mtime : {-1, 1}, declared : 0..1, read : {FALSE},
   rows : SUBSET [present : BOOLEAN, problem : BOOLEAN]]
ManyCrons == SUBSET [rc : {"none", "0", "1"}, alerting : BOOLEAN]
ManyContainers ==
  UpToTwo([state : {"running", "exited"}, health : {"healthy", "unhealthy", "none"},
           instance : {"", "s"}, compose : {"", "s", "t"}, exited : {"0", "1"}])
ManyPoolLists ==
  UpToTwo([name : {"p"}, state : {"ONLINE", "DEGRADED"},
           members : SUBSET {"ONLINE", "REMOVED"}, told : BOOLEAN])
Filesystems ==
  {[pool |-> "p", boot |-> FALSE, size |-> 10, free |-> 1],
   [pool |-> "q", boot |-> FALSE, size |-> 10, free |-> 10],
   [pool |-> "b", boot |-> TRUE, size |-> 3, free |-> 1],
   [pool |-> "", boot |-> FALSE, size |-> 2, free |-> 0]}
ManyMounts == UNION {[1..n -> Filesystems] : n \in 0..3}
ManyTriages ==
  [needs : {"yes", "no", "unsaid"}, items : {"some", "none", "unsaid"},
   quiet : {"some", "none", "unsaid"}]

---------------------------------------------------------------------------
\* One initial state of the modules that are not run.
MachinesInit ==
  /\ InstallInit /\ LinkInit /\ OpsInit /\ CatInit /\ CardInit /\ ActInit
  /\ PaintInit /\ FilesInit
  /\ part # "link" => onHost = "same" /\ task.mode = "monitor"
  /\ part # "polls" => kept = [h \in Hosts |-> Nothing]
  /\ part # "catalogue" => server.version = "1" /\ server.publishes
  /\ part # "actions" => \A p \in Panels : ~panels[p].custom

StepsOf(p) == part = p /\ UNCHANGED part

LoopsNext ==
  \/ /\ StepsOf("link") /\ LinkNext
     /\ UNCHANGED <<installVars, opsVars, catVars, cardVars, actVars, paintVars,
                    filesVars>>
  \/ /\ StepsOf("polls") /\ OpsNext
     /\ UNCHANGED <<installVars, linkVars, catVars, cardVars, actVars, paintVars,
                    filesVars>>
  \/ /\ StepsOf("actions") /\ ActNext
     /\ UNCHANGED <<installVars, linkVars, opsVars, catVars, cardVars, paintVars,
                    filesVars>>

RestNext ==
  \/ /\ StepsOf("install") /\ InstallNext
     /\ UNCHANGED <<linkVars, opsVars, catVars, cardVars, actVars, paintVars,
                    filesVars>>
  \/ /\ StepsOf("catalogue") /\ CatNext
     /\ UNCHANGED <<installVars, linkVars, opsVars, cardVars, actVars, paintVars,
                    filesVars>>
  \/ /\ StepsOf("card") /\ CardNext
     /\ UNCHANGED <<installVars, linkVars, opsVars, catVars, actVars, paintVars,
                    filesVars>>
  \/ /\ StepsOf("painter") /\ PaintNext
     /\ UNCHANGED <<installVars, linkVars, opsVars, catVars, cardVars, actVars,
                    filesVars>>
  \/ /\ StepsOf("files") /\ (AppNext \/ Writeback \/ FilesPowerCut \/ Spoil)
     /\ UNCHANGED <<installVars, linkVars, opsVars, catVars, cardVars, actVars, paintVars>>
  \/ /\ StepsOf("token") /\ (HeadNext \/ Writeback \/ FilesPowerCut)
     /\ UNCHANGED <<installVars, linkVars, opsVars, catVars, cardVars, actVars, paintVars>>

Machines == {"link", "polls", "actions", "install", "catalogue", "card", "painter",
          "files", "token"}

ClientInit == part \in Machines /\ MachinesInit
LoopsInit == part \in {"link", "polls", "actions"} /\ MachinesInit

ClientSpec ==
  /\ ClientInit
  /\ [][LoopsNext \/ RestNext]_<<part, clientVars>>

\* The tasks that must go on, each under the fairness its module states
\* (LinkFairness, OpsFairness, ActFairness) while it is the one that runs.
LoopsSpec ==
  /\ LoopsInit
  /\ [][LoopsNext]_<<part, clientVars>>
  /\ WF_linkVars(StepsOf("link") /\ ReadOn) /\ WF_linkVars(StepsOf("link") /\ Emit)
  /\ WF_linkVars(StepsOf("link") /\ BannerEnds) /\ WF_linkVars(StepsOf("link") /\ Arrive)
  /\ WF_linkVars(StepsOf("link") /\ Resized)
  /\ WF_opsVars(StepsOf("polls") /\ View) /\ WF_opsVars(StepsOf("polls") /\ Agent)
  /\ WF_opsVars(StepsOf("polls") /\ Tick)
  /\ WF_actVars(StepsOf("actions") /\ Apply)
  /\ \A p \in Panels :
       /\ WF_actVars(StepsOf("actions") /\ TaskSteps(p))
       /\ WF_actVars(StepsOf("actions") /\ (HostRuns(p) \/ SshGivesUp(p)))

\* Two instances at a time record one run or one edit between them.
FewRuns == together => made.runs + made.edits <= 1
=============================================================================
