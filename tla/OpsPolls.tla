------------------------------ MODULE OpsPolls ------------------------------
(***************************************************************************)
(* The two pollers of the Ops view: the poll of a panel that is in the     *)
(* view (tasks/ops_poll.rs) and the agent that passes over every host, in  *)
(* a loop of its own pace, in another process (tasks/ops_agent.rs,         *)
(* ops/pass.rs, ops/tick.rs).  Both keep what a host answered in one file  *)
(* per host (ops/cache.rs), and neither asks a host that the file says was *)
(* asked recently.                                                         *)
(*                                                                         *)
(* Time passes in steps, and only when nobody is ready to do something.    *)
(* Instants are kept as ages, which is all the code compares.              *)
(***************************************************************************)
EXTENDS Integers, Sequences, FiniteSets

CONSTANTS
  OpsHosts,    \* the hosts, in the order of a pass
  Watched,     \* the host whose panel shows the Ops view
  Cadence,     \* how often each host publishes
  Fallback,    \* FALLBACK_INTERVAL_S
  Slack,       \* DUE_SLACK_S
  Margin,      \* TICK_MARGIN_S
  Check,       \* OPS_CHECK
  MaxTook,     \* the longest that opening and asking a host takes
  MaxPollFaults,   \* bound of the hosts' failures
  Old          \* ages are counted up to here

Hosts == {OpsHosts[i] : i \in 1..Len(OpsHosts)}

ASSUME OpsAssumption ==
  /\ OpsHosts \in Seq(Hosts) /\ Watched \in Hosts
  /\ Cadence \in [Hosts -> Nat]
  /\ {Fallback, Slack, Margin, Check, MaxTook, MaxPollFaults, Old} \subseteq Nat
  /\ Check > 0 /\ Margin > 0

VARIABLES
  kept,    \* the cache: what is kept of each host
  view,    \* the poll of the watched host's panel
  opsScreen,  \* what that panel shows
  ops,     \* the agent: its pass, and its wait
  missed,  \* history: the agent failed to ask the host since it was kept
  pollFaults   \* number of failures

opsVars == <<kept, view, opsScreen, ops, missed, pollFaults>>

LeastOf(a, b) == IF a < b THEN a ELSE b
MostOf(a, b) == IF a > b THEN a ELSE b
Aged(age) == LeastOf(age + 1, Old)

\* A gathered answer: its age, the rate its host needs, the rate it was sampled
\* at, and what is in it; gap is the history of how far apart it is from the
\* answer it replaced.
Answer == [age : 0..Old, rate : Nat, sampled : Nat, content : {"whole", "gap", "ended"},
           gap : 0..Old]
Nothing == [age |-> -1, rate |-> 0, sampled |-> 0, content |-> "nothing", gap |-> 0]

\* Mutant: the host is read as often as it publishes.
WholeCadence(cadence) == cadence
\* rate_for.
RateFor(cadence) == MostOf(cadence \div 2, 1)

\* What an earlier run of the program kept of a host.
Earlier(h) == [age |-> Fallback, rate |-> RateFor(Cadence[h]),
               sampled |-> RateFor(Cadence[h]), content |-> "whole", gap |-> 0]

OpsInit ==
  /\ kept \in {[h \in Hosts |-> Nothing], [h \in Hosts |-> Earlier(h)]}
  /\ view = [pc |-> "off", t |-> 0, session |-> FALSE, shown |-> -1,
           draft |-> Nothing, took |-> 0]
  /\ opsScreen = [says |-> "asking", answer |-> Nothing]
  /\ ops = [pc |-> "pass", i |-> 1, t |-> 0, spent |-> 0, draft |-> Nothing]
  /\ missed = [h \in Hosts |-> FALSE]
  /\ pollFaults = 0

---------------------------------------------------------------------------
\* RawSnapshot::interval, or the fallback of a host that was never read.
IntervalOf(a) == IF a = Nothing THEN Fallback ELSE MostOf(a.rate, 1)

\* carried_rate: the rule's rate, or the gap to the last answer if that is longer.
Carried(rule, since) == MostOf(rule, since)

\* gather_raw: what is made of a host's answers, since the previous one.  Without
\* the health verdict the rate is the previous one's.
Gathered(h, prev, since, age, content) ==
  LET rule == IF content = "whole" THEN RateFor(Cadence[h])
              ELSE IF prev = Nothing THEN Fallback ELSE prev.rate
  IN [age |-> LeastOf(age, Old), rate |-> rule,
      sampled |-> IF prev = Nothing THEN rule ELSE Carried(rule, since),
      content |-> content, gap |-> 0]

\* A session that breaks, or an answer that does not come in time.
Outcomes == IF pollFaults < MaxPollFaults THEN {"whole", "gap", "ended"} ELSE {"whole"}
PollFault(content) == pollFaults' = IF content = "whole" THEN pollFaults ELSE pollFaults + 1

\* Cache::write, after its check: the file is replaced.
Replaced(h, a) ==
  kept' = [kept EXCEPT ![h] =
    [age |-> a.age, rate |-> a.rate, sampled |-> a.sampled, content |-> a.content,
     gap |-> IF @ = Nothing \/ @.age < a.age THEN 0 ELSE @.age - a.age]]

---------------------------------------------------------------------------
\* The view: toggle_ops, and the end of the task when the panel leaves it.
EnterOps ==
  /\ view.pc = "off"
  /\ view' = [pc |-> "look", t |-> 0, session |-> FALSE, shown |-> -1,
           draft |-> Nothing, took |-> 0]
  /\ UNCHANGED <<kept, opsScreen, ops, missed, pollFaults>>

LeaveOps ==
  /\ view.pc \in {"sleep", "open", "ask"}
  /\ view' = [view EXCEPT !.pc = "off", !.t = 0, !.session = FALSE, !.shown = -1,
                       !.draft = Nothing, !.took = 0]
  /\ UNCHANGED <<kept, opsScreen, ops, missed, pollFaults>>

Sleep == [view EXCEPT !.pc = "sleep", !.t = Check, !.draft = Nothing, !.took = 0]

Awake ==
  /\ view.pc = "sleep" /\ view.t = 0
  /\ view' = [view EXCEPT !.pc = "look"]
  /\ UNCHANGED <<kept, opsScreen, ops, missed, pollFaults>>

\* is_fresh, of the view's poll.
Fresh(a) == a # Nothing /\ a.age < IntervalOf(a)

\* Mutant: a panel that has shown an answer leaves a fresh one alone.
LookOnce ==
  /\ view.pc = "look"
  /\ LET a == kept[Watched]
     IN \/ /\ Fresh(a)
           /\ IF view.shown = -1
                THEN /\ opsScreen' = [says |-> "ready", answer |-> a]
                     /\ view' = [Sleep EXCEPT !.shown = a.age]
                ELSE view' = Sleep /\ UNCHANGED opsScreen
        \/ /\ ~Fresh(a)
           /\ \E t \in 0..MaxTook :
                view' = [view EXCEPT !.pc = IF view.session THEN "ask" ELSE "open", !.t = t,
                                     !.draft = a, !.took = t]
           /\ UNCHANGED opsScreen
  /\ UNCHANGED <<kept, ops, missed, pollFaults>>

\* A fresh answer is shown, once; else the host is asked.
Look ==
  /\ view.pc = "look"
  /\ LET a == kept[Watched]
     IN \/ /\ Fresh(a)
           /\ IF view.shown # a.age
                THEN /\ opsScreen' = [says |-> "ready", answer |-> a]
                     /\ view' = [Sleep EXCEPT !.shown = a.age]
                ELSE view' = Sleep /\ UNCHANGED opsScreen
        \/ /\ ~Fresh(a)
           /\ \E t \in 0..MaxTook :
                view' = [view EXCEPT !.pc = IF view.session THEN "ask" ELSE "open", !.t = t,
                                     !.draft = a, !.took = t]
           /\ UNCHANGED opsScreen
  /\ UNCHANGED <<kept, ops, missed, pollFaults>>

Failed == opsScreen' = [opsScreen EXCEPT !.says = "failed"]

OpenSession ==
  /\ view.pc = "open" /\ view.t = 0
  /\ \/ /\ \E t \in 0..MaxTook :
             view' = [view EXCEPT !.pc = "ask", !.session = TRUE, !.t = t, !.took = t]
        /\ UNCHANGED <<opsScreen, pollFaults>>
     \/ /\ pollFaults < MaxPollFaults /\ pollFaults' = pollFaults + 1
        /\ view' = Sleep /\ Failed
  /\ UNCHANGED <<kept, ops, missed>>

\* What the panel's poll gathered counts from before it asked.
Answered(content) ==
  [view EXCEPT !.pc = "write", !.draft =
     Gathered(Watched, view.draft, view.draft.age - view.took, view.took, content)]

\* gather_raw, over the session the poll keeps: one that ended is dropped, with
\* what it had answered.
Ask ==
  /\ view.pc = "ask" /\ view.t = 0
  /\ \E content \in Outcomes :
       /\ PollFault(content)
       /\ IF content = "ended"
            THEN view' = [Sleep EXCEPT !.session = FALSE] /\ Failed
            ELSE /\ view' = Answered(content)
                 /\ UNCHANGED opsScreen
  /\ UNCHANGED <<kept, ops, missed>>

\* What was gathered is shown, also if the cache has a newer answer by now.
ShowDraft == opsScreen' = [says |-> "ready", answer |-> view.draft]
Drawn == [Sleep EXCEPT !.shown = view.draft.age]

CheckKept ==
  /\ view.pc = "write"
  /\ IF kept[Watched] # Nothing /\ kept[Watched].age < view.draft.age
       THEN view' = Drawn /\ ShowDraft
       ELSE view' = [view EXCEPT !.pc = "rename"] /\ UNCHANGED opsScreen
  /\ UNCHANGED <<kept, ops, missed, pollFaults>>

\* deploy_after: an answer of a build from before its host's deploy ends the
\* session.
AfterAnswer == {Drawn, [Drawn EXCEPT !.session = FALSE]}

\* The write may fail.
WriteKept ==
  /\ view.pc = "rename"
  /\ \/ Replaced(Watched, view.draft) /\ missed' = [missed EXCEPT ![Watched] = FALSE]
        /\ UNCHANGED pollFaults
     \/ pollFaults < MaxPollFaults /\ pollFaults' = pollFaults + 1 /\ UNCHANGED <<kept, missed>>
  /\ ShowDraft
  /\ view' \in AfterAnswer
  /\ UNCHANGED ops

View == \/ Awake \/ Look \/ OpenSession \/ Ask \/ CheckKept \/ WriteKept
---------------------------------------------------------------------------
\* The agent.
Host == OpsHosts[ops.i]
\* A pass takes one instant for its own: ages count from its start.
AgeAtStart(a) == a.age - ops.spent

\* due: an answer nearly as old as the interval is asked for again.
Due(a) == a = Nothing \/ AgeAtStart(a) >= IntervalOf(a) - Slack

NextHost == [ops EXCEPT !.i = @ + 1, !.pc = "pass", !.draft = Nothing, !.t = 0]

\* run: a host is left alone, or asked over a session of its own.
PassHost ==
  /\ ops.pc = "pass" /\ ops.i <= Len(OpsHosts)
  /\ IF Due(kept[Host])
       THEN \E t \in 0..MaxTook :
              ops' = [ops EXCEPT !.pc = "ask", !.t = t, !.draft = kept[Host]]
       ELSE ops' = NextHost
  /\ UNCHANGED <<kept, view, opsScreen, missed, pollFaults>>

\* gather_one.
PassAsk ==
  /\ ops.pc = "ask" /\ ops.t = 0
  /\ LET prev == ops.draft
     IN \/ \E content \in Outcomes :
             /\ PollFault(content)
             /\ IF content = "ended"
                  THEN ops' = NextHost /\ missed' = [missed EXCEPT ![Host] = TRUE]
                  ELSE /\ ops' = [ops EXCEPT !.pc = "write", !.draft =
                            Gathered(Host, prev, AgeAtStart(prev), ops.spent, content)]
                       /\ UNCHANGED missed
        \/ /\ pollFaults < MaxPollFaults /\ pollFaults' = pollFaults + 1
           /\ ops' = NextHost /\ missed' = [missed EXCEPT ![Host] = TRUE]
  /\ UNCHANGED <<kept, view, opsScreen>>

PassCheck ==
  /\ ops.pc = "write"
  /\ ops' = IF kept[Host] # Nothing /\ kept[Host].age < ops.draft.age
              THEN NextHost ELSE [ops EXCEPT !.pc = "rename"]
  /\ UNCHANGED <<kept, view, opsScreen, missed, pollFaults>>

PassWrite ==
  /\ ops.pc = "rename"
  /\ \/ Replaced(Host, ops.draft) /\ missed' = [missed EXCEPT ![Host] = FALSE]
        /\ UNCHANGED pollFaults
     \/ pollFaults < MaxPollFaults /\ pollFaults' = pollFaults + 1
        /\ missed' = [missed EXCEPT ![Host] = TRUE] /\ UNCHANGED kept
  /\ ops' = NextHost
  /\ UNCHANGED <<view, opsScreen>>

\* tick_for: the fastest rate that any host needs, less a margin.
TickOf == MostOf(1, (CHOOSE r \in {IntervalOf(kept[h]) : h \in Hosts} :
                        \A h \in Hosts : r <= IntervalOf(kept[h])) - Margin)

\* cycle: the pass is over, and the rest of the tick is waited for.
PassOver ==
  /\ ops.pc = "pass" /\ ops.i > Len(OpsHosts)
  /\ ops' = [ops EXCEPT !.pc = "wait", !.i = 1, !.t = MostOf(0, TickOf - ops.spent), !.spent = 0]
  /\ UNCHANGED <<kept, view, opsScreen, missed, pollFaults>>

NextPass ==
  /\ ops.pc = "wait" /\ ops.t = 0
  /\ ops' = [ops EXCEPT !.pc = "pass"]
  /\ UNCHANGED <<kept, view, opsScreen, missed, pollFaults>>

Agent == PassHost \/ PassAsk \/ PassCheck \/ PassWrite \/ PassOver \/ NextPass
---------------------------------------------------------------------------
\* The clock.
Idle(p) == p.pc = "off" \/ (p.pc \in {"sleep", "open", "ask", "wait"} /\ p.t > 0)
Counted(p) == IF p.t > 0 THEN p.t - 1 ELSE 0
OlderBy1(a) == IF a.content = "nothing" THEN a ELSE [a EXCEPT !.age = Aged(@)]

Tick ==
  /\ Idle(view) /\ Idle(ops)
  /\ kept' = [h \in Hosts |-> OlderBy1(kept[h])]
  /\ view' = [view EXCEPT !.t = Counted(view), !.draft = OlderBy1(@),
                          !.shown = IF @ < 0 THEN @ ELSE Aged(@)]
  /\ opsScreen' = [opsScreen EXCEPT !.answer = OlderBy1(@)]
  /\ ops' = [ops EXCEPT !.t = Counted(ops), !.draft = OlderBy1(@),
                        !.spent = IF ops.pc = "ask" THEN @ + 1 ELSE @]
  /\ UNCHANGED <<missed, pollFaults>>

OpsNext == EnterOps \/ LeaveOps \/ View \/ Agent \/ Tick

OpsSpec == OpsInit /\ [][OpsNext]_opsVars

\* Both processes run, and time passes.
OpsFairness == WF_opsVars(View) /\ WF_opsVars(Agent) /\ WF_opsVars(Tick)

OpsFairSpec == OpsSpec /\ OpsFairness
---------------------------------------------------------------------------
\* ops_poll::poll, pass::gather_one: what a session had answered when it ended is
\* neither kept nor shown as an answer.
NoHalfAnswerKept ==
  /\ \A h \in Hosts : kept[h].content # "ended"
  /\ opsScreen.answer.content # "ended"

\* rate::carried_rate: an answer says how long its host went unread, also when two
\* pollers write it in turn, so that sampling_warning can say so.
GapIsSaid == \A h \in Hosts : kept[h].gap > 0 => kept[h].sampled >= kept[h].gap

\* The longest tick while the fastest host is read as often as h needs: if h was
\* read, and if it was not.
TickBy(h) == MostOf(1, RateFor(Cadence[h]) - Margin)
UnreadTickBy(h) == MostOf(1, MostOf(RateFor(Cadence[h]), Fallback) - Margin)
\* The oldest answer of h that a pass leaves behind.
LeftBy(h) == MostOf(RateFor(Cadence[h]) - Slack - 1, MaxTook)

\* Timing constants under which the agent is in time: what a pass leaves is not
\* older than the cadence by the next one, though the pass itself takes long; nor
\* is what the view kept meanwhile, nor what an earlier run kept.
TimelyPasses ==
  \A h \in Hosts :
    /\ LeftBy(h) + MostOf(Len(OpsHosts) * MaxTook, TickBy(h)) <= Cadence[h]
    /\ MaxTook + UnreadTickBy(h) <= Cadence[h]
    /\ Fallback <= Cadence[h]

\* ops_agent::cycle and pass::run: unless asking it failed, a host's answer is
\* replaced within its own cadence.
ReadOncePerCadence ==
  \A h \in Hosts : kept[h].content = "whole" /\ ~missed[h] =>
    AgeAtStart(kept[h]) <= Cadence[h]

\* cache::due: the slack only makes a client read more often than the rule of two
\* reads to a publication.
ReadTwicePerCadence ==
  \A h \in Hosts : kept[h].content = "whole" /\ ~missed[h] =>
    AgeAtStart(kept[h]) <= RateFor(Cadence[h])

\* ops_poll::poll: a panel that stays in the view does not stay with a failure.
FailureIsNotForLong == opsScreen.says = "failed" ~> (opsScreen.says = "ready" \/ view.pc = "off")
=============================================================================
