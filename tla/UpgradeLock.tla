---------------------------- MODULE UpgradeLock ----------------------------
(***************************************************************************)
(* The upgrade lock of one host: crates/agent/src/exec/lock.rs.            *)
(*                                                                         *)
(* Every upgrade of a host runs under an agent process that first takes a  *)
(* lock directory in the user's cache.  The lock is nothing but file       *)
(* system calls, so the model interleaves the agents call by call.  A      *)
(* process takes the lock at most once in its life (one `exec` session per *)
(* agent), so a process also names its pid and the directory it made.      *)
(***************************************************************************)
EXTENDS Naturals, FiniteSets

CONSTANTS
  Procs,         \* the agent processes that will ever run on this host
  NoProc,        \* no process: no owner, no readable pid
  StampCanFail,  \* whether the write of the `pid` file may fail
  PidsRecur      \* whether the pid of a gone agent may name a new process

ASSUME LockAssumption ==
  /\ NoProc \notin Procs
  /\ StampCanFail \in BOOLEAN
  /\ PidsRecur \in BOOLEAN

VARIABLES
  pc,       \* where each agent is in acquire, the run, or the guard's drop
  lock,     \* what is at the lock path
  seen,     \* the pid each agent has read out of the lock directory
  recur,    \* pids of gone agents that now name an unrelated process
  judged,   \* history: the directory each agent found breakable
  robbed    \* history: runs whose directory another agent emptied or removed

vars == <<pc, lock, seen, recur, judged, robbed>>

\* What can be at the lock path: nothing, a plain file left by an older build,
\* or a directory with the agent that made it, the pid readable in it, and
\* whether its time of modification is more than STALE_AFTER ago.
Nothing == [kind |-> "none", maker |-> NoProc, pid |-> NoProc, old |-> FALSE]
Debris  == [kind |-> "file", maker |-> NoProc, pid |-> NoProc, old |-> FALSE]
Dir(maker, pid, old) ==
  [kind |-> "dir", maker |-> maker, pid |-> pid, old |-> old]

Fresh(p) == Dir(p, NoProc, FALSE)

LockPath == [kind : {"none", "file", "dir"}, maker : Procs \cup {NoProc},
             pid : Procs \cup {NoProc}, old : BOOLEAN]

Breaking  == {"unlink", "rmdir", "remake"}
Acquiring == {"mkdir", "readpid", "probe", "age", "stamp"} \cup Breaking
Dropping  == {"drop_unlink", "drop_rmdir"}
Ended     == {"held", "failed", "done", "crashed"}

Holders == {p \in Procs : pc[p] \in {"stamp", "running"}}
Live(p) == pc[p] \notin Ended \cup {"idle"}

Goto(p, to) == pc' = [pc EXCEPT ![p] = to]

---------------------------------------------------------------------------
Init ==
  /\ pc = [p \in Procs |-> "idle"]
  /\ lock \in {Nothing, Debris}
  /\ seen = [p \in Procs |-> NoProc]
  /\ recur = {}
  /\ judged = [p \in Procs |-> NoProc]
  /\ robbed = {}

\* The parent directory is made and a plain file at the path removed.
Prepare(p) ==
  /\ pc[p] = "idle"
  /\ \/ /\ Goto(p, "mkdir")
        /\ lock' = IF lock.kind = "file" THEN Nothing ELSE lock
     \/ Goto(p, "failed") /\ UNCHANGED lock
  /\ UNCHANGED <<seen, recur, judged, robbed>>

\* create_dir: the one atomic step, which at most one agent wins.
Mkdir(p) ==
  /\ pc[p] = "mkdir"
  /\ \/ /\ lock.kind = "none"
        /\ lock' = Fresh(p)
        /\ Goto(p, "stamp")
     \/ lock.kind # "none" /\ Goto(p, "readpid") /\ UNCHANGED lock
     \/ lock.kind = "none" /\ Goto(p, "failed") /\ UNCHANGED lock
  /\ UNCHANGED <<seen, recur, judged, robbed>>

\* read_pid: the directory may be gone by now, or not stamped yet.
ReadPid(p) ==
  /\ pc[p] = "readpid"
  /\ seen' = [seen EXCEPT ![p] = lock.pid]
  /\ judged' = [judged EXCEPT ![p] = lock.maker]
  /\ Goto(p, IF lock.pid = NoProc THEN "age" ELSE "probe")
  /\ UNCHANGED <<lock, recur, robbed>>

\* Mutant: an old lock is broken although its pid answers.
AnswersWhileYoung(q) == ~lock.old /\ (Live(q) \/ q \in recur)

\* kill(pid, 0): whether any process has that number.
PidAnswers(q) == Live(q) \/ q \in recur

ProbePid(p) ==
  /\ pc[p] = "probe"
  /\ Goto(p, IF PidAnswers(seen[p]) THEN "held" ELSE "unlink")
  /\ UNCHANGED <<lock, seen, recur, judged, robbed>>

\* Mutants: a lock without a pid is never broken, or always.
NeverTooOld  == FALSE
AlwaysTooOld == TRUE

\* No pid: the directory's own time decides, and a time nobody can read
\* (the directory went away) counts as old.
TooOld == lock.kind = "dir" => lock.old

CheckAge(p) ==
  /\ pc[p] = "age"
  /\ judged' = [judged EXCEPT ![p] = lock.maker]
  /\ Goto(p, IF TooOld THEN "unlink" ELSE "held")
  /\ UNCHANGED <<lock, seen, recur, robbed>>

---------------------------------------------------------------------------
\* remove_dir_all, two system calls that matter: empty the directory found at
\* the path, then remove whatever directory is at the path if it is empty.
\* Adding or removing an entry renews the directory's time of modification.
Emptied == Dir(lock.maker, NoProc, lock.pid = NoProc /\ lock.old)

\* Whose run it is that loses the directory at the path, or the pid in it.
Victims(p) == {lock.maker} \cap (Holders \ {p})

Empty(p, next, absent) ==
  /\ \/ /\ lock.kind = "dir"
        /\ lock' = Emptied /\ robbed' = robbed \cup Victims(p)
        /\ Goto(p, next)
     \/ lock.kind # "dir" /\ UNCHANGED <<lock, robbed>> /\ Goto(p, absent)
  /\ UNCHANGED <<seen, recur, judged>>

RemovesDir == lock.kind = "dir" /\ lock.pid = NoProc

RemoveDir(p, next) ==
  /\ \/ RemovesDir /\ lock' = Nothing /\ robbed' = robbed \cup Victims(p)
     \/ ~RemovesDir /\ UNCHANGED <<lock, robbed>>
  /\ Goto(p, next)
  /\ UNCHANGED <<seen, recur, judged>>

BreakUnlink(p) == pc[p] = "unlink" /\ Empty(p, "rmdir", "remake")
BreakRmdir(p)  == pc[p] = "rmdir" /\ RemoveDir(p, "remake")

\* Mutant: create_dir_all, which succeeds on a directory that is there.
RemakeAnyway(p) ==
  /\ pc[p] = "remake"
  /\ lock' = IF lock.kind = "none" THEN Fresh(p) ELSE lock
  /\ Goto(p, "stamp")
  /\ UNCHANGED <<seen, recur, judged, robbed>>

\* The second create_dir: any error at all is read as a lost race.
Remake(p) ==
  /\ pc[p] = "remake"
  /\ \/ lock.kind = "none" /\ lock' = Fresh(p) /\ Goto(p, "stamp")
     \/ lock.kind # "none" /\ UNCHANGED lock /\ Goto(p, "held")
  /\ UNCHANGED <<seen, recur, judged, robbed>>

\* The pid goes into whatever directory is at the path; the result is ignored.
Stamped(p) == Dir(lock.maker, p, lock.pid # NoProc /\ lock.old)

Stamp(p) ==
  /\ pc[p] = "stamp"
  /\ \/ lock.kind = "dir" /\ lock' = Stamped(p)
     \/ lock.kind # "dir" /\ UNCHANGED lock
     \/ StampCanFail /\ UNCHANGED lock
  /\ Goto(p, "running")
  /\ UNCHANGED <<seen, recur, judged, robbed>>

\* The command is over (exec/run.rs, execute) and the guard is dropped.
Finish(p) ==
  /\ pc[p] = "running"
  /\ Goto(p, "drop_unlink")
  /\ UNCHANGED <<lock, seen, recur, judged, robbed>>

DropUnlink(p) == pc[p] = "drop_unlink" /\ Empty(p, "drop_rmdir", "done")
DropRmdir(p)  == pc[p] = "drop_rmdir" /\ RemoveDir(p, "done")

---------------------------------------------------------------------------
\* The environment: SIGKILL or a power cut of the agent, time, pid reuse.
Crash(p) ==
  /\ Live(p)
  /\ Goto(p, "crashed")
  /\ UNCHANGED <<lock, seen, recur, judged, robbed>>

\* Six hours pass.  No agent spends them between two file system calls of one
\* acquire or one drop.
Age ==
  /\ lock.kind = "dir" /\ ~lock.old
  /\ \A p \in Procs : pc[p] \notin Acquiring \cup Dropping
  /\ lock' = Dir(lock.maker, lock.pid, TRUE)
  /\ UNCHANGED <<pc, seen, recur, judged, robbed>>

ReusePid(p) ==
  /\ PidsRecur
  /\ pc[p] \in Ended /\ p \notin recur
  /\ recur' = recur \cup {p}
  /\ UNCHANGED <<pc, lock, seen, judged, robbed>>

Step(p) ==
  \/ Prepare(p) \/ Mkdir(p) \/ ReadPid(p) \/ ProbePid(p) \/ CheckAge(p)
  \/ BreakUnlink(p) \/ BreakRmdir(p) \/ Remake(p) \/ Stamp(p)
  \/ Finish(p) \/ DropUnlink(p) \/ DropRmdir(p)

Next ==
  \/ \E p \in Procs : Step(p) \/ Crash(p) \/ ReusePid(p)
  \/ Age

Spec == Init /\ [][Next]_vars

\* Runs that do not take the lock at the same moment: no two agents are inside
\* `acquire` together.  Runs and drops still overlap with it, and any agent may
\* be killed anywhere.
OneAcquires == \A p, q \in Procs : {pc[p], pc[q]} \subseteq Acquiring => p = q

SerialNext == Next /\ OneAcquires'

SerialSpec == Init /\ [][SerialNext]_vars

---------------------------------------------------------------------------
\* The values of the lock's variables: a pid that can be read names an agent.
TypeOK ==
  /\ pc \in [Procs -> {"idle", "running"} \cup Acquiring \cup Dropping \cup Ended]
  /\ lock \in LockPath
  /\ seen \in [Procs -> Procs \cup {NoProc}]
  /\ recur \subseteq Procs
  /\ judged \in [Procs -> Procs \cup {NoProc}]
  /\ robbed \subseteq Procs

\* Two runs never hold the lock of one host together: `Denied::Held` means
\* "another run holds it" and a broken lock belongs to the one that broke it.
MutualExclusion == \A p, q \in Holders : p = q

\* Whatever is interleaved or killed, two runs hold the lock together only if
\* one of them had its directory emptied or removed under it: create_dir itself never
\* admits two.
MutualExclusionUnlessRobbed == \A p, q \in Holders \ robbed : p = q

\* The first robbery is never the fault of the judgement: as long as nobody has
\* been robbed, an agent that is about to break a lock has not judged the
\* directory of a run that still holds it (`breakable`).  What it then removes
\* may be another directory than the one it judged.
JudgementSparesHolders ==
  robbed = {} => \A p \in Procs : pc[p] \in Breaking => judged[p] \notin Holders

\* A run is refused by the judgement only for a lock whose maker is still there
\* or that is too recent to break: STALE_AFTER governs the case where the pid
\* cannot be read or has been reused.
RefusedJustly ==
  \A p \in Procs :
    pc[p] \in {"probe", "age"} /\ pc'[p] = "held"
      => lock.kind = "dir" /\ (Live(lock.maker) \/ ~lock.old)

RefusalIsJustified == [][RefusedJustly]_vars
============================================================================
