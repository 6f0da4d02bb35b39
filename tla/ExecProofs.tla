----------------------------- MODULE ExecProofs -----------------------------
(***************************************************************************)
(* Proofs about what the agent does for an upgrade besides the run itself. *)
(* UpgradeLock, for any set of agents: what the lock promises under every  *)
(* interleaving, and mutual exclusion of runs whose acquisitions do not    *)
(* overlap.  Sieve, for any output and any cut of it into reads: every     *)
(* byte goes to one piece and in order, and every marker that is on a line *)
(* of its own is found.                                                    *)
(***************************************************************************)
EXTENDS UpgradeLock, Sieve, FiniteSetTheorems, SequenceTheorems, WellFoundedInduction, TLAPS

---------------------------------------------------------------------------
\* The upgrade lock.

\* The values `acquire` puts at the lock path are values of it.
LEMMA PathValues ==
  /\ Nothing \in LockPath
  /\ Debris \in LockPath
  /\ \A m, i \in Procs \cup {NoProc}, o \in BOOLEAN : Dir(m, i, o) \in LockPath
  /\ \A p \in Procs : Fresh(p) \in LockPath
<1>1. Nothing \in LockPath /\ Debris \in LockPath
  BY Zenon DEF Nothing, Debris, LockPath
<1>2. ASSUME NEW m \in Procs \cup {NoProc}, NEW i \in Procs \cup {NoProc},
             NEW o \in BOOLEAN
      PROVE  Dir(m, i, o) \in LockPath
  BY Zenon DEF Dir, LockPath
<1>3. ASSUME NEW p \in Procs PROVE Fresh(p) \in LockPath
  BY <1>2, Zenon DEF Fresh
<1> QED
  BY <1>1, <1>2, <1>3

\* So are the values the two system calls that write into a directory leave.
LEMMA PathWrites ==
  ASSUME TypeOK, lock.kind = "dir"
  PROVE  /\ Emptied \in LockPath
         /\ \A p \in Procs : Stamped(p) \in LockPath
         /\ Dir(lock.maker, lock.pid, TRUE) \in LockPath
<1>1. lock.maker \in Procs \cup {NoProc} /\ lock.pid \in Procs \cup {NoProc}
  BY DEF TypeOK, LockPath
<1>2. /\ (lock.pid = NoProc /\ lock.old) \in BOOLEAN
      /\ (lock.pid # NoProc /\ lock.old) \in BOOLEAN
      /\ TRUE \in BOOLEAN
  BY Zenon
<1> QED
  BY <1>1, <1>2, PathValues, Zenon DEF Emptied, Stamped

\* The first state of the lock path, free or with debris of an older build, is
\* well typed.
LEMMA LockTypeInit == Init => TypeOK
BY LockAssumption, PathValues DEF Init, TypeOK

\* Every call of `acquire` and `drop`, and every crash, keeps the types.
LEMMA LockTypeStep ==
  ASSUME TypeOK, [Next]_vars
  PROVE  TypeOK'
<1> USE LockAssumption, PathValues, PathWrites
        DEF TypeOK, Breaking, Acquiring, Dropping, Ended, Goto
<1>1. ASSUME NEW p \in Procs, Prepare(p) PROVE TypeOK'
  BY <1>1 DEF Prepare
<1>2. ASSUME NEW p \in Procs, Mkdir(p) PROVE TypeOK'
  BY <1>2 DEF Mkdir
<1>3. ASSUME NEW p \in Procs, ReadPid(p) PROVE TypeOK'
  BY <1>3 DEF ReadPid, LockPath
<1>4. ASSUME NEW p \in Procs, ProbePid(p) PROVE TypeOK'
  BY <1>4 DEF ProbePid
<1>5. ASSUME NEW p \in Procs, CheckAge(p) PROVE TypeOK'
  BY <1>5 DEF CheckAge, LockPath
<1>6. ASSUME NEW p \in Procs, BreakUnlink(p) PROVE TypeOK'
  BY <1>6 DEF BreakUnlink, Empty, Victims, Holders
<1>7. ASSUME NEW p \in Procs, BreakRmdir(p) PROVE TypeOK'
  BY <1>7 DEF BreakRmdir, RemoveDir, Victims, Holders
<1>8. ASSUME NEW p \in Procs, Remake(p) PROVE TypeOK'
  BY <1>8 DEF Remake
<1>9. ASSUME NEW p \in Procs, Stamp(p) PROVE TypeOK'
  BY <1>9 DEF Stamp
<1>10. ASSUME NEW p \in Procs, Finish(p) PROVE TypeOK'
  BY <1>10 DEF Finish
<1>11. ASSUME NEW p \in Procs, DropUnlink(p) PROVE TypeOK'
  BY <1>11 DEF DropUnlink, Empty, Victims, Holders
<1>12. ASSUME NEW p \in Procs, DropRmdir(p) PROVE TypeOK'
  BY <1>12 DEF DropRmdir, RemoveDir, Victims, Holders
<1>13. ASSUME NEW p \in Procs, Crash(p) PROVE TypeOK'
  BY <1>13 DEF Crash
<1>14. ASSUME NEW p \in Procs, ReusePid(p) PROVE TypeOK'
  BY <1>14 DEF ReusePid
<1>15. CASE Age
  BY <1>15 DEF Age
<1>16. CASE UNCHANGED vars
  BY <1>16 DEF vars
<1> QED
  BY <1>1, <1>2, <1>3, <1>4, <1>5, <1>6, <1>7, <1>8, <1>9, <1>10, <1>11,
     <1>12, <1>13, <1>14, <1>15, <1>16 DEF Next, Step

\* The variables of UpgradeLock keep their types: no system call leaves the
\* lock path or a process in a state `acquire` and `drop` do not handle.
THEOREM LockTypeCorrect == Spec => []TypeOK
BY LockTypeInit, LockTypeStep, PTL DEF Spec

---------------------------------------------------------------------------
\* An agent that holds the lock and was not robbed made the directory that is
\* at the path now.
OwnsPath == \A p \in Holders \ robbed : lock.kind = "dir" /\ lock.maker = p

\* Every way the lock passes between agents goes through `create_dir`, so two
\* agents hold it together only when a directory was emptied or removed under
\* one.
THEOREM LockExclusionUnlessRobbed == Spec => []MutualExclusionUnlessRobbed
<1>1. Init => OwnsPath
  BY DEF Init, OwnsPath, Holders
<1>2. TypeOK /\ OwnsPath /\ [Next]_vars => OwnsPath'
  <2> SUFFICES ASSUME TypeOK, OwnsPath, [Next]_vars
               PROVE  OwnsPath'
    OBVIOUS
  <2> USE DEF OwnsPath, Holders, TypeOK, Goto
  <2>1. ASSUME NEW p \in Procs, Prepare(p) PROVE OwnsPath'
    BY <2>1 DEF Prepare
  <2>2. ASSUME NEW p \in Procs, Mkdir(p) PROVE OwnsPath'
    BY <2>2 DEF Mkdir, Fresh, Dir
  <2>3. ASSUME NEW p \in Procs, ReadPid(p) PROVE OwnsPath'
    BY <2>3 DEF ReadPid
  <2>4. ASSUME NEW p \in Procs, ProbePid(p) PROVE OwnsPath'
    BY <2>4 DEF ProbePid
  <2>5. ASSUME NEW p \in Procs, CheckAge(p) PROVE OwnsPath'
    BY <2>5 DEF CheckAge
  <2>6. ASSUME NEW p \in Procs, BreakUnlink(p) \/ DropUnlink(p) PROVE OwnsPath'
    BY <2>6 DEF BreakUnlink, DropUnlink, Empty, Emptied, Dir, LockPath
  <2>7. ASSUME NEW p \in Procs, BreakRmdir(p) \/ DropRmdir(p) PROVE OwnsPath'
    BY <2>7 DEF BreakRmdir, DropRmdir, RemoveDir, RemovesDir, Victims
  <2>8. ASSUME NEW p \in Procs, Remake(p) PROVE OwnsPath'
    BY <2>8 DEF Remake, Fresh, Dir
  <2>9. ASSUME NEW p \in Procs, Stamp(p) PROVE OwnsPath'
    BY <2>9 DEF Stamp, Stamped, Dir, LockPath
  <2>10. ASSUME NEW p \in Procs, Finish(p) \/ Crash(p) \/ ReusePid(p) PROVE OwnsPath'
    BY <2>10 DEF Finish, Crash, ReusePid
  <2>11. CASE Age
    BY <2>11 DEF Age, Dir, LockPath
  <2>12. CASE UNCHANGED vars
    BY <2>12 DEF vars
  <2> QED
    BY <2>1, <2>2, <2>3, <2>4, <2>5, <2>6, <2>7, <2>8, <2>9, <2>10, <2>11, <2>12
       DEF Next, Step
<1>3. OwnsPath => MutualExclusionUnlessRobbed
  BY DEF OwnsPath, MutualExclusionUnlessRobbed
<1> QED
  BY <1>1, <1>2, <1>3, LockTypeCorrect, PTL DEF Spec

---------------------------------------------------------------------------
(* The judgement.  As long as nobody was robbed, what an agent has read out *)
(* of the lock is about the directory it will judge, because an agent takes *)
(* the lock at most once and no six hours pass within one acquire.          *)

\* Whoever made a directory is past its own acquire for good.
Past == {p \in Procs : pc[p] \in {"stamp", "running", "done", "crashed"} \cup Dropping}

MakersArePast ==
  /\ lock.maker \in Past \cup {NoProc}
  /\ \A p \in Procs : judged[p] \in Past \cup {NoProc}

\* The path is its holder's, young until the stamp and stamped from then on.
PathIntact ==
  /\ lock.pid \in {NoProc, lock.maker}
  /\ \A p \in Holders : lock.kind = "dir" /\ lock.maker = p
  /\ \A p \in Procs : pc[p] = "running" => lock.pid = p
  /\ \A p \in Procs : pc[p] = "stamp" => ~lock.old

\* What an agent knows on its way to the judgement, and after it.
KnowledgeIntact ==
  /\ \A p \in Procs : pc[p] = "probe" => judged[p] = seen[p]
  /\ \A p \in Procs : pc[p] = "age" /\ Holders # {} => ~lock.old
  /\ \A p \in Procs : pc[p] \in Breaking => judged[p] \notin Holders

JudgementInv ==
  /\ TypeOK /\ MakersArePast
  /\ robbed = {} => PathIntact /\ KnowledgeIntact

\* One step keeps it: creating, stamping and dropping a lock change the path
\* only under its own holder, or rob one.
LEMMA JudgementStep ==
  ASSUME ~StampCanFail, JudgementInv, [Next]_vars
  PROVE  JudgementInv'
<1> USE LockAssumption
    DEF JudgementInv, MakersArePast, Past, PathIntact, KnowledgeIntact, Holders,
        TypeOK, Breaking, Acquiring, Dropping, Goto
<1>1. TypeOK'
  BY LockTypeStep
<1>2. ASSUME NEW p \in Procs, Prepare(p) PROVE JudgementInv'
  BY <1>1, <1>2 DEF Prepare, Ended, Nothing
<1>3. ASSUME NEW p \in Procs, Mkdir(p) PROVE JudgementInv'
  BY <1>1, <1>3 DEF Mkdir, Fresh, Dir, Ended
<1>4. ASSUME NEW p \in Procs, ReadPid(p) PROVE JudgementInv'
  BY <1>1, <1>4 DEF ReadPid, Ended
<1>5. ASSUME NEW p \in Procs, ProbePid(p) PROVE JudgementInv'
  BY <1>1, <1>5 DEF ProbePid, PidAnswers, Live, Ended
<1>6. ASSUME NEW p \in Procs, CheckAge(p) PROVE JudgementInv'
  BY <1>1, <1>6 DEF CheckAge, TooOld, Ended
<1>7. ASSUME NEW p \in Procs, BreakUnlink(p) \/ DropUnlink(p) PROVE JudgementInv'
  BY <1>1, <1>7 DEF BreakUnlink, DropUnlink, Empty, Victims, Emptied, Dir, Ended
<1>8. ASSUME NEW p \in Procs, BreakRmdir(p) \/ DropRmdir(p) PROVE JudgementInv'
  BY <1>1, <1>8 DEF BreakRmdir, DropRmdir, RemoveDir, RemovesDir, Victims, Nothing, Ended
<1>9. ASSUME NEW p \in Procs, Remake(p) PROVE JudgementInv'
  BY <1>1, <1>9 DEF Remake, Fresh, Dir, Ended
<1>10. ASSUME NEW p \in Procs, Stamp(p) PROVE JudgementInv'
  BY <1>1, <1>10 DEF Stamp, Stamped, Dir, Ended
<1>11. ASSUME NEW p \in Procs, Finish(p) PROVE JudgementInv'
  BY <1>1, <1>11 DEF Finish, Ended
<1>12. ASSUME NEW p \in Procs, Crash(p) PROVE JudgementInv'
  BY <1>1, <1>12 DEF Crash, Ended
<1>13. ASSUME NEW p \in Procs, ReusePid(p) PROVE JudgementInv'
  BY <1>1, <1>13 DEF ReusePid, Ended
<1>14. CASE Age
  BY <1>1, <1>14 DEF Age, Dir
<1>15. CASE UNCHANGED vars
  BY <1>1, <1>15 DEF vars
<1> QED
  BY <1>2, <1>3, <1>4, <1>5, <1>6, <1>7, <1>8, <1>9, <1>10, <1>11, <1>12, <1>13,
     <1>14, <1>15 DEF Next, Step

\* `breakable` is right: whatever is interleaved, killed or reused, the first
\* run that loses its lock was not judged dead by the agent that took it away.
\* Only the removal is wrong, which finds another directory than the judgement.
THEOREM JudgementIsRight ==
  ASSUME ~StampCanFail
  PROVE  Spec => []JudgementSparesHolders
<1>1. Init => JudgementInv
  BY LockTypeInit, LockAssumption
     DEF Init, JudgementInv, MakersArePast, Past, PathIntact, KnowledgeIntact,
         Holders, Nothing, Debris, Breaking
<1>2. JudgementInv /\ [Next]_vars => JudgementInv'
  BY JudgementStep
<1>3. JudgementInv => JudgementSparesHolders
  BY DEF JudgementInv, KnowledgeIntact, JudgementSparesHolders
<1> QED
  BY <1>1, <1>2, <1>3, PTL DEF Spec

---------------------------------------------------------------------------
(* Acquisitions that do not overlap.  The invariant says, for each point of *)
(* `acquire` and of the drop, what the path holds when somebody else is    *)
(* there: a judgement passed on a lock stays right until it is acted on.   *)

Claimants == Holders \cup {p \in Procs : pc[p] \in Dropping}

\* Whoever took the lock and has not finished dropping it made what is there.
PathIsClaimed == \A p \in Claimants : lock.kind = "dir" /\ lock.maker = p

\* Its pid is in it from the stamp to the first half of the drop, and a lock
\* half dropped is a young one.
StampStands ==
  /\ \A p \in Procs : pc[p] \in {"running", "drop_unlink"} => lock.pid = p
  /\ \A p \in Procs : pc[p] = "drop_rmdir" => lock.pid = NoProc /\ ~lock.old

\* What the one agent in `acquire` has found out so far about a claimant.
JudgementStands ==
  /\ \A q \in Procs : pc[q] = "probe" => \A p \in Claimants : seen[q] = p
  /\ \A q \in Procs : pc[q] = "age" => \A p \in Claimants : pc[p] = "drop_rmdir"
  /\ \A q \in Procs : pc[q] \in Breaking => Claimants = {}

SerialInv ==
  TypeOK /\ OneAcquires /\ PathIsClaimed /\ StampStands /\ JudgementStands

\* One step of runs whose acquisitions do not overlap keeps what each of them
\* has found out about the lock true.
LEMMA SerialStep ==
  ASSUME ~StampCanFail, SerialInv, [SerialNext]_vars
  PROVE  SerialInv'
<1> USE LockAssumption
    DEF SerialInv, PathIsClaimed, StampStands, JudgementStands, OneAcquires,
        Claimants, Holders, TypeOK, Breaking, Acquiring, Dropping, Goto
<1>1. TypeOK'
  BY LockTypeStep DEF SerialNext
<1>2. ASSUME NEW p \in Procs, OneAcquires', Prepare(p) PROVE SerialInv'
  BY <1>1, <1>2 DEF Prepare, Ended, Nothing
<1>3. ASSUME NEW p \in Procs, OneAcquires', Mkdir(p) PROVE SerialInv'
  BY <1>1, <1>3 DEF Mkdir, Fresh, Dir, Ended
<1>4. ASSUME NEW p \in Procs, OneAcquires', ReadPid(p) PROVE SerialInv'
  BY <1>1, <1>4 DEF ReadPid, Ended
<1>5. ASSUME NEW p \in Procs, OneAcquires', ProbePid(p) PROVE SerialInv'
  BY <1>1, <1>5 DEF ProbePid, PidAnswers, Live, Ended
<1>6. ASSUME NEW p \in Procs, OneAcquires', CheckAge(p) PROVE SerialInv'
  BY <1>1, <1>6 DEF CheckAge, TooOld, Ended
<1>7. ASSUME NEW p \in Procs, OneAcquires', BreakUnlink(p) PROVE SerialInv'
  BY <1>1, <1>7 DEF BreakUnlink, Empty, Emptied, Dir, LockPath, Ended
<1>8. ASSUME NEW p \in Procs, OneAcquires', BreakRmdir(p) PROVE SerialInv'
  BY <1>1, <1>8 DEF BreakRmdir, RemoveDir, RemovesDir, Nothing, Ended
<1>9. ASSUME NEW p \in Procs, OneAcquires', Remake(p) PROVE SerialInv'
  BY <1>1, <1>9 DEF Remake, Fresh, Dir, Ended
<1>10. ASSUME ~StampCanFail, NEW p \in Procs, OneAcquires', Stamp(p) PROVE SerialInv'
  <2>1. lock.kind = "dir" /\ lock.maker = p
    BY <1>10 DEF Stamp
  <2>2. lock'.kind = "dir" /\ lock'.maker = p /\ lock'.pid = p
    BY <1>10, <2>1 DEF Stamp, Stamped, Dir, LockPath
  <2>3. \A q \in Procs \ {p} : q \notin Claimants
    BY <2>1
  <2>4. pc' = [pc EXCEPT ![p] = "running"] /\ seen' = seen
    BY <1>10 DEF Stamp
  <2>5. Claimants' = {p}
    BY <2>3, <2>4
  <2>6. PathIsClaimed' /\ StampStands'
    BY <2>2, <2>3, <2>4, <2>5
  <2>7. \A q \in Procs : pc'[q] \notin {"probe", "age"} \cup Breaking
    BY <1>10, <2>4 DEF Stamp
  <2> QED
    BY <1>1, <1>10, <2>6, <2>7
<1>11. ASSUME NEW p \in Procs, OneAcquires', Finish(p) PROVE SerialInv'
  BY <1>1, <1>11 DEF Finish, Ended
<1>12. ASSUME NEW p \in Procs, OneAcquires', DropUnlink(p) PROVE SerialInv'
  <2>1. lock.kind = "dir" /\ lock.maker = p /\ lock.pid = p
    BY <1>12 DEF DropUnlink
  <2>2. lock'.kind = "dir" /\ lock'.maker = p /\ lock'.pid = NoProc /\ ~lock'.old
    BY <1>12, <2>1 DEF DropUnlink, Empty, Emptied, Dir, LockPath
  <2>3. \A q \in Procs \ {p} : q \notin Claimants
    BY <2>1
  <2>4. pc' = [pc EXCEPT ![p] = "drop_rmdir"] /\ seen' = seen
    BY <1>12, <2>1 DEF DropUnlink, Empty
  <2>5. Claimants' = {p}
    BY <2>3, <2>4
  <2>6. PathIsClaimed' /\ StampStands'
    BY <2>2, <2>3, <2>4, <2>5
  <2>7. JudgementStands'
    BY <1>12, <2>3, <2>4, <2>5 DEF DropUnlink
  <2> QED
    BY <1>1, <1>12, <2>6, <2>7
<1>13. ASSUME NEW p \in Procs, OneAcquires', DropRmdir(p) PROVE SerialInv'
  BY <1>1, <1>13 DEF DropRmdir, RemoveDir, RemovesDir, Nothing, Ended
<1>14. ASSUME NEW p \in Procs, OneAcquires', Crash(p) PROVE SerialInv'
  BY <1>1, <1>14 DEF Crash, Ended
<1>15. ASSUME NEW p \in Procs, OneAcquires', ReusePid(p) PROVE SerialInv'
  BY <1>1, <1>15 DEF ReusePid, Ended
<1>16. ASSUME OneAcquires', Age PROVE SerialInv'
  BY <1>1, <1>16 DEF Age, Dir, LockPath
<1>17. CASE UNCHANGED vars
  BY <1>1, <1>17 DEF vars
<1> QED
  BY <1>2, <1>3, <1>4, <1>5, <1>6, <1>7, <1>8, <1>9, <1>10, <1>11, <1>12, <1>13,
     <1>14, <1>15, <1>16, <1>17 DEF SerialNext, Next, Step

\* Two runs that do not acquire at the same moment never hold the lock
\* together, whichever of them is killed and wherever: what an operator who
\* starts a second upgrade by hand relies on.
THEOREM SerialMutualExclusion ==
  ASSUME ~StampCanFail
  PROVE  SerialSpec => []MutualExclusion
<1>1. Init => SerialInv
  BY LockTypeInit DEF Init, SerialInv, PathIsClaimed, StampStands, JudgementStands,
     OneAcquires, Claimants, Holders, Acquiring, Breaking, Dropping
<1>2. SerialInv /\ [SerialNext]_vars => SerialInv'
  BY SerialStep
<1>3. SerialInv => MutualExclusion
  BY DEF SerialInv, PathIsClaimed, Claimants, MutualExclusion
<1> QED
  BY <1>1, <1>2, <1>3, PTL DEF SerialSpec

---------------------------------------------------------------------------
(* Refusals.  A pid that was read is that of an agent that got past its     *)
(* create_dir, and such an agent, if it still answers, claims the path.     *)
PidsArePast ==
  /\ recur = {}
  /\ lock.pid \in Past \cup {NoProc}
  /\ \A p \in Procs : pc[p] = "probe" => seen[p] \in Past

\* Nobody goes back to before its create_dir.
LEMMA PastStays == ASSUME TypeOK, [Next]_vars PROVE Past \subseteq Past'
<1> USE DEF Past, TypeOK, Goto, Dropping
<1>1. ASSUME NEW p \in Procs, Step(p) PROVE Past \subseteq Past'
  BY <1>1 DEF Step, Prepare, Mkdir, ReadPid, ProbePid, CheckAge, BreakUnlink, BreakRmdir,
     Empty, RemoveDir, Remake, Stamp, Finish, DropUnlink, DropRmdir, Breaking
<1>2. ASSUME NEW p \in Procs, Crash(p) \/ ReusePid(p) PROVE Past \subseteq Past'
  BY <1>2 DEF Crash, ReusePid
<1>3. CASE Age \/ UNCHANGED vars
  BY <1>3 DEF Age, vars
<1> QED
  BY <1>1, <1>2, <1>3 DEF Next

\* One step keeps it, if no pid comes up again.
LEMMA PidsStep ==
  ASSUME ~PidsRecur, TypeOK, PidsArePast, [Next]_vars
  PROVE  PidsArePast'
<1>1. Past \subseteq Past'
  BY PastStays
<1> USE <1>1 DEF PidsArePast, TypeOK, Goto
<1>2. ASSUME NEW p \in Procs, Prepare(p) \/ Mkdir(p) \/ Remake(p) PROVE PidsArePast'
  BY <1>2 DEF Prepare, Mkdir, Remake, Nothing, Fresh, Dir
<1>3. ASSUME NEW p \in Procs, ReadPid(p) PROVE PidsArePast'
  BY <1>3 DEF ReadPid
<1>4. ASSUME NEW p \in Procs, ProbePid(p) \/ CheckAge(p) \/ Finish(p) PROVE PidsArePast'
  BY <1>4 DEF ProbePid, CheckAge, Finish
<1>5. ASSUME NEW p \in Procs, BreakUnlink(p) \/ DropUnlink(p) PROVE PidsArePast'
  BY <1>5 DEF BreakUnlink, DropUnlink, Empty, Emptied, Dir
<1>6. ASSUME NEW p \in Procs, BreakRmdir(p) \/ DropRmdir(p) PROVE PidsArePast'
  BY <1>6 DEF BreakRmdir, DropRmdir, RemoveDir, Nothing
<1>7. ASSUME NEW p \in Procs, Stamp(p) PROVE PidsArePast'
  <2>1. p \in Past'
    BY <1>7 DEF Stamp, Past
  <2> QED
    BY <1>7, <2>1 DEF Stamp, Stamped, Dir
<1>8. ASSUME NEW p \in Procs, Crash(p) \/ ReusePid(p) PROVE PidsArePast'
  BY <1>8 DEF Crash, ReusePid
<1>9. CASE Age \/ UNCHANGED vars
  BY <1>9 DEF Age, Dir, vars
<1> QED
  BY <1>2, <1>3, <1>4, <1>5, <1>6, <1>7, <1>8, <1>9 DEF Next, Step

\* breakable: of runs whose acquisitions do not overlap, one is refused only for
\* a lock whose maker is still there, or one without a pid that is young.  With
\* pids that come up again it is refused for ever.
THEOREM RefusalsAreJustified ==
  ASSUME ~StampCanFail, ~PidsRecur
  PROVE  SerialSpec => RefusalIsJustified
<1>1. Init => SerialInv /\ PidsArePast
  BY LockTypeInit, LockAssumption DEF Init, SerialInv, PathIsClaimed, StampStands,
     JudgementStands, OneAcquires, Claimants, Holders, Acquiring, Breaking, Dropping,
     PidsArePast, Nothing, Debris
<1>2. SerialInv /\ PidsArePast /\ [SerialNext]_vars => SerialInv' /\ PidsArePast'
  BY SerialStep, PidsStep DEF SerialInv, SerialNext
<1>3. ASSUME SerialInv, PidsArePast, [SerialNext]_vars, NEW p \in Procs,
             pc[p] \in {"probe", "age"}, pc'[p] = "held"
      PROVE  lock.kind = "dir" /\ (Live(lock.maker) \/ ~lock.old)
  <2> USE <1>3 DEF SerialInv, TypeOK, Goto
  <2>1. ProbePid(p) \/ CheckAge(p)
    BY ZenonT(40) DEF SerialNext, Next, Step, Prepare, Mkdir, ReadPid, ProbePid, CheckAge, BreakUnlink,
       BreakRmdir, Empty, RemoveDir, Remake, Stamp, Finish, DropUnlink, DropRmdir, Crash,
       ReusePid, Age, vars
  <2>2. CASE ProbePid(p)
    <3>1. seen[p] \in Past /\ Live(seen[p])
      BY <2>2 DEF ProbePid, PidAnswers, PidsArePast
    <3>2. seen[p] \in Claimants
      BY <3>1 DEF Past, Claimants, Holders, Live, Ended
    <3> QED
      BY <3>1, <3>2 DEF PathIsClaimed
  <2>3. CASE CheckAge(p)
    BY <2>3 DEF CheckAge, TooOld
  <2> QED
    BY <2>1, <2>2, <2>3
<1>4. SerialInv /\ PidsArePast /\ [SerialNext]_vars =>
        [RefusedJustly]_vars
  BY <1>3 DEF RefusedJustly
<1> QED
  BY <1>1, <1>2, <1>4, PTL DEF SerialSpec, RefusalIsJustified

---------------------------------------------------------------------------
\* The sieve: least and largest places, and slices of sequences.

\* The least of numbers is one of them.
LEMMA LeastOfThem ==
  ASSUME NEW S \in SUBSET Nat, S # {}
  PROVE  Min(S) \in S /\ \A i \in S : Min(S) <= i
<1>1. IsWellFoundedOn(OpToRel(<, Nat), Nat)
  BY NatLessThanWellFounded
<1>2. PICK r \in S : \A s \in S : <<s, r>> \notin OpToRel(<, Nat)
  BY <1>1, WFMin
<1>3. ASSUME NEW s \in S PROVE r <= s
  <2>1. ~(s < r)
    BY <1>2, <1>3 DEF OpToRel
  <2>2. s \in Nat /\ r \in Nat
    BY <1>2, <1>3
  <2> QED
    BY <2>1, <2>2
<1> QED
  BY <1>2, <1>3 DEF Min

\* The largest of numbers that are bounded is one of them.
LEMMA LargestOfThem ==
  ASSUME NEW n \in Nat, NEW S \in SUBSET (0..n), S # {}
  PROVE  Max(S) \in S /\ \A i \in S : i <= Max(S)
<1> DEFINE T == {n - i : i \in S}
<1>1. T \in SUBSET Nat /\ T # {}
  <2>1. \A i \in S : i \in 0..n
    OBVIOUS
  <2>2. \A i \in 0..n : n - i \in Nat
    OBVIOUS
  <2>3. \A i \in S : n - i \in Nat
    BY <2>1, <2>2
  <2> QED
    BY <2>3
<1>2. PICK r \in S : n - r = Min(T)
  BY <1>1, LeastOfThem
<1>3. \A i \in S : n - i \in T
  OBVIOUS
<1>4. \A i \in T : n - r <= i
  BY <1>1, <1>2, LeastOfThem
<1> HIDE DEF T
<1>5. ASSUME NEW i \in S PROVE r >= i
  <2>1. n - r <= n - i
    BY <1>3, <1>4
  <2> QED
    BY <2>1
<1>6. \E x \in S : \A y \in S : x >= y
  BY <1>5
<1>7. Max(S) \in S /\ \A y \in S : Max(S) >= y
  BY <1>6 DEF Max
<1> QED
  BY <1>7

\* A piece of a sequence, from behind one place to another.
LEMMA Slice ==
  ASSUME NEW S, NEW s \in Seq(S), NEW a \in Nat, NEW b \in Nat, a <= b, b <= Len(s)
  PROVE  /\ SubSeq(s, a + 1, b) \in Seq(S) /\ Len(SubSeq(s, a + 1, b)) = b - a
         /\ \A i \in 1..(b - a) : SubSeq(s, a + 1, b)[i] = s[a + i]
<1>1. \A i \in (a + 1)..b : s[i] \in S
  OBVIOUS
<1>2. a + 1 \in Int /\ b \in Int
  OBVIOUS
<1>3. /\ SubSeq(s, a + 1, b) \in Seq(S)
      /\ Len(SubSeq(s, a + 1, b)) = IF a + 1 <= b THEN b - (a + 1) + 1 ELSE 0
      /\ \A i \in 1 .. b - (a + 1) + 1 : SubSeq(s, a + 1, b)[i] = s[(a + 1) + i - 1]
  BY <1>1, <1>2, SubSeqProperties
<1>4. \A i \in 1..(b - a) : i \in 1 .. b - (a + 1) + 1 /\ (a + 1) + i - 1 = a + i
  OBVIOUS
<1> QED
  BY <1>3, <1>4

\* A slice of a slice is a slice.
LEMMA SliceOfSlice ==
  ASSUME NEW S, NEW s \in Seq(S), NEW a \in Nat, NEW b \in Nat, NEW c \in Nat, NEW d \in Nat,
         a <= b, b <= Len(s), c <= d, d <= b - a
  PROVE  SubSeq(SubSeq(s, a + 1, b), c + 1, d) = SubSeq(s, (a + c) + 1, a + d)
<1> DEFINE t == SubSeq(s, a + 1, b)
           u == SubSeq(t, c + 1, d)
           v == SubSeq(s, (a + c) + 1, a + d)
<1>1. t \in Seq(S) /\ Len(t) = b - a /\ \A i \in 1..(b - a) : t[i] = s[a + i]
  BY Slice
<1>2. a + c \in Nat /\ a + d \in Nat /\ a + c <= a + d /\ a + d <= Len(s)
  OBVIOUS
<1>3. v \in Seq(S) /\ Len(v) = d - c /\ \A i \in 1..(d - c) : v[i] = s[a + c + i]
  <2>1. v \in Seq(S) /\ Len(v) = (a + d) - (a + c)
        /\ \A i \in 1..((a + d) - (a + c)) : v[i] = s[(a + c) + i]
    BY <1>2, Slice
  <2>2. (a + d) - (a + c) = d - c
    OBVIOUS
  <2> QED
    BY <2>1, <2>2
<1> HIDE DEF t
<1>4. u \in Seq(S) /\ Len(u) = d - c /\ \A i \in 1..(d - c) : u[i] = t[c + i]
  BY <1>1, Slice
<1> HIDE DEF u, v
<1>5. ASSUME NEW i \in 1..(d - c) PROVE u[i] = v[i]
  <2>1. c + i \in 1..(b - a) /\ a + (c + i) = a + c + i
    OBVIOUS
  <2> QED
    BY <1>1, <1>3, <1>4, <2>1
<1>6. u = v
  BY <1>3, <1>4, <1>5, SeqEqual
<1> QED
  BY <1>6 DEF t, u, v

\* Slices that meet are one.
LEMMA SlicesMeet ==
  ASSUME NEW S, NEW s \in Seq(S), NEW a \in Nat, NEW b \in Nat, NEW c \in Nat,
         a <= b, b <= c, c <= Len(s)
  PROVE  SubSeq(s, a + 1, b) \o SubSeq(s, b + 1, c) = SubSeq(s, a + 1, c)
<1>1. a + 1 \in 1..Len(s) + 1 /\ b \in (a + 1 - 1)..Len(s) /\ c \in b..Len(s)
  OBVIOUS
<1> QED
  BY <1>1, ConcatAdjacentSubSeq

\* So from the beginning on.
LEMMA SlicesBegin ==
  ASSUME NEW S, NEW s \in Seq(S), NEW b \in Nat, NEW c \in Nat, b <= c, c <= Len(s)
  PROVE  SubSeq(s, 1, b) \o SubSeq(s, b + 1, c) = SubSeq(s, 1, c)
<1>1. PICK a \in Nat : a = 0
  OBVIOUS
<1>2. a <= b /\ a + 1 = 1
  BY <1>1
<1>3. SubSeq(s, a + 1, b) \o SubSeq(s, b + 1, c) = SubSeq(s, a + 1, c)
  BY <1>2, SlicesMeet
<1> QED
  BY <1>2, <1>3

\* What is put behind a sequence leaves its slices as they are.
LEMMA SliceStays ==
  ASSUME NEW S, NEW s \in Seq(S), NEW t \in Seq(S), NEW a \in Nat, NEW b \in Nat,
         a <= b, b <= Len(s)
  PROVE  SubSeq(s \o t, a + 1, b) = SubSeq(s, a + 1, b)
<1> DEFINE u == SubSeq(s \o t, a + 1, b)
           v == SubSeq(s, a + 1, b)
<1>1. /\ s \o t \in Seq(S) /\ Len(s \o t) = Len(s) + Len(t)
      /\ \A i \in 1..Len(s) : (s \o t)[i] = s[i]
  BY ConcatProperties
<1>2. Len(s) \in Nat /\ Len(t) \in Nat /\ b <= Len(s \o t)
  BY <1>1
<1>3. u \in Seq(S) /\ Len(u) = b - a /\ \A i \in 1..(b - a) : u[i] = (s \o t)[a + i]
  BY <1>1, <1>2, Slice
<1>4. v \in Seq(S) /\ Len(v) = b - a /\ \A i \in 1..(b - a) : v[i] = s[a + i]
  BY Slice
<1> HIDE DEF u, v
<1>5. ASSUME NEW i \in 1..(b - a) PROVE u[i] = v[i]
  <2>1. a + i \in 1..Len(s)
    BY <1>2
  <2> QED
    BY <1>1, <1>3, <1>4, <2>1
<1>6. u = v
  BY <1>3, <1>4, <1>5, SeqEqual
<1> QED
  BY <1>6 DEF u, v

\* Newlines up to a place: how many there are.
EndsUpTo(s, i) == {e \in Ends(s) : e <= i}
CountTo(s, i)  == Cardinality(EndsUpTo(s, i))

\* They grow by one at each.
LEMMA CountsGrow ==
  ASSUME NEW S, NEW s \in Seq(S)
  PROVE  /\ Ends(s) \subseteq 1..Len(s) /\ Cardinality(Ends(s)) \in Nat
         /\ \A i \in Nat : CountTo(s, i) \in 0..Cardinality(Ends(s))
         /\ CountTo(s, 0) = 0 /\ CountTo(s, Len(s)) = Cardinality(Ends(s))
         /\ \A i \in Nat : CountTo(s, i + 1) = IF i + 1 \in Ends(s) THEN CountTo(s, i) + 1
                                               ELSE CountTo(s, i)
         /\ \A i, k \in Nat : i <= k => CountTo(s, i) <= CountTo(s, k)
         /\ \A i \in Nat : \A k \in Ends(s) : i < k => CountTo(s, i) < CountTo(s, k)
<1>1. Ends(s) \subseteq 1..Len(s) /\ Len(s) \in Nat
  BY DEF Ends
<1>2. IsFiniteSet(Ends(s)) /\ Cardinality(Ends(s)) \in Nat
  <2>1. IsFiniteSet(1..Len(s))
    BY <1>1, FS_Interval
  <2> QED
    BY <1>1, <2>1, FS_Subset, FS_CardinalityType
<1>3. ASSUME NEW i \in Nat
      PROVE  /\ IsFiniteSet(EndsUpTo(s, i)) /\ CountTo(s, i) \in Nat
             /\ CountTo(s, i) <= Cardinality(Ends(s))
  <2>1. EndsUpTo(s, i) \in SUBSET Ends(s)
    BY DEF EndsUpTo
  <2> QED
    BY <1>2, <2>1, FS_Subset, FS_CardinalityType DEF CountTo
<1>4. CountTo(s, 0) = 0
  <2>1. EndsUpTo(s, 0) = {}
    BY <1>1 DEF EndsUpTo
  <2> QED
    BY <2>1, FS_EmptySet DEF CountTo
<1>5. CountTo(s, Len(s)) = Cardinality(Ends(s))
  <2>1. EndsUpTo(s, Len(s)) = Ends(s)
    BY <1>1 DEF EndsUpTo
  <2> QED
    BY <2>1 DEF CountTo
<1>6. ASSUME NEW i \in Nat
      PROVE  CountTo(s, i + 1) = IF i + 1 \in Ends(s) THEN CountTo(s, i) + 1 ELSE CountTo(s, i)
  <2>1. CASE i + 1 \in Ends(s)
    <3>1. EndsUpTo(s, i + 1) = EndsUpTo(s, i) \cup {i + 1}
      BY <1>1, <2>1 DEF EndsUpTo
    <3>2. i + 1 \notin EndsUpTo(s, i)
      BY DEF EndsUpTo
    <3> QED
      BY <1>3, <2>1, <3>1, <3>2, FS_AddElement DEF CountTo
  <2>2. CASE i + 1 \notin Ends(s)
    <3>1. EndsUpTo(s, i + 1) = EndsUpTo(s, i)
      BY <1>1, <2>2 DEF EndsUpTo
    <3> QED
      BY <2>2, <3>1 DEF CountTo
  <2> QED
    BY <2>1, <2>2
<1>7. ASSUME NEW i \in Nat, NEW k \in Nat, i <= k
      PROVE  CountTo(s, i) <= CountTo(s, k)
  <2>1. EndsUpTo(s, i) \in SUBSET EndsUpTo(s, k)
    BY <1>1, <1>7 DEF EndsUpTo
  <2>2. IsFiniteSet(EndsUpTo(s, k))
    BY <1>3
  <2> QED
    BY <2>1, <2>2, FS_Subset DEF CountTo
<1>8. ASSUME NEW i \in Nat, NEW k \in Ends(s), i < k
      PROVE  CountTo(s, i) < CountTo(s, k)
  <2>1. k - 1 \in Nat /\ i <= k - 1 /\ (k - 1) + 1 = k
    BY <1>1, <1>8
  <2>2. CountTo(s, i) <= CountTo(s, k - 1)
    BY <1>7, <2>1
  <2>3. CountTo(s, (k - 1) + 1) = CountTo(s, k - 1) + 1
    BY <1>6, <2>1
  <2>4. CountTo(s, i) \in Nat /\ CountTo(s, k - 1) \in Nat
    BY <1>3, <2>1
  <2> QED
    BY <2>1, <2>2, <2>3, <2>4
<1>9. \A i \in Nat : CountTo(s, i) \in 0..Cardinality(Ends(s))
  BY <1>2, <1>3
<1> QED
  BY <1>1, <1>2, <1>4, <1>5, <1>6, <1>7, <1>8, <1>9

\* A newline is where as many have come, and there is one for each number.
LEMMA EndsAreCounted ==
  ASSUME NEW S, NEW s \in Seq(S)
  PROVE  /\ \A j \in 0..Cardinality(Ends(s)) :
              EndOf(s, j) \in Ends(s) \cup {0} /\ CountTo(s, EndOf(s, j)) = j
         /\ \A p \in Ends(s) : CountTo(s, p) \in 1..Cardinality(Ends(s))
                               /\ EndOf(s, CountTo(s, p)) = p
<1> DEFINE c == Cardinality(Ends(s))
           N(i) == CountTo(s, i)
<1>0. Len(s) \in Nat
  BY LenProperties
<1>1. /\ Ends(s) \subseteq 1..Len(s) /\ c \in Nat /\ Len(s) \in Nat
      /\ \A i \in Nat : N(i) \in 0..c
      /\ N(0) = 0 /\ N(Len(s)) = c
      /\ \A i \in Nat : N(i + 1) = IF i + 1 \in Ends(s) THEN N(i) + 1 ELSE N(i)
      /\ \A i \in Nat : \A k \in Ends(s) : i < k => N(i) < N(k)
  BY <1>0, CountsGrow
<1>2. \A j : EndOf(s, j) = CHOOSE i \in Ends(s) \cup {0} : N(i) = j
  BY DEF EndOf, CountTo, EndsUpTo
<1> HIDE DEF c, N
<1>3. ASSUME NEW j \in 0..c
      PROVE  \E i \in Ends(s) \cup {0} : N(i) = j
  <2>1. CASE j = 0
    BY <1>1, <2>1
  <2>2. CASE j # 0
    <3> DEFINE T == {i \in 0..Len(s) : N(i) >= j}
               m == Min(T)
    <3>1. Len(s) \in T
      BY <1>1
    <3>2. T \in SUBSET Nat /\ T # {}
      BY <3>1
    <3>3. m \in T /\ \A i \in T : m <= i
      BY <3>2, LeastOfThem
    <3>4. m \in 0..Len(s) /\ N(m) >= j
      BY <3>3
    <3> HIDE DEF m
    <3>5. \A i \in 0..Len(s) : i < m => N(i) < j
      <4>1. ASSUME NEW i \in 0..Len(s), i < m PROVE N(i) < j
        <5>1. ~(m <= i)
          BY <1>0, <3>4, <4>1
        <5>2. i \notin T
          BY <3>3, <5>1
        <5>3. ~(N(i) >= j)
          BY <5>2
        <5>4. N(i) \in 0..c
          BY <1>1
        <5> QED
          BY <1>1, <5>3, <5>4
      <4> QED
        BY <4>1
    <3> HIDE DEF T
    <3>6. m # 0
      BY <1>1, <1>3, <2>2, <3>4
    <3>7. m - 1 \in 0..Len(s) /\ m - 1 \in Nat /\ (m - 1) + 1 = m
      BY <1>1, <3>4, <3>6
    <3>8. N(m - 1) < j
      BY <3>4, <3>5, <3>7
    <3>9. N(m) = IF m \in Ends(s) THEN N(m - 1) + 1 ELSE N(m - 1)
      BY <1>1, <3>7
    <3>10. N(m - 1) \in Nat
      BY <1>1, <3>7
    <3>11. m \in Ends(s) /\ N(m) = j
      BY <1>3, <3>4, <3>8, <3>9, <3>10
    <3> QED
      BY <3>11
  <2> QED
    BY <2>1, <2>2
<1>4. \A j \in 0..c : EndOf(s, j) \in Ends(s) \cup {0} /\ N(EndOf(s, j)) = j
  BY <1>2, <1>3
<1>5. ASSUME NEW p \in Ends(s)
      PROVE  N(p) \in 1..c /\ EndOf(s, N(p)) = p
  <2>1. p \in 1..Len(s) /\ p \in Nat
    BY <1>1
  <2>2. N(0) < N(p) /\ N(p) \in 0..c
    BY <1>1, <2>1
  <2>3. N(p) \in 1..c
    BY <1>1, <2>2
  <2> DEFINE e == EndOf(s, N(p))
  <2>4. e \in Ends(s) \cup {0} /\ N(e) = N(p)
    BY <1>4, <2>2
  <2> HIDE DEF e
  <2>5. e \in Nat
    <3>1. Ends(s) \subseteq 1..Len(s) /\ Len(s) \in Nat
      BY <1>1
    <3>2. CASE e \in Ends(s)
      BY <3>1, <3>2
    <3>3. CASE e = 0
      BY <3>3
    <3> QED
      BY <2>4, <3>2, <3>3
  <2>6. ~(e < p)
    BY <1>1, <2>2, <2>4, <2>5
  <2>7. ~(p < e)
    <3>1. p < e => N(p) < N(e)
      BY <1>1, <2>1, <2>4, <2>5
    <3> QED
      BY <2>2, <2>4, <3>1
  <2>8. e = p
    BY <2>1, <2>5, <2>6, <2>7
  <2> QED
    BY <2>3, <2>8 DEF e
<1> QED
  BY <1>4, <1>5 DEF c, N

\* A line ends at the first newline behind the one before it; the rest begins
\* behind the last.
LEMMA LineEnds ==
  ASSUME NEW S, NEW s \in Seq(S)
  PROVE  LET c == Cardinality(Ends(s)) IN
         /\ c \in Nat /\ EndOf(s, 0) = 0 /\ EndOf(s, c) = Max(Ends(s) \cup {0})
         /\ \A j \in 0..c : EndOf(s, j) \in 0..Len(s)
         /\ \A j \in 1..c : /\ EndOf(s, j) \in Ends(s) /\ EndOf(s, j - 1) < EndOf(s, j)
                            /\ EndOf(s, j - 1) \in Ends(s) \cup {0}
                            /\ \A i \in Ends(s) : i <= EndOf(s, j - 1) \/ EndOf(s, j) <= i
         /\ \A p \in Ends(s) : p <= EndOf(s, c) /\ \E j \in 1..c : EndOf(s, j) = p
<1> DEFINE c == Cardinality(Ends(s))
           N(i) == CountTo(s, i)
           E(j) == EndOf(s, j)
<1>0. Len(s) \in Nat
  BY LenProperties
<1>1. /\ Ends(s) \subseteq 1..Len(s) /\ c \in Nat /\ Len(s) \in Nat
      /\ \A i \in Nat : N(i) \in 0..c
      /\ N(0) = 0
      /\ \A i, k \in Nat : i <= k => N(i) <= N(k)
      /\ \A i \in Nat : \A k \in Ends(s) : i < k => N(i) < N(k)
  BY <1>0, CountsGrow
<1>2. /\ \A j \in 0..c : E(j) \in Ends(s) \cup {0} /\ N(E(j)) = j
      /\ \A p \in Ends(s) : N(p) \in 1..c /\ E(N(p)) = p
  BY EndsAreCounted
<1>3. Max(Ends(s) \cup {0}) \in Ends(s) \cup {0}
      /\ \A i \in Ends(s) \cup {0} : i <= Max(Ends(s) \cup {0})
  <2>1. Ends(s) \cup {0} \in SUBSET (0..Len(s)) /\ Ends(s) \cup {0} # {}
    BY <1>1
  <2> QED
    BY <1>1, <2>1, LargestOfThem
<1> HIDE DEF c, N, E
<1>4. \A j \in 0..c : E(j) \in 0..Len(s) /\ E(j) \in Nat
  BY <1>1, <1>2
<1>5. \A i \in Ends(s) : i \in Nat /\ i # 0
  <2>1. Ends(s) \subseteq 1..Len(s)
    BY <1>1
  <2>2. \A i \in 1..Len(s) : i \in Nat /\ i # 0
    BY <1>0
  <2> QED
    BY <2>1, <2>2
<1>6. 0 \in 0..c /\ c \in 0..c
  <2>1. c \in Nat
    BY <1>1
  <2> QED
    BY <2>1
<1>7. E(0) = 0
  <2>1. E(0) \in Ends(s) => N(0) < N(E(0))
    BY <1>1, <1>5
  <2>2. N(E(0)) = 0 /\ E(0) \in Ends(s) \cup {0}
    BY <1>2, <1>6
  <2> QED
    BY <1>1, <2>1, <2>2
<1>8. ASSUME NEW j \in 1..c
      PROVE  /\ E(j) \in Ends(s) /\ E(j - 1) < E(j) /\ E(j - 1) \in Ends(s) \cup {0}
             /\ \A i \in Ends(s) : i <= E(j - 1) \/ E(j) <= i
  <2>1. j \in 0..c /\ j - 1 \in 0..c
    BY <1>1
  <2>2. N(E(j)) = j /\ N(E(j - 1)) = j - 1 /\ E(j) \in Nat /\ E(j - 1) \in Nat
        /\ E(j) \in Ends(s) \cup {0} /\ E(j - 1) \in Ends(s) \cup {0}
    BY <1>2, <1>4, <2>1
  <2>3. E(j) # 0
    BY <1>1, <2>2
  <2>4. E(j - 1) < E(j)
    <3>1. E(j) <= E(j - 1) => N(E(j)) <= N(E(j - 1))
      BY <1>1, <2>2
    <3> QED
      BY <2>2, <3>1
  <2>5. ASSUME NEW i \in Ends(s), E(j - 1) < i, i < E(j) PROVE FALSE
    <3>1. N(E(j - 1)) < N(i)
      BY <1>1, <2>2, <2>5
    <3>2. N(i) < N(E(j))
      BY <1>1, <1>5, <2>2, <2>3, <2>5
    <3>3. N(i) \in Nat
      BY <1>1, <1>5
    <3> QED
      BY <2>2, <3>1, <3>2, <3>3
  <2>6. \A i \in Ends(s) : i <= E(j - 1) \/ E(j) <= i
    BY <1>5, <2>2, <2>5
  <2> QED
    BY <2>2, <2>3, <2>4, <2>6
<1>9. ASSUME NEW p \in Ends(s) PROVE p <= E(c) /\ \E j \in 1..c : E(j) = p
  <2>1. N(p) \in 1..c /\ E(N(p)) = p
    BY <1>2
  <2>2. E(c) \in Nat /\ N(E(c)) = c
    BY <1>2, <1>4, <1>6
  <2>3. E(c) < p => N(E(c)) < N(p)
    BY <1>1, <2>2
  <2>4. ~(E(c) < p)
    BY <1>1, <2>1, <2>2, <2>3
  <2> QED
    BY <1>5, <2>1, <2>2, <2>4
<1>10. E(c) = Max(Ends(s) \cup {0})
  <2>1. E(c) \in Ends(s) \cup {0} /\ E(c) \in Nat
    BY <1>2, <1>4, <1>6
  <2> DEFINE m == Max(Ends(s) \cup {0})
  <2>2. m \in Ends(s) \cup {0} /\ \A i \in Ends(s) \cup {0} : i <= m
    BY <1>3
  <2> HIDE DEF m
  <2>4. m \in Nat /\ E(c) <= m
    BY <1>5, <2>1, <2>2
  <2>5. m = 0 \/ m <= E(c)
    BY <1>9, <2>2
  <2>3. E(c) = m
    BY <2>1, <2>4, <2>5
  <2> QED
    BY <2>3 DEF m
<1>11. \A j \in 0..c : E(j) \in 0..Len(s)
  BY <1>4
<1> QED
  BY <1>1, <1>7, <1>8, <1>9, <1>10, <1>11 DEF c, E

\* Parts that cover a sequence, each from where the one before it ends.
CutAt(e, parts, s) ==
  /\ e \in [0..Len(parts) -> 0..Len(s)] /\ e[0] = 0
  /\ \A j \in 1..Len(parts) : e[j - 1] <= e[j] /\ parts[j] = SubSeq(s, e[j - 1] + 1, e[j])

\* Put together, they are the sequence up to the last end.
LEMMA PartsMakeTheWhole ==
  ASSUME NEW S, NEW s \in Seq(S), NEW parts, Len(parts) \in Nat, NEW e, CutAt(e, parts, s),
         Len(parts) = 0 => parts = <<>>
  PROVE  FlattenSeq(parts) = SubSeq(s, 1, e[Len(parts)])
<1> DEFINE n == Len(parts)
           flat[i \in 1..Len(parts)] == IF i = 1 THEN parts[i] ELSE flat[i - 1] \o parts[i]
           g == [i \in 1..n |-> SubSeq(s, 1, e[i])]
<1>1. CASE n = 0
  <2>1. FlattenSeq(parts) = <<>>
    BY <1>1 DEF FlattenSeq
  <2>2. e[n] = 0
    BY <1>1 DEF CutAt
  <2>3. SubSeq(s, 1, 0) = <<>>
    BY SubSeqEmpty
  <2> QED
    BY <2>1, <2>2, <2>3
<1>2. CASE n # 0
  <2>1. FlattenSeq(parts) = flat[n]
    BY <1>2 DEF FlattenSeq
  <2>2. flat = CHOOSE f : f = [i \in 1..Len(parts) |-> IF i = 1 THEN parts[i] ELSE f[i - 1] \o parts[i]]
    OBVIOUS
  <2> HIDE DEF flat
  <2>3. ASSUME NEW i \in 1..n
        PROVE  g[i] = IF i = 1 THEN parts[i] ELSE g[i - 1] \o parts[i]
    <3>1. /\ e[i - 1] \in 0..Len(s) /\ e[i] \in 0..Len(s) /\ e[i - 1] <= e[i] /\ Len(s) \in Nat
          /\ parts[i] = SubSeq(s, e[i - 1] + 1, e[i])
      <4>1. i - 1 \in 0..Len(parts) /\ i \in 0..Len(parts)
        OBVIOUS
      <4>2. e \in [0..Len(parts) -> 0..Len(s)]
        BY DEF CutAt
      <4>3. e[i - 1] <= e[i] /\ parts[i] = SubSeq(s, e[i - 1] + 1, e[i])
        BY DEF CutAt
      <4> QED
        BY <4>1, <4>2, <4>3, LenProperties
    <3>2. CASE i = 1
      <4>1. e[i - 1] = 0
        BY <3>2 DEF CutAt
      <4> QED
        BY <3>1, <3>2, <4>1
    <3>3. CASE i # 1
      <4>1. SubSeq(s, 1, e[i - 1]) \o SubSeq(s, e[i - 1] + 1, e[i]) = SubSeq(s, 1, e[i])
        <5>1. e[i - 1] \in Nat /\ e[i] \in Nat /\ e[i - 1] <= e[i] /\ e[i] <= Len(s)
          BY <3>1
        <5> QED
          BY <5>1, SlicesBegin
      <4>2. i - 1 \in 1..n
        BY <1>2, <3>3
      <4>3. g[i - 1] = SubSeq(s, 1, e[i - 1]) /\ g[i] = SubSeq(s, 1, e[i])
        BY <4>2
      <4> QED
        BY <3>1, <3>3, <4>1, <4>3
    <3> QED
      BY <3>2, <3>3
  <2>4. g = [i \in 1..Len(parts) |-> IF i = 1 THEN parts[i] ELSE g[i - 1] \o parts[i]]
    BY <2>3
  <2> HIDE DEF g
  <2>5. flat = [i \in 1..Len(parts) |-> IF i = 1 THEN parts[i] ELSE flat[i - 1] \o parts[i]]
    BY <2>2, <2>4
  <2>6. \A i \in 1..n : flat[i] = IF i = 1 THEN parts[i] ELSE flat[i - 1] \o parts[i]
    BY <2>5
  <2> DEFINE Bad == {i \in 1..n : flat[i] # g[i]}
             m == Min(Bad)
  <2>7. Bad = {}
    <3> SUFFICES ASSUME Bad # {} PROVE FALSE
      OBVIOUS
    <3>1. Bad \in SUBSET Nat
      OBVIOUS
    <3>2. m \in Bad /\ \A i \in Bad : m <= i
      BY <3>1, LeastOfThem
    <3>3. m \in 1..n /\ flat[m] # g[m]
      BY <3>2
    <3> HIDE DEF m
    <3>4. m # 1
      BY <2>3, <2>6, <3>3
    <3>5. m - 1 \in 1..n /\ ~(m <= m - 1)
      BY <3>3, <3>4
    <3>6. flat[m - 1] = g[m - 1]
      BY <3>2, <3>5
    <3> QED
      BY <2>3, <2>6, <3>3, <3>4, <3>6
  <2>8. n \in 1..n
    BY <1>2
  <2>9. flat[n] = g[n]
    BY <2>7, <2>8
  <2> QED
    BY <2>1, <2>8, <2>9 DEF g
<1> QED
  BY <1>1, <1>2

\* The first of them.
FirstParts(parts, n) == [i \in 1..n |-> parts[i]]

\* So is any number of them.
LEMMA PartsSoFar ==
  ASSUME NEW S, NEW s \in Seq(S), NEW parts, Len(parts) \in Nat, NEW e, CutAt(e, parts, s),
         NEW n \in 0..Len(parts)
  PROVE  FlattenSeq(FirstParts(parts, n)) = SubSeq(s, 1, e[n])
<1> DEFINE some == [i \in 1..n |-> parts[i]]
           d == [i \in 0..n |-> e[i]]
<1>1. Len(some) = n /\ n \in Nat /\ \A i \in 1..n : some[i] = parts[i]
  OBVIOUS
<1>2. n = 0 => some = <<>>
  OBVIOUS
<1>3. \A i \in 0..n : d[i] = e[i]
  OBVIOUS
<1>4. d \in [0..n -> 0..Len(s)]
  BY DEF CutAt
<1> HIDE DEF some, d
<1>5. ASSUME NEW j \in 1..n
      PROVE  d[j - 1] <= d[j] /\ some[j] = SubSeq(s, d[j - 1] + 1, d[j])
  <2>1. j \in 1..Len(parts) /\ j - 1 \in 0..n /\ j \in 0..n
    BY <1>1
  <2>2. e[j - 1] <= e[j] /\ parts[j] = SubSeq(s, e[j - 1] + 1, e[j])
    BY <2>1 DEF CutAt
  <2> QED
    BY <1>1, <1>3, <2>1, <2>2
<1>6. d[0] = 0
  BY <1>1, <1>3 DEF CutAt
<1>7. CutAt(d, some, s)
  BY <1>1, <1>4, <1>5, <1>6 DEF CutAt
<1>8. FlattenSeq(some) = SubSeq(s, 1, d[Len(some)])
  BY <1>1, <1>2, <1>7, PartsMakeTheWhole
<1> QED
  BY <1>1, <1>3, <1>8 DEF some, FirstParts

\* A state of a line is a slice of it.
LEMMA StateIsASlice ==
  ASSUME NEW S, NEW s \in Seq(S), NEW i \in Starts(s)
  PROVE  \E n \in Nat : /\ i \in Nat /\ i >= 1 /\ i <= n + 1 /\ n <= Len(s)
                        /\ StateAt(s, i) = SubSeq(s, i, n)
<1> DEFINE D == {j - 1 : j \in {r \in Returns(s) : r >= i}} \cup {Len(s)}
<1>1. Len(s) \in Nat /\ Returns(s) \subseteq 1..Len(s)
  BY LenProperties DEF Returns
<1>2. i \in Nat /\ i >= 1 /\ i <= Len(s) + 1
  BY <1>1 DEF Starts
<1>3. \A d \in D : d \in Nat /\ i <= d + 1 /\ d <= Len(s)
  <2>1. ASSUME NEW r \in Returns(s), r >= i PROVE r - 1 \in Nat /\ i <= (r - 1) + 1 /\ r - 1 <= Len(s)
    BY <1>1, <1>2, <2>1
  <2> QED
    BY <1>1, <1>2, <2>1
<1>4. Len(s) \in D
  OBVIOUS
<1>5. StateAt(s, i) = SubSeq(s, i, Min(D))
  BY DEF StateAt
<1> HIDE DEF D
<1>6. Min(D) \in D
  BY <1>3, <1>4, LeastOfThem
<1> QED
  BY <1>2, <1>3, <1>5, <1>6

\* Trimming takes from the ends: what it leaves is of the line.
LEMMA TrimTakesAway ==
  ASSUME NEW S, NEW t \in Seq(S)
  PROVE  /\ Trim(t) \in Seq(S)
         /\ \A i \in 1..Len(Trim(t)) : \E q \in 1..Len(t) : Trim(t)[i] = t[q]
<1>1. Len(t) \in Nat /\ Solid(t) \in SUBSET (1..Len(t)) /\ Solid(t) \in SUBSET (0..Len(t))
      /\ Solid(t) \in SUBSET Nat
  BY LenProperties DEF Solid
<1>2. CASE Solid(t) = {}
  <2>1. Trim(t) = <<>>
    BY <1>2 DEF Trim
  <2> QED
    BY <2>1, EmptySeq
<1>3. CASE Solid(t) # {}
  <2> DEFINE a == Min(Solid(t))
             b == Max(Solid(t))
  <2>1. a \in Solid(t) /\ b \in Solid(t)
    BY <1>1, <1>3, LeastOfThem, LargestOfThem
  <2>2. \A i \in Solid(t) : a <= i
    BY <1>1, <1>3, LeastOfThem
  <2>3. Trim(t) = SubSeq(t, a, b)
    BY <1>3 DEF Trim
  <2> HIDE DEF a, b
  <2>4. a \in 1..Len(t) /\ b \in 1..Len(t) /\ a <= b
    BY <1>1, <2>1, <2>2
  <2>5. a - 1 \in Nat /\ b \in Nat /\ a - 1 <= b /\ b <= Len(t) /\ (a - 1) + 1 = a
    BY <1>1, <2>4
  <2>6. /\ SubSeq(t, (a - 1) + 1, b) \in Seq(S) /\ Len(SubSeq(t, (a - 1) + 1, b)) = b - (a - 1)
        /\ \A i \in 1..(b - (a - 1)) : SubSeq(t, (a - 1) + 1, b)[i] = t[(a - 1) + i]
    BY <2>5, Slice
  <2>7. Trim(t) \in Seq(S) /\ Len(Trim(t)) = b - (a - 1)
        /\ \A i \in 1..(b - (a - 1)) : Trim(t)[i] = t[(a - 1) + i]
    BY <2>3, <2>5, <2>6
  <2>8. \A i \in 1..(b - (a - 1)) : (a - 1) + i \in 1..Len(t)
    BY <2>4, <1>1
  <2> QED
    BY <2>7, <2>8
<1> QED
  BY <1>2, <1>3

\* The kind of a marker is a byte of its line.
LEMMA MarkIsInItsLine ==
  ASSUME NEW S, NEW s \in Seq(S), NEW i \in Starts(s), NEW k, Trim(StateAt(s, i)) = MarkerText(k)
  PROVE  \E q \in 1..Len(s) : s[q] = k
<1>1. PICK n \in Nat : /\ i \in Nat /\ i >= 1 /\ i <= n + 1 /\ n <= Len(s)
                       /\ StateAt(s, i) = SubSeq(s, i, n)
  BY StateIsASlice
<1>2. i - 1 \in Nat /\ i - 1 <= n /\ (i - 1) + 1 = i /\ Len(s) \in Nat
  BY <1>1, LenProperties
<1> DEFINE t == StateAt(s, i)
<1>3. t \in Seq(S) /\ Len(t) = n - (i - 1) /\ \A q \in 1..(n - (i - 1)) : t[q] = s[(i - 1) + q]
  <2>1. /\ SubSeq(s, (i - 1) + 1, n) \in Seq(S) /\ Len(SubSeq(s, (i - 1) + 1, n)) = n - (i - 1)
        /\ \A q \in 1..(n - (i - 1)) : SubSeq(s, (i - 1) + 1, n)[q] = s[(i - 1) + q]
    <3>1. PICK a \in Nat : a = i - 1
      BY <1>2
    <3>2. a <= n /\ n <= Len(s)
      BY <1>1, <1>2, <3>1
    <3>3. /\ SubSeq(s, a + 1, n) \in Seq(S) /\ Len(SubSeq(s, a + 1, n)) = n - a
          /\ \A q \in 1..(n - a) : SubSeq(s, a + 1, n)[q] = s[a + q]
      BY <3>2, Slice
    <3> QED
      BY <3>1, <3>3
  <2> QED
    BY <1>1, <1>2, <2>1
<1>4. Trim(t) = <<"m", k>>
  BY DEF MarkerText
<1> HIDE DEF t
<1>5. Len(Trim(t)) = 2 /\ Trim(t)[2] = k
  BY <1>4
<1>6. PICK q \in 1..Len(t) : Trim(t)[2] = t[q]
  <2>1. \A j \in 1..Len(Trim(t)) : \E q \in 1..Len(t) : Trim(t)[j] = t[q]
    BY <1>3, TrimTakesAway
  <2> QED
    BY <1>5, <2>1
<1>7. (i - 1) + q \in 1..Len(s)
  BY <1>1, <1>2, <1>3, <1>6
<1> QED
  BY <1>3, <1>5, <1>6, <1>7

\* A line is a marker if a state of it is one, and then one that a state of it is.
LEMMA MarkerIsOfAState ==
  ASSUME NEW S, NEW s \in Seq(S)
  PROVE  /\ MarkerOf(s) \in MarkKinds \cup {NoMark}
         /\ (\E i \in Starts(s) : IsMarkerAt(s, i)) =>
              /\ MarkerOf(s) \in MarkKinds
              /\ \E i \in Starts(s) : Trim(StateAt(s, i)) = MarkerText(MarkerOf(s))
<1> DEFINE found == {i \in Starts(s) : IsMarkerAt(s, i)}
<1>1. MarkerOf(s) = IF found = {} THEN NoMark ELSE Trim(StateAt(s, Min(found)))[2]
  BY DEF MarkerOf
<1>2. CASE found = {}
  BY <1>1, <1>2
<1>3. CASE found # {}
  <2>1. found \in SUBSET Nat
    <3>1. \A i \in Starts(s) : i \in Nat
      BY StateIsASlice
    <3> QED
      BY <3>1
  <2>2. Min(found) \in found
    BY <1>3, <2>1, LeastOfThem
  <2>3. PICK k \in MarkKinds : Trim(StateAt(s, Min(found))) = MarkerText(k)
    BY <2>2 DEF IsMarkerAt
  <2>4. MarkerText(k)[2] = k
    BY DEF MarkerText
  <2>5. MarkerOf(s) = k
    BY <1>1, <1>3, <2>3, <2>4
  <2> QED
    BY <2>2, <2>3, <2>5
<1> QED
  BY <1>2, <1>3

\* Two bytes that are not blank are all that trimming leaves of them.
LEMMA NothingToTrim ==
  ASSUME NEW a, NEW b, a \notin Blanks, b \notin Blanks
  PROVE  Trim(<<a, b>>) = <<a, b>>
<1> DEFINE t == <<a, b>>
<1>1. t \in Seq({a, b}) /\ Len(t) = 2 /\ t[1] = a /\ t[2] = b /\ DOMAIN t = {1, 2}
  OBVIOUS
<1>2. Solid(t) = {1, 2}
  BY <1>1 DEF Solid
<1>3. {1, 2} \in SUBSET Nat /\ {1, 2} \in SUBSET (0..2) /\ {1, 2} # {}
  OBVIOUS
<1>4. Min({1, 2}) = 1
  <2>1. Min({1, 2}) \in {1, 2} /\ \A i \in {1, 2} : Min({1, 2}) <= i
    BY <1>3, LeastOfThem
  <2>2. Min({1, 2}) <= 1
    BY <2>1
  <2> QED
    BY <2>1, <2>2
<1>5. Max({1, 2}) = 2
  <2>1. Max({1, 2}) \in {1, 2} /\ \A i \in {1, 2} : i <= Max({1, 2})
    BY <1>3, LargestOfThem
  <2>2. 2 <= Max({1, 2})
    BY <2>1
  <2> QED
    BY <2>1, <2>2
<1>6. Trim(t) = SubSeq(t, 1, Len(t))
  BY <1>1, <1>2, <1>4, <1>5 DEF Trim
<1>7. SubSeq(t, 1, Len(t)) = t
  BY <1>1, SubSeqFull
<1> QED
  BY <1>6, <1>7

\* A marker at the start of a line, or behind a carriage return, and the line's
\* newline: the line is that marker.
LEMMA MarkedLine ==
  ASSUME NEW s \in Seq(Bytes), NEW p \in Nat, p >= 1, NEW k \in MarkKinds,
         Len(s) = p + 3, s[p] = "m", s[p + 1] = k, s[p + 2] = "cr", s[p + 3] = "nl",
         p = 1 \/ s[p - 1] = "cr",
         \A q \in 1..Len(s) : s[q] \in MarkKinds => q = p + 1
  PROVE  MarkerOf(s) = k
<1> DEFINE D == {j - 1 : j \in {r \in Returns(s) : r >= p}} \cup {Len(s)}
<1>1. k # "cr" /\ "m" # "cr" /\ k \notin Blanks /\ "m" \notin Blanks
  BY SieveAssumption DEF Blanks
<1>2. DOMAIN s = 1..Len(s) /\ Len(s) \in Nat
  BY LenProperties
<1>3. p + 2 \in Returns(s) /\ \A r \in Returns(s) : r \in Nat /\ s[r] = "cr"
  BY <1>2 DEF Returns
<1>4. p + 1 \in D
  <2>1. p + 2 >= p /\ (p + 2) - 1 = p + 1
    OBVIOUS
  <2> QED
    BY <1>3, <2>1
<1>5. \A d \in D : d \in Nat /\ p + 1 <= d
  <2>1. ASSUME NEW r \in Returns(s), r >= p PROVE r - 1 \in Nat /\ p + 1 <= r - 1
    <3>1. r # p /\ r # p + 1 /\ r \in Nat
      BY <1>1, <1>3, <2>1
    <3> QED
      BY <2>1, <3>1
  <2> QED
    BY <1>2, <2>1
<1>6. StateAt(s, p) = SubSeq(s, p, Min(D))
  BY DEF StateAt
<1> HIDE DEF D
<1>7. Min(D) = p + 1
  <2>1. Min(D) \in D /\ \A d \in D : Min(D) <= d
    BY <1>4, <1>5, LeastOfThem
  <2> QED
    BY <1>4, <1>5, <2>1
<1>8. StateAt(s, p) = <<"m", k>>
  <2>1. p - 1 \in Nat /\ p + 1 \in Nat /\ p - 1 <= p + 1 /\ p + 1 <= Len(s) /\ (p - 1) + 1 = p
        /\ (p + 1) - (p - 1) = 2
    OBVIOUS
  <2> DEFINE t == SubSeq(s, (p - 1) + 1, p + 1)
  <2>2. t \in Seq(Bytes) /\ Len(t) = (p + 1) - (p - 1)
        /\ \A i \in 1..((p + 1) - (p - 1)) : t[i] = s[(p - 1) + i]
    BY <2>1, Slice
  <2>3. t = StateAt(s, p)
    BY <1>6, <1>7, <2>1
  <2> HIDE DEF t
  <2>4. Len(t) = 2 /\ t[1] = "m" /\ t[2] = k
    <3>1. (p - 1) + 1 = p /\ (p - 1) + 2 = p + 1
      OBVIOUS
    <3> QED
      BY <2>1, <2>2, <3>1
  <2>5. t = <<"m", k>>
    BY <2>2, <2>4
  <2> QED
    BY <2>3, <2>5
<1>9. Trim(StateAt(s, p)) = MarkerText(k)
  BY <1>1, <1>8, NothingToTrim DEF MarkerText
<1>10. p \in Starts(s)
  <2>1. CASE p = 1
    BY <2>1 DEF Starts
  <2>2. CASE p # 1
    <3>1. p - 1 \in Returns(s) /\ (p - 1) + 1 = p
      BY <1>2, <2>2 DEF Returns
    <3> QED
      BY <3>1 DEF Starts
  <2> QED
    BY <2>1, <2>2
<1>11. IsMarkerAt(s, p)
  BY <1>9 DEF IsMarkerAt
<1>12. MarkerOf(s) \in MarkKinds
       /\ \E i \in Starts(s) : Trim(StateAt(s, i)) = MarkerText(MarkerOf(s))
  BY <1>10, <1>11, MarkerIsOfAState
<1>13. PICK q \in 1..Len(s) : s[q] = MarkerOf(s)
  BY <1>12, MarkIsInItsLine
<1>14. q = p + 1
  BY <1>12, <1>13
<1> QED
  BY <1>13, <1>14

\* What a marker begins with is held back.
LEMMA BeginningIsHeld ==
  ASSUME NEW s \in Seq(Bytes), NEW p \in Nat, p >= 1, NEW k \in MarkKinds,
         NEW l \in Nat, Len(s) = l, l = p \/ l = p + 1, l = p + 1 => s[p + 1] = k, s[p] = "m",
         p = 1 \/ s[p - 1] = "cr"
  PROVE  CouldBecomeMarker(s)
<1> DEFINE D == {j - 1 : j \in {r \in Returns(s) : r >= p}} \cup {Len(s)}
<1>1. k # "cr" /\ "m" # "cr" /\ k \notin Blanks /\ "m" \notin Blanks
  BY SieveAssumption DEF Blanks
<1>2. DOMAIN s = 1..l /\ p <= l
  BY LenProperties
<1>3. \A r \in Returns(s) : r \in 1..l /\ s[r] = "cr"
  BY <1>2 DEF Returns
<1>4. \A r \in Returns(s) : r \in Nat /\ r < p
  <2>1. ASSUME NEW r \in Returns(s) PROVE r \in Nat /\ r < p
    <3>1. r # p /\ (l = p + 1 => r # p + 1)
      BY <1>1, <1>3
    <3>2. r \in 1..l
      BY <1>3
    <3> QED
      BY <1>2, <3>1, <3>2
  <2> QED
    BY <2>1
<1>5. D = {l}
  <2>1. {r \in Returns(s) : r >= p} = {}
    BY <1>4
  <2> QED
    BY <2>1
<1>6. Min(D) = l
  <2>1. Min({l}) \in {l}
    BY <1>2, LeastOfThem
  <2> QED
    BY <1>5, <2>1
<1>7. StateAt(s, p) = SubSeq(s, p, l)
  <2>1. StateAt(s, p) = SubSeq(s, p, Min(D))
    BY DEF StateAt
  <2> QED
    BY <1>6, <2>1
<1> HIDE DEF D
<1>8. Max(Starts(s)) = p
  <2>1. p \in Starts(s)
    <3>1. CASE p = 1
      BY <3>1 DEF Starts
    <3>2. CASE p # 1
      <4>1. p - 1 \in 1..l /\ (p - 1) + 1 = p /\ s[p - 1] = "cr"
        BY <1>2, <3>2
      <4>2. p - 1 \in Returns(s)
        BY <1>2, <4>1 DEF Returns
      <4> QED
        BY <4>1, <4>2 DEF Starts
    <3> QED
      BY <3>1, <3>2
  <2>2. \A i \in Starts(s) : i \in 0..p
    BY <1>4 DEF Starts
  <2>3. Max(Starts(s)) \in Starts(s) /\ \A i \in Starts(s) : i <= Max(Starts(s))
    <3>1. Starts(s) \in SUBSET (0..p) /\ Starts(s) # {}
      BY <2>1, <2>2
    <3> QED
      BY <3>1, LargestOfThem
  <2>4. p <= Max(Starts(s)) /\ Max(Starts(s)) \in 0..p
    BY <2>1, <2>2, <2>3
  <2> QED
    BY <2>4
<1> DEFINE t == LastState(s)
<1>9. t = SubSeq(s, p, l)
  BY <1>7, <1>8 DEF LastState
<1>10. t \in Seq(Bytes) /\ Len(t) = l - (p - 1)
       /\ \A i \in 1..(l - (p - 1)) : t[i] = s[(p - 1) + i]
  <2>1. p - 1 \in Nat /\ p - 1 <= l /\ (p - 1) + 1 = p
    BY <1>2
  <2>2. /\ SubSeq(s, (p - 1) + 1, l) \in Seq(Bytes)
        /\ Len(SubSeq(s, (p - 1) + 1, l)) = l - (p - 1)
        /\ \A i \in 1..(l - (p - 1)) : SubSeq(s, (p - 1) + 1, l)[i] = s[(p - 1) + i]
    <3>1. l <= l
      BY <1>2
    <3> QED
      BY <1>2, <2>1, <3>1, Slice
  <2> QED
    BY <1>9, <2>1, <2>2
<1> HIDE DEF t
<1>11. /\ Len(t) = 1 \/ (Len(t) = 2 /\ t[2] = k)
       /\ Len(t) \in Nat /\ Len(t) >= 1 /\ Len(t) <= 2 /\ t[1] = "m" /\ t # <<>>
  <2>1. (p - 1) + 1 = p /\ (p - 1) + 2 = p + 1 /\ (l = p => l - (p - 1) = 1)
        /\ (l = p + 1 => l - (p - 1) = 2)
    BY <1>2
  <2>2. t[1] = s[p] /\ t \in Seq(Bytes)
    <3>1. 1 \in 1..(l - (p - 1))
      BY <1>2
    <3> QED
      BY <1>10, <2>1, <3>1
  <2>3. CASE l = p
    <3>1. Len(t) = 1
      BY <1>10, <2>1, <2>3
    <3>2. t # <<>>
      <4>1. Len(<<>>) = 0
        BY EmptySeq
      <4>2. Len(t) # 0
        BY <3>1
      <4> QED
        BY <4>1, <4>2, Zenon
    <3> QED
      BY <2>2, <3>1, <3>2
  <2>4. CASE l = p + 1
    <3>1. 2 \in 1..(l - (p - 1)) /\ Len(t) = 2
      BY <1>10, <2>1, <2>4
    <3>2. t[2] = s[p + 1]
      BY <1>10, <2>1, <3>1
    <3>3. s[p + 1] = k
      BY <2>4
    <3>4. t # <<>>
      <4>1. Len(<<>>) = 0
        BY EmptySeq
      <4>2. Len(t) # 0
        BY <3>1
      <4> QED
        BY <4>1, <4>2, Zenon
    <3> QED
      BY <2>2, <3>1, <3>2, <3>3, <3>4
  <2> QED
    BY <1>2, <2>3, <2>4
<1>12. TrimStart(t) = t
  <2>1. 1 \in Solid(t) /\ Solid(t) \in SUBSET Nat /\ \A i \in Solid(t) : 1 <= i
    BY <1>1, <1>10, <1>11 DEF Solid
  <2>2. Min(Solid(t)) \in Solid(t) /\ \A i \in Solid(t) : Min(Solid(t)) <= i
    BY <2>1, LeastOfThem
  <2>3. Min(Solid(t)) = 1
    BY <2>1, <2>2
  <2>4. TrimStart(t) = SubSeq(t, 1, Len(t))
    BY <2>1, <2>3 DEF TrimStart
  <2> QED
    BY <1>10, <2>4, SubSeqFull
<1>13. IsPrefix(t, MarkerText(k))
  <2>1. SubSeq(t, 1, Len(t)) = t
    BY <1>10, SubSeqFull
  <2>2. Len(MarkerText(k)) = 2
    BY DEF MarkerText
  <2>3. CASE Len(t) = 1
    <3>1. t = <<"m">>
      BY <1>10, <1>11, <2>3
    <3> DEFINE w == <<"m", k>>
               v == SubSeq(w, 0 + 1, 1)
    <3>2. w \in Seq({"m", k}) /\ Len(w) = 2 /\ w[1] = "m"
      OBVIOUS
    <3> HIDE DEF w
    <3>3. v \in Seq({"m", k}) /\ Len(v) = 1 - 0 /\ \A i \in 1..(1 - 0) : v[i] = w[0 + i]
      BY <3>2, Slice
    <3>6. v[1] = "m"
      <4>1. 1 \in 1..(1 - 0) /\ 0 + 1 = 1
        OBVIOUS
      <4> QED
        BY <3>2, <3>3, <4>1
    <3>7. Len(v) = 1 /\ v \in Seq({"m", k})
      BY <3>3
    <3> HIDE DEF v
    <3>4. v = <<"m">>
      BY <3>6, <3>7
    <3>5. SubSeq(w, 1, 1) = <<"m">>
      <4>1. 0 + 1 = 1
        OBVIOUS
      <4> QED
        BY <3>4, <4>1 DEF v
    <3> QED
      BY <2>1, <2>2, <2>3, <3>1, <3>5 DEF IsPrefix, MarkerText, w
  <2>4. CASE Len(t) = 2 /\ t[2] = k
    <3>1. t = <<"m", k>>
      BY <1>10, <1>11, <2>4
    <3> QED
      BY <2>1, <2>2, <2>4, <3>1 DEF IsPrefix, MarkerText
  <2> QED
    BY <1>11, <2>3, <2>4
<1>14. Len(t) <= Longest
  BY <1>11 DEF Longest
<1> QED
  BY <1>11, <1>12, <1>13, <1>14 DEF CouldBecomeMarker, t

Pieces == [mark : MarkKinds \cup {NoMark}, bytes : Seq(Bytes)]

\* Pieces that cover a sequence from a place on, each from where the one before
\* it ends.
Cover(e, a, ps, w) ==
  /\ e \in [0..Len(ps) -> 0..Len(w)] /\ e[0] = a
  /\ \A j \in 1..Len(ps) : e[j - 1] <= e[j] /\ ps[j].bytes = SubSeq(w, e[j - 1] + 1, e[j])

\* Where the pieces of two sequences are in the one of both.
Joined(f, e, d, ps, qs) ==
  /\ f[Len(ps \o qs)] = d[Len(qs)]
  /\ \A j \in 1..Len(ps) : j \in 1..Len(ps \o qs) /\ f[j] = e[j] /\ (ps \o qs)[j] = ps[j]
  /\ \A j \in 1..Len(qs) : \E i \in 1..Len(ps \o qs) : f[i] = d[j] /\ (ps \o qs)[i] = qs[j]

\* Pieces behind pieces cover what both do.
LEMMA CoversJoin ==
  ASSUME NEW w, NEW ps \in Seq(Pieces), NEW qs \in Seq(Pieces), NEW a, NEW e, NEW d,
         Cover(e, a, ps, w), Cover(d, e[Len(ps)], qs, w)
  PROVE  \E f : Cover(f, a, ps \o qs, w) /\ Joined(f, e, d, ps, qs)
<1> DEFINE n == Len(ps)
           k == Len(qs)
           l == n + k
           f == [j \in 0..l |-> IF j <= n THEN e[j] ELSE d[j - n]]
           r == ps \o qs
<1>1. n \in Nat /\ k \in Nat /\ l \in Nat
  BY LenProperties
<1>2. Len(r) = l /\ \A i \in 1..l : r[i] = IF i <= n THEN ps[i] ELSE qs[i - n]
  BY ConcatProperties
<1>3. /\ e \in [0..n -> 0..Len(w)] /\ e[0] = a
      /\ \A j \in 1..n : e[j - 1] <= e[j] /\ ps[j].bytes = SubSeq(w, e[j - 1] + 1, e[j])
  BY DEF Cover
<1>4. /\ d \in [0..k -> 0..Len(w)] /\ d[0] = e[n]
      /\ \A j \in 1..k : d[j - 1] <= d[j] /\ qs[j].bytes = SubSeq(w, d[j - 1] + 1, d[j])
  BY DEF Cover
<1> HIDE DEF n, k, r
<1>5. \A j \in 0..n : j \in 0..l /\ f[j] = e[j]
  BY <1>1
<1>6. ASSUME NEW j \in 0..k PROVE n + j \in 0..l /\ f[n + j] = d[j]
  <2>1. n + j \in 0..l /\ (n + j) - n = j /\ (n + j <= n => j = 0 /\ n + j = n)
    BY <1>1
  <2> QED
    BY <1>4, <2>1
<1>7. f \in [0..l -> 0..Len(w)]
  <2>1. \A j \in 0..l : IF j <= n THEN j \in 0..n ELSE j - n \in 0..k
    BY <1>1
  <2>2. \A j \in 0..l : f[j] \in 0..Len(w)
    BY <1>3, <1>4, <2>1
  <2> QED
    BY <2>2
<1> HIDE DEF f
<1>8. ASSUME NEW j \in 1..l
      PROVE  f[j - 1] <= f[j] /\ r[j].bytes = SubSeq(w, f[j - 1] + 1, f[j])
  <2>1. CASE j <= n
    <3>1. j \in 1..n /\ j - 1 \in 0..n /\ j \in 0..n
      BY <1>1, <2>1
    <3>2. r[j] = ps[j] /\ f[j] = e[j] /\ f[j - 1] = e[j - 1]
      BY <1>2, <1>5, <2>1, <3>1
    <3> QED
      BY <1>3, <3>1, <3>2
  <2>2. CASE ~(j <= n)
    <3>1. j - n \in 1..k /\ (j - n) - 1 \in 0..k /\ j - n \in 0..k /\ n + (j - n) = j
          /\ n + ((j - n) - 1) = j - 1
      BY <1>1, <2>2
    <3>2. r[j] = qs[j - n] /\ f[j] = d[j - n] /\ f[j - 1] = d[(j - n) - 1]
      BY <1>2, <1>6, <2>2, <3>1
    <3> QED
      BY <1>4, <3>1, <3>2
  <2> QED
    BY <2>1, <2>2
<1>9. f[0] = a
  BY <1>1, <1>3, <1>5
<1>10. Cover(f, a, r, w)
  BY <1>2, <1>7, <1>8, <1>9 DEF Cover
<1>11. f[Len(r)] = d[k]
  BY <1>1, <1>2, <1>6
<1>12. \A j \in 1..n : j \in 1..Len(r) /\ f[j] = e[j] /\ r[j] = ps[j]
  <2>1. \A j \in 1..n : j \in 1..l /\ j \in 0..n /\ j <= n
    BY <1>1
  <2> QED
    BY <1>2, <1>5, <2>1
<1>13. ASSUME NEW j \in 1..k PROVE \E i \in 1..Len(r) : f[i] = d[j] /\ r[i] = qs[j]
  <2>1. n + j \in 1..l /\ j \in 0..k /\ ~(n + j <= n) /\ (n + j) - n = j
    BY <1>1
  <2> QED
    BY <1>2, <1>6, <2>1
<1> QED
  BY <1>10, <1>11, <1>12, <1>13 DEF n, k, r, Joined

\* What is written afterwards leaves them where they are.
LEMMA CoverStays ==
  ASSUME NEW w \in Seq(Bytes), NEW b \in Seq(Bytes), NEW ps, Len(ps) \in Nat, NEW a, NEW e,
         Cover(e, a, ps, w)
  PROVE  Cover(e, a, ps, w \o b)
<1>1. Len(w \o b) = Len(w) + Len(b) /\ Len(w) \in Nat /\ Len(b) \in Nat
  BY ConcatProperties, LenProperties
<1>2. /\ e \in [0..Len(ps) -> 0..Len(w)] /\ e[0] = a
      /\ \A j \in 1..Len(ps) : e[j - 1] <= e[j] /\ ps[j].bytes = SubSeq(w, e[j - 1] + 1, e[j])
  BY DEF Cover
<1>3. \A i \in 0..Len(w) : i \in 0..Len(w \o b)
  BY <1>1
<1>4. e \in [0..Len(ps) -> 0..Len(w \o b)]
  BY <1>2, <1>3
<1>5. \A p, q \in Nat : p <= q /\ q <= Len(w) =>
        SubSeq(w \o b, p + 1, q) = SubSeq(w, p + 1, q)
  <2> SUFFICES ASSUME NEW p \in Nat, NEW q \in Nat, p <= q, q <= Len(w)
               PROVE  SubSeq(w \o b, p + 1, q) = SubSeq(w, p + 1, q)
    OBVIOUS
  <2> QED
    BY SliceStays
<1>6. ASSUME NEW j \in 1..Len(ps) PROVE ps[j].bytes = SubSeq(w \o b, e[j - 1] + 1, e[j])
  <2>1. j - 1 \in 0..Len(ps) /\ j \in 0..Len(ps)
    OBVIOUS
  <2>2. e[j - 1] \in 0..Len(w) /\ e[j] \in 0..Len(w) /\ e[j - 1] <= e[j]
    BY <1>2, <2>1
  <2>3. e[j - 1] \in Nat /\ e[j] \in Nat /\ e[j] <= Len(w)
    BY <1>1, <2>2
  <2>4. SubSeq(w \o b, e[j - 1] + 1, e[j]) = SubSeq(w, e[j - 1] + 1, e[j])
    BY <2>2, <2>3, <1>5
  <2> QED
    BY <1>2, <2>4
<1> QED
  BY <1>2, <1>4, <1>6 DEF Cover

\* One piece that covers a slice.
Covers(ps, a, b, w) ==
  ps \in Seq(Pieces) /\ Len(ps) = 1 /\ \E d : Cover(d, a, ps, w) /\ d[1] = b

\* A slice has one.
LEMMA OnePieceCovers ==
  ASSUME NEW w \in Seq(Bytes), NEW a \in Nat, NEW b \in Nat, a <= b, b <= Len(w),
         NEW k \in MarkKinds \cup {NoMark}, NEW bytes, bytes = SubSeq(w, a + 1, b)
  PROVE  Covers(<<Piece(k, bytes)>>, a, b, w)
<1> DEFINE q == Piece(k, bytes)
           d == [j \in 0..1 |-> IF j = 0 THEN a ELSE b]
<1>1. q \in Pieces /\ q.bytes = bytes
  BY Slice DEF Piece, Pieces
<1>2. Len(w) \in Nat /\ a \in 0..Len(w) /\ b \in 0..Len(w)
  BY LenProperties
<1> HIDE DEF q
<1>3. <<q>> \in Seq(Pieces) /\ Len(<<q>>) = 1 /\ <<q>>[1] = q
  BY <1>1
<1>4. d[0] = a /\ d[1] = b /\ d \in [0..1 -> 0..Len(w)]
  BY <1>2
<1> HIDE DEF d
<1>5. \A j \in 1..1 : d[j - 1] <= d[j] /\ <<q>>[j].bytes = SubSeq(w, d[j - 1] + 1, d[j])
  <2>1. 1 - 1 = 0 /\ \A j \in 1..1 : j = 1
    OBVIOUS
  <2> QED
    BY <1>1, <1>3, <1>4, <2>1
<1>6. Cover(d, a, <<q>>, w)
  BY <1>3, <1>4, <1>5 DEF Cover
<1> QED
  BY <1>3, <1>4, <1>6 DEF q, Covers

\* What is written from behind one place to another.
Part(w, a, b) == SubSeq(w, a + 1, b)

\* What such a slice is.
LEMMA PartIs ==
  ASSUME NEW w \in Seq(Bytes), NEW a \in Nat, NEW b \in Nat, a <= b, b <= Len(w)
  PROVE  /\ Part(w, a, b) \in Seq(Bytes) /\ Len(Part(w, a, b)) = b - a
         /\ \A i \in 1..(b - a) : Part(w, a, b)[i] = w[a + i]
BY Slice DEF Part

\* Two that meet are one.
LEMMA PartsMeet ==
  ASSUME NEW w \in Seq(Bytes), NEW a \in Nat, NEW b \in Nat, NEW c \in Nat,
         a <= b, b <= c, c <= Len(w)
  PROVE  Part(w, a, b) \o Part(w, b, c) = Part(w, a, c)
BY SlicesMeet DEF Part

\* A line of a slice is a slice.
LineIsSlice(w, h, c, all, j) ==
  /\ EndOf(all, j - 1) \in Nat /\ EndOf(all, j) \in Nat
  /\ EndOf(all, j - 1) <= EndOf(all, j) /\ EndOf(all, j) <= c - h
  /\ Lines(all)[j] = SubSeq(w, (h + EndOf(all, j - 1)) + 1, h + EndOf(all, j))

\* Each of its lines.
LEMMA LinesAreSlices ==
  ASSUME NEW w \in Seq(Bytes), NEW h \in Nat, NEW c \in Nat, h <= c, c <= Len(w),
         NEW all, all = Part(w, h, c), NEW j \in 1..Cardinality(Ends(all))
  PROVE  LineIsSlice(w, h, c, all, j)
<1> DEFINE n == Cardinality(Ends(all))
           E(x) == EndOf(all, x)
<1>1. all \in Seq(Bytes) /\ Len(all) = c - h
  BY Slice DEF Part
<1>2. /\ n \in Nat /\ E(0) = 0 /\ \A x \in 0..n : E(x) \in 0..Len(all)
      /\ \A x \in 1..n : E(x - 1) < E(x)
  BY <1>1, LineEnds
<1>3. Lines(all) = [x \in 1..n |-> SubSeq(all, E(x - 1) + 1, E(x))]
  BY DEF Lines
<1> HIDE DEF n, E
<1>4. /\ DOMAIN Lines(all) = 1..n
      /\ \A x \in 1..n : Lines(all)[x] = SubSeq(all, E(x - 1) + 1, E(x))
  BY <1>3
<1>9. j \in 1..n
  BY DEF n
<1>5. j - 1 \in 0..n /\ j \in 0..n
  BY <1>2, <1>9
<1>6. E(j - 1) \in Nat /\ E(j) \in Nat /\ E(j - 1) <= E(j) /\ E(j) <= c - h
  BY <1>1, <1>2, <1>5
<1>7. SubSeq(all, E(j - 1) + 1, E(j)) = SubSeq(w, (h + E(j - 1)) + 1, h + E(j))
  <2>1. \A x, y \in Nat : x <= y /\ y <= c - h =>
          SubSeq(SubSeq(w, h + 1, c), x + 1, y) = SubSeq(w, (h + x) + 1, h + y)
    BY SliceOfSlice
  <2> QED
    BY <1>6, <2>1 DEF Part
<1> QED
  BY <1>4, <1>6, <1>7, <1>9 DEF E, n, LineIsSlice

\* The lines of a slice cover it to the end of the last.
LEMMA LinesCover ==
  ASSUME NEW w \in Seq(Bytes), NEW h \in Nat, NEW c \in Nat, h <= c, c <= Len(w),
         NEW all, all = Part(w, h, c), NEW n, n = Cardinality(Ends(all))
  PROVE  /\ n \in Nat /\ Sifted(all) \in Seq(Pieces) /\ Len(Sifted(all)) = n
         /\ \E d : Cover(d, h, Sifted(all), w) /\ \A j \in 0..n : d[j] = h + EndOf(all, j)
         /\ \A j \in 1..n : Sifted(all)[j].mark = MarkerOf(Lines(all)[j])
<1> DEFINE E(j) == EndOf(all, j)
           d == [j \in 0..n |-> h + E(j)]
<1>1. all \in Seq(Bytes) /\ Len(all) = c - h
  BY Slice DEF Part
<1>2. /\ n \in Nat /\ E(0) = 0 /\ \A j \in 0..n : E(j) \in 0..Len(all)
      /\ \A j \in 1..n : E(j - 1) < E(j)
  BY <1>1, LineEnds
<1>3. DOMAIN Lines(all) = 1..n
  BY DEF Lines
<1>4. ASSUME NEW j \in 1..n
      PROVE  /\ E(j - 1) \in Nat /\ E(j) \in Nat /\ E(j - 1) <= E(j) /\ E(j) <= c - h
             /\ Lines(all)[j] = SubSeq(w, (h + E(j - 1)) + 1, h + E(j))
             /\ Lines(all)[j] \in Seq(Bytes)
  <2>1. /\ E(j - 1) \in Nat /\ E(j) \in Nat /\ E(j - 1) <= E(j) /\ E(j) <= c - h
        /\ Lines(all)[j] = SubSeq(w, (h + E(j - 1)) + 1, h + E(j))
    <3>1. LineIsSlice(w, h, c, all, j)
      BY LinesAreSlices
    <3> QED
      BY <3>1 DEF LineIsSlice
  <2> HIDE DEF E
  <2>2. h + E(j - 1) \in Nat /\ h + E(j) \in Nat /\ h + E(j - 1) <= h + E(j) /\ h + E(j) <= Len(w)
    <3>1. PICK p \in Nat, q \in Nat, l \in Nat : p = E(j - 1) /\ q = E(j) /\ l = Len(w)
      BY <2>1, LenProperties
    <3>2. p <= q /\ q <= c - h /\ c <= l
      BY <2>1, <3>1
    <3>3. h + p \in Nat /\ h + q \in Nat /\ h + p <= h + q /\ h + q <= l
      BY <3>2
    <3> QED
      BY <3>1, <3>3
  <2>3. SubSeq(w, (h + E(j - 1)) + 1, h + E(j)) \in Seq(Bytes)
    BY <2>2, Slice
  <2> QED
    BY <2>1, <2>3
<1> HIDE DEF E
<1>6. /\ DOMAIN Sifted(all) = 1..n
      /\ \A j \in 1..n : Sifted(all)[j] = Piece(MarkerOf(Lines(all)[j]), Lines(all)[j])
      /\ Sifted(all) = [j \in 1..n |-> Piece(MarkerOf(Lines(all)[j]), Lines(all)[j])]
  BY <1>3 DEF Sifted
<1>7. \A j \in 1..n : Sifted(all)[j] \in Pieces
  <2>1. ASSUME NEW j \in 1..n PROVE Piece(MarkerOf(Lines(all)[j]), Lines(all)[j]) \in Pieces
    <3>1. MarkerOf(Lines(all)[j]) \in MarkKinds \cup {NoMark}
      BY <1>4, MarkerIsOfAState
    <3> QED
      BY <1>4, <3>1 DEF Piece, Pieces
  <2> QED
    BY <1>6, <2>1
<1>8. Sifted(all) \in Seq(Pieces) /\ Len(Sifted(all)) = n
  <2>1. Sifted(all) \in [1..n -> Pieces]
    BY <1>6, <1>7
  <2>2. \A k \in Nat : \A t \in [1..k -> Pieces] : t \in Seq(Pieces) /\ Len(t) = k
    OBVIOUS
  <2> QED
    BY <1>2, <2>1, <2>2
<1>9. \A j \in 0..n : d[j] = h + E(j) /\ d[j] \in 0..Len(w)
  <2>1. Len(w) \in Nat
    BY LenProperties
  <2>2. ASSUME NEW j \in 0..n PROVE h + E(j) \in 0..Len(w)
    <3>1. E(j) \in 0..(c - h)
      BY <1>1, <1>2
    <3> QED
      BY <2>1, <3>1
  <2> QED
    BY <2>2
<1>10. d \in [0..n -> 0..Len(w)]
  BY <1>9
<1> HIDE DEF d
<1>11. ASSUME NEW j \in 1..n
       PROVE  d[j - 1] <= d[j] /\ Sifted(all)[j].bytes = SubSeq(w, d[j - 1] + 1, d[j])
  <2>1. j - 1 \in 0..n /\ j \in 0..n
    BY <1>2
  <2>2. d[j - 1] = h + E(j - 1) /\ d[j] = h + E(j)
    BY <1>9, <2>1
  <2>3. Sifted(all)[j].bytes = Lines(all)[j]
    BY <1>6 DEF Piece
  <2>4. SubSeq(w, d[j - 1] + 1, d[j]) = SubSeq(w, (h + E(j - 1)) + 1, h + E(j))
    BY <2>2
  <2>5. Sifted(all)[j].bytes = SubSeq(w, d[j - 1] + 1, d[j])
    BY <1>4, <2>3, <2>4
  <2>6. d[j - 1] <= d[j]
    BY <1>4, <2>2
  <2> QED
    BY <2>5, <2>6
<1>12. d[0] = h
  <2>1. 0 \in 0..n
    BY <1>2
  <2> QED
    BY <1>2, <1>9, <2>1
<1>13. Cover(d, h, Sifted(all), w)
  BY <1>8, <1>10, <1>11, <1>12 DEF Cover
<1>15. \A j \in 0..n : d[j] = h + E(j)
  BY <1>9
<1>16. \A j \in 1..n : Sifted(all)[j].mark = MarkerOf(Lines(all)[j])
  BY <1>6 DEF Piece
<1> QED
  BY <1>2, <1>8, <1>13, <1>15, <1>16 DEF E

\* A marker is spelt in full, unless the shell was killed in its echo: "m", the
\* kind, a carriage return and a newline.
Spells(w, open) ==
  \A i \in 1..Len(w) : w[i] \in MarkKinds =>
    /\ i >= 2 /\ w[i - 1] = "m"
    /\ i + 1 <= Len(w) => w[i + 1] = "cr" /\ i + 2 <= Len(w) /\ w[i + 2] = "nl"
    /\ open => i + 2 <= Len(w)

\* A marker that starts a line, or what a carriage return made one.
MarkAt(w, i) == i + 1 <= Len(w) /\ w[i + 1] \in MarkKinds /\ (i = 1 \/ w[i - 1] \in {"cr", "nl"})

\* What is held, or to be read, does not begin within one; those before it are found.
Undivided(w, h)      == \A i \in 1..Len(w) : MarkAt(w, i) => h \notin {i, i + 1, i + 2}
FoundBy(e, h, ps, w) ==
  \A i \in 1..Len(w) : MarkAt(w, i) /\ i + 3 <= h =>
    \E j \in 1..Len(ps) : e[j] = i + 3 /\ ps[j].mark = w[i + 1]

\* The bytes of a marker, and of its newline if one came.
LEMMA EchoIsSpelt ==
  ASSUME NEW w \in Seq(Bytes), NEW open, Spells(w, open), NEW i \in 1..Len(w), i + 1 <= Len(w),
         w[i + 1] \in MarkKinds
  PROVE  /\ w[i] = "m"
         /\ i + 2 <= Len(w) => w[i + 2] = "cr" /\ i + 3 <= Len(w) /\ w[i + 3] = "nl"
<1>1. i + 1 \in 1..Len(w) /\ (i + 1) - 1 = i /\ (i + 1) + 1 = i + 2 /\ (i + 1) + 2 = i + 3
  BY LenProperties
<1>2. /\ w[(i + 1) - 1] = "m"
      /\ (i + 1) + 1 <= Len(w) =>
           w[(i + 1) + 1] = "cr" /\ (i + 1) + 2 <= Len(w) /\ w[(i + 1) + 2] = "nl"
  BY <1>1 DEF Spells
<1> QED
  BY <1>1, <1>2

\* A line of a slice that a marker's newline ends, and that is that marker.
EndsMarker(w, h, all, i) ==
  \E j \in 1..Cardinality(Ends(all)) :
    h + EndOf(all, j) = i + 3 /\ MarkerOf(Lines(all)[j]) = w[i + 1]

\* The newline of a marker ends one.
LEMMA EchoEndsItsLine ==
  ASSUME NEW w \in Seq(Bytes), NEW h \in Nat, NEW c \in Nat, h <= c, c <= Len(w),
         NEW all, all = Part(w, h, c), NEW open, Spells(w, open),
         NEW i \in 1..Len(w), MarkAt(w, i), h < i, i + 3 <= c
  PROVE  EndsMarker(w, h, all, i)
<1> DEFINE n == Cardinality(Ends(all))
           E(j) == EndOf(all, j)
           k == w[i + 1]
<1>1. /\ all \in Seq(Bytes) /\ Len(all) = c - h /\ \A q \in 1..(c - h) : all[q] = w[h + q]
      /\ Len(w) \in Nat /\ i \in Nat
  <2>1. /\ SubSeq(w, h + 1, c) \in Seq(Bytes) /\ Len(SubSeq(w, h + 1, c)) = c - h
        /\ \A q \in 1..(c - h) : SubSeq(w, h + 1, c)[q] = w[h + q]
    BY Slice
  <2>2. Len(w) \in Nat
    BY LenProperties
  <2> QED
    BY <2>1, <2>2 DEF Part
<1>2. k \in MarkKinds /\ k \notin {"m", "cr", "nl"}
  BY SieveAssumption DEF MarkAt
<1>3. w[i] = "m" /\ w[i + 1] = k /\ w[i + 2] = "cr" /\ w[i + 3] = "nl" /\ i + 3 <= Len(w)
  <2>1. i + 1 <= Len(w) /\ i + 2 <= Len(w)
    BY <1>1
  <2> QED
    BY <2>1, EchoIsSpelt DEF MarkAt
<1>4. \A q \in 1..(c - h) : q \in Ends(all) <=> w[h + q] = "nl"
  BY <1>1 DEF Ends
<1>5. \A x \in Nat : h < x /\ x <= c => (x - h \in Ends(all) <=> w[x] = "nl")
  <2>1. ASSUME NEW x \in Nat, h < x, x <= c PROVE x - h \in 1..(c - h) /\ h + (x - h) = x
    BY <2>1
  <2> QED
    BY <1>4, <2>1
<1>6. PICK j \in 1..n : E(j) = (i + 3) - h
  <2>1. i + 3 \in Nat /\ h < i + 3
    BY <1>1
  <2>2. (i + 3) - h \in Ends(all)
    BY <1>3, <1>5, <2>1
  <2> QED
    BY <1>1, <2>2, LineEnds
<1>7. /\ E(j - 1) \in Nat /\ E(j - 1) <= c - h /\ E(j - 1) < E(j) /\ E(j - 1) \in Ends(all) \cup {0}
      /\ \A x \in Ends(all) : x <= E(j - 1) \/ E(j) <= x
  <2>1. /\ n \in Nat /\ \A x \in 0..n : E(x) \in 0..Len(all)
        /\ \A x \in 1..n : E(x - 1) < E(x) /\ E(x - 1) \in Ends(all) \cup {0}
                           /\ \A y \in Ends(all) : y <= E(x - 1) \/ E(x) <= y
    BY <1>1, LineEnds
  <2>2. j - 1 \in 0..n
    BY <2>1
  <2>3. E(j - 1) \in 0..(c - h)
    BY <1>1, <2>1, <2>2
  <2> QED
    BY <2>1, <2>3
<1>8. Lines(all)[j] = SubSeq(w, (h + E(j - 1)) + 1, h + E(j))
  <2>1. LineIsSlice(w, h, c, all, j)
    BY LinesAreSlices
  <2> QED
    BY <2>1 DEF LineIsSlice
<1> HIDE DEF n, E, k
<1>9. PICK b \in Nat : b = h + E(j - 1)
  BY <1>7
<1>10. /\ h <= b /\ b < i + 3 /\ h + E(j) = i + 3
       /\ b = h \/ (b > h /\ w[b] = "nl")
       /\ \A x \in Nat : b < x /\ x < i + 3 => w[x] # "nl"
  <2>1. h <= b /\ b < i + 3 /\ h + E(j) = i + 3
    <3>1. h + E(j) = i + 3 /\ E(j - 1) \in Nat /\ E(j - 1) < E(j) /\ i \in Nat
      BY <1>1, <1>6, <1>7
    <3>2. E(j) \in Nat
      BY <1>6
    <3> QED
      BY <1>9, <3>1, <3>2
  <2>2. b = h \/ (b > h /\ w[b] = "nl")
    <3>1. CASE E(j - 1) = 0
      BY <1>9, <3>1
    <3>2. CASE E(j - 1) \in Ends(all) /\ E(j - 1) # 0
      <4>1. h < b /\ b <= c /\ b - h = E(j - 1)
        BY <1>7, <1>9, <3>2
      <4> QED
        BY <1>5, <3>2, <4>1
    <3> QED
      BY <1>7, <3>1, <3>2
  <2>3. ASSUME NEW x \in Nat, b < x, x < i + 3, w[x] = "nl" PROVE FALSE
    <3>1. h < x /\ x <= c
      BY <1>1, <2>1, <2>3
    <3>2. x - h \in Ends(all)
      BY <1>5, <2>3, <3>1
    <3>3. x - h <= E(j - 1) \/ E(j) <= x - h
      BY <1>7, <3>2
    <3> QED
      BY <1>1, <1>6, <1>7, <1>9, <2>3, <3>3
  <2> QED
    BY <2>1, <2>2, <2>3
<1>11. b < i
  <2>1. CASE b = h
    BY <2>1
  <2>2. CASE b > h /\ w[b] = "nl"
    <3>1. b # i /\ b # i + 1 /\ b # i + 2
      BY <1>2, <1>3, <2>2
    <3> QED
      BY <1>1, <1>10, <3>1
  <2> QED
    BY <1>10, <2>1, <2>2
<1> DEFINE s == SubSeq(w, b + 1, i + 3)
<1>12. PICK p \in Nat : p = i - b /\ p >= 1
  BY <1>1, <1>11
<1>13. /\ s \in Seq(Bytes) /\ Len(s) = p + 3 /\ \A q \in 1..(p + 3) : s[q] = w[b + q]
  <2>1. i + 3 \in Nat /\ b <= i + 3 /\ i + 3 <= Len(w) /\ (i + 3) - b = p + 3
    BY <1>1, <1>3, <1>11, <1>12
  <2>2. s \in Seq(Bytes) /\ Len(s) = (i + 3) - b /\ \A q \in 1..((i + 3) - b) : s[q] = w[b + q]
    BY <2>1, Slice
  <2> QED
    BY <2>1, <2>2
<1>14. s = Lines(all)[j]
  BY <1>8, <1>9, <1>10
<1> HIDE DEF s
<1>15. s[p] = "m" /\ s[p + 1] = k /\ s[p + 2] = "cr" /\ s[p + 3] = "nl"
  <2>1. b + p = i /\ b + (p + 1) = i + 1 /\ b + (p + 2) = i + 2 /\ b + (p + 3) = i + 3
        /\ p \in 1..(p + 3) /\ p + 1 \in 1..(p + 3) /\ p + 2 \in 1..(p + 3) /\ p + 3 \in 1..(p + 3)
    BY <1>1, <1>12
  <2> QED
    BY <1>3, <1>13, <2>1
<1>16. p = 1 \/ s[p - 1] = "cr"
  <2>1. CASE p # 1
    <3>1. p - 1 \in 1..(p + 3) /\ b + (p - 1) = i - 1 /\ i - 1 \in Nat /\ b < i - 1 /\ i - 1 < i + 3 /\ i # 1
      BY <1>1, <1>12, <2>1
    <3>2. w[i - 1] \in {"cr", "nl"} /\ w[i - 1] # "nl"
      BY <1>10, <3>1 DEF MarkAt
    <3> QED
      BY <1>13, <3>1, <3>2
  <2> QED
    BY <2>1
<1>17. ASSUME NEW q \in 1..Len(s), s[q] \in MarkKinds PROVE q = p + 1
  <2>1. PICK x \in Nat : x = b + q /\ x >= 1 /\ x <= i + 3
    BY <1>1, <1>12, <1>13
  <2>2. w[x] \in MarkKinds
    BY <1>13, <1>17, <2>1
  <2>3. x # i /\ x # i + 2 /\ x # i + 3
    <3>1. {"m", "cr", "nl"} \cap MarkKinds = {}
      BY SieveAssumption
    <3> QED
      BY <1>3, <2>2, <3>1
  <2>4. ~(x < i)
    <3> SUFFICES ASSUME x < i PROVE FALSE
      OBVIOUS
    <3>1. x \in 1..Len(w) /\ x + 1 <= Len(w)
      BY <1>1, <2>1
    <3>2. w[x + 2] = "nl"
      BY <2>2, <3>1 DEF Spells
    <3>3. b < x + 2 /\ x + 2 < i + 3 /\ x + 2 \in Nat
      BY <1>1, <2>1
    <3> QED
      BY <1>10, <3>2, <3>3
  <2>5. x = i + 1
    BY <1>1, <2>1, <2>3, <2>4
  <2>6. q \in Nat
    BY <1>13
  <2>7. b + q = i + 1 /\ i = b + p
    BY <1>1, <1>12, <2>1, <2>5
  <2> QED
    BY <2>6, <2>7
<1>18. MarkerOf(s) = k
  BY <1>2, <1>12, <1>13, <1>15, <1>16, <1>17, MarkedLine
<1> QED
  BY <1>10, <1>14, <1>18 DEF n, E, k, EndsMarker

\* What is left of a slice from the end of its last line on.
LeftOver(w, h, c, all, m) ==
  /\ m \in Nat /\ h <= m /\ m <= c /\ m = h + EndOf(all, Cardinality(Ends(all)))
  /\ m = h \/ w[m] = "nl"
  /\ \A x \in Nat : m < x /\ x <= c => w[x] # "nl"
  /\ Rest(all) = Part(w, m, c)

\* What is left behind the last newline has none.
LEMMA RestHasNoNewline ==
  ASSUME NEW w \in Seq(Bytes), NEW h \in Nat, NEW c \in Nat, h <= c, c <= Len(w),
         NEW all, all = Part(w, h, c), NEW m, m = h + Max(Ends(all) \cup {0})
  PROVE  LeftOver(w, h, c, all, m)
<1> DEFINE M == Max(Ends(all) \cup {0})
<1>1. /\ all \in Seq(Bytes) /\ Len(all) = c - h /\ \A q \in 1..(c - h) : all[q] = w[h + q]
  <2>1. /\ SubSeq(w, h + 1, c) \in Seq(Bytes) /\ Len(SubSeq(w, h + 1, c)) = c - h
        /\ \A q \in 1..(c - h) : SubSeq(w, h + 1, c)[q] = w[h + q]
    BY Slice
  <2> QED
    BY <2>1 DEF Part
<1>2. /\ M = EndOf(all, Cardinality(Ends(all)))
      /\ \A p \in Ends(all) : p <= M
  BY <1>1, LineEnds
<1>3. M \in Ends(all) \cup {0}
  <2>1. Ends(all) \cup {0} \in SUBSET (0..(c - h)) /\ Ends(all) \cup {0} # {} /\ c - h \in Nat
    BY <1>1 DEF Ends
  <2> QED
    BY <2>1, LargestOfThem
<1> HIDE DEF M
<1>4. \A q : q \in Ends(all) <=> q \in 1..(c - h) /\ w[h + q] = "nl"
  BY <1>1 DEF Ends
<1>5. M \in Nat /\ M <= c - h /\ (M = 0 \/ w[h + M] = "nl")
  <2>1. CASE M = 0
    BY <2>1
  <2>2. CASE M \in Ends(all)
    BY <1>4, <2>2
  <2> QED
    BY <1>3, <2>1, <2>2
<1>6. m = h + M
  BY DEF M
<1>7. m \in Nat /\ h <= m /\ m <= c /\ (m = h \/ w[m] = "nl")
  BY <1>5, <1>6
<1>8. ASSUME NEW x \in Nat, m < x, x <= c, w[x] = "nl" PROVE FALSE
  <2>1. x - h \in 1..(c - h) /\ h + (x - h) = x /\ ~(x - h <= M)
    BY <1>5, <1>6, <1>8
  <2>2. x - h \in Ends(all)
    BY <1>4, <1>8, <2>1
  <2> QED
    BY <1>2, <2>1, <2>2
<1>9. Rest(all) = Part(w, m, c)
  <2>1. Rest(all) = SubSeq(all, M + 1, c - h)
    BY <1>1 DEF Rest, M
  <2>2. \A x, y \in Nat : x <= y /\ y <= c - h =>
          SubSeq(SubSeq(w, h + 1, c), x + 1, y) = SubSeq(w, (h + x) + 1, h + y)
    BY SliceOfSlice
  <2>3. c - h \in Nat /\ h + (c - h) = c
    OBVIOUS
  <2>4. SubSeq(SubSeq(w, h + 1, c), M + 1, c - h) = SubSeq(w, (h + M) + 1, h + (c - h))
    BY <1>5, <2>2, <2>3
  <2> QED
    BY <1>6, <2>1, <2>3, <2>4 DEF Part
<1> QED
  BY <1>2, <1>6, <1>7, <1>8, <1>9 DEF LeftOver

\* Pieces that cover what was written to a place, and have found its markers if
\* those before them had.
FoundOn(w, h, m, ps, e, rs) ==
  /\ rs \in Seq(Pieces)
  /\ \E f : /\ Cover(f, 0, rs, w) /\ f[Len(rs)] = m
            /\ Undivided(w, h) /\ FoundBy(e, h, ps, w) => FoundBy(f, m, rs, w)

\* The newlines that a read brings end whole markers: those it ends are found.
LEMMA LinesAreFound ==
  ASSUME NEW w \in Seq(Bytes), NEW h \in Nat, NEW c \in Nat, h <= c, c <= Len(w),
         NEW all, all = Part(w, h, c), NEW open, Spells(w, open),
         NEW m, m = h + Max(Ends(all) \cup {0}),
         NEW ps \in Seq(Pieces), NEW e, Cover(e, 0, ps, w), e[Len(ps)] = h
  PROVE  FoundOn(w, h, m, ps, e, ps \o Sifted(all)) /\ (Undivided(w, h) => Undivided(w, m))
<1> DEFINE n == Cardinality(Ends(all))
           E(x) == EndOf(all, x)
           qs == Sifted(all)
           rs == ps \o qs
<1>1. /\ m \in Nat /\ h <= m /\ m <= c /\ m = h + E(n)
      /\ m = h \/ w[m] = "nl"
      /\ \A x \in Nat : m < x /\ x <= c => w[x] # "nl"
  <2>1. LeftOver(w, h, c, all, m)
    BY RestHasNoNewline
  <2> QED
    BY <2>1 DEF LeftOver
<1>2. /\ n \in Nat /\ qs \in Seq(Pieces) /\ Len(qs) = n
      /\ \E d : Cover(d, h, qs, w) /\ \A j \in 0..n : d[j] = h + E(j)
      /\ \A j \in 1..n : qs[j].mark = MarkerOf(Lines(all)[j])
  BY LinesCover
<1> HIDE DEF n, E
<1>3. PICK d : Cover(d, h, qs, w) /\ \A j \in 0..n : d[j] = h + E(j)
  BY <1>2
<1> HIDE DEF qs
<1>4. Cover(d, e[Len(ps)], qs, w) /\ d[n] = h + E(n)
  BY <1>2, <1>3
<1>12. PICK f : Cover(f, 0, rs, w) /\ Joined(f, e, d, ps, qs)
  BY <1>2, <1>4, CoversJoin
<1>5. /\ Cover(f, 0, rs, w) /\ f[Len(rs)] = d[Len(qs)]
      /\ \A j \in 1..Len(ps) : j \in 1..Len(rs) /\ f[j] = e[j] /\ rs[j] = ps[j]
      /\ \A j \in 1..Len(qs) : \E i \in 1..Len(rs) : f[i] = d[j] /\ rs[i] = qs[j]
  BY <1>12 DEF Joined
<1>6. rs \in Seq(Pieces)
  BY <1>2, ConcatProperties
<1>7. f[Len(rs)] = m
  BY <1>1, <1>2, <1>4, <1>5
<1> HIDE DEF rs
<1>8. ASSUME NEW i \in 1..Len(w), MarkAt(w, i), Undivided(w, h), m \in {i, i + 1, i + 2}
      PROVE  FALSE
  <2>1. w[i] = "m" /\ w[i + 1] \in MarkKinds /\ (i + 2 <= Len(w) => w[i + 2] = "cr")
    BY <1>8, EchoIsSpelt DEF MarkAt
  <2>2. m # h
    BY <1>8 DEF Undivided
  <2>3. w[m] = "nl" /\ "nl" \notin MarkKinds /\ m <= Len(w)
    BY <1>1, <2>2, LenProperties, SieveAssumption
  <2>4. m # i /\ m # i + 1
    BY <2>1, <2>3
  <2>5. m # i + 2
    BY <2>1, <2>3
  <2> QED
    BY <1>8, <2>4, <2>5
<1>9. ASSUME NEW i \in 1..Len(w), MarkAt(w, i), i + 3 <= m, Undivided(w, h), FoundBy(e, h, ps, w)
      PROVE  \E j \in 1..Len(rs) : f[j] = i + 3 /\ rs[j].mark = w[i + 1]
  <2>0. i \in Nat /\ Len(w) \in Nat
    BY LenProperties
  <2>1. CASE i + 3 <= h
    <3>1. PICK j \in 1..Len(ps) : e[j] = i + 3 /\ ps[j].mark = w[i + 1]
      BY <1>9, <2>1 DEF FoundBy
    <3> QED
      BY <1>5, <3>1
  <2>2. CASE ~(i + 3 <= h)
    <3>1. h < i
      <4>1. h # i /\ h # i + 1 /\ h # i + 2
        BY <1>9 DEF Undivided
      <4> QED
        BY <2>0, <2>2, <4>1
    <3>2. i + 3 <= c
      BY <1>1, <1>9, <2>0
    <3>3. PICK j \in 1..n : h + E(j) = i + 3 /\ MarkerOf(Lines(all)[j]) = w[i + 1]
      <4>1. EndsMarker(w, h, all, i)
        BY <1>9, <3>1, <3>2, EchoEndsItsLine
      <4> QED
        BY <4>1 DEF EndsMarker, n, E
    <3>4. j \in 0..n /\ j \in 1..Len(qs)
      BY <1>2
    <3>5. PICK x \in 1..Len(rs) : f[x] = d[j] /\ rs[x] = qs[j]
      BY <1>5, <3>4
    <3>6. f[x] = i + 3 /\ rs[x].mark = w[i + 1]
      BY <1>2, <1>3, <3>3, <3>4, <3>5
    <3> QED
      BY <3>6
  <2> QED
    BY <2>1, <2>2
<1>10. Undivided(w, h) => Undivided(w, m)
  BY <1>8 DEF Undivided
<1>11. Undivided(w, h) /\ FoundBy(e, h, ps, w) => FoundBy(f, m, rs, w)
  BY <1>9 DEF FoundBy
<1> QED
  BY <1>5, <1>6, <1>7, <1>10, <1>11 DEF rs, qs, FoundOn

\* What is let go ends outside every marker, for one that had begun is held, and
\* a newline is not cut.
LEMMA ReleasedIsWhole ==
  ASSUME NEW w \in Seq(Bytes), NEW m \in Nat, NEW c \in Nat, m <= c, c <= Len(w),
         NEW open, Spells(w, open), Undivided(w, m),
         \A x \in Nat : m < x /\ x <= c => w[x] # "nl",
         ~(c < Len(w) /\ w[c] = "cr" /\ w[c + 1] = "nl"),
         ~CouldBecomeMarker(Part(w, m, c))
  PROVE  Undivided(w, c)
<1> SUFFICES ASSUME NEW i \in 1..Len(w), MarkAt(w, i), c \in {i, i + 1, i + 2} PROVE FALSE
  BY DEF Undivided
<1>1. i \in Nat /\ i >= 1 /\ Len(w) \in Nat /\ i + 1 <= Len(w) /\ w[i + 1] \in MarkKinds
  BY LenProperties DEF MarkAt
<1>2. /\ w[i] = "m"
      /\ i + 2 <= Len(w) => w[i + 2] = "cr" /\ i + 3 <= Len(w) /\ w[i + 3] = "nl"
  BY <1>1, EchoIsSpelt
<1>3. c # i + 2
  <2>1. c = i + 2 => w[c] = "cr" /\ c < Len(w) /\ c + 1 = i + 3 /\ w[i + 3] = "nl"
    BY <1>1, <1>2
  <2> QED
    BY <2>1
<1>4. m < i
  <2>1. m # i /\ m # i + 1
    BY DEF Undivided
  <2> QED
    BY <1>1, <1>3, <2>1
<1> DEFINE s == SubSeq(w, m + 1, c)
<1>5. PICK p \in Nat : p = i - m /\ p >= 1
  BY <1>1, <1>4
<1>6. PICK l \in Nat : l = c - m /\ (l = p \/ l = p + 1) /\ (l = p + 1 => c = i + 1)
  BY <1>1, <1>3, <1>4, <1>5
<1>7. s \in Seq(Bytes) /\ Len(s) = l /\ \A q \in 1..l : s[q] = w[m + q]
  <2>1. s \in Seq(Bytes) /\ Len(s) = c - m /\ \A q \in 1..(c - m) : s[q] = w[m + q]
    BY Slice
  <2> QED
    BY <1>6, <2>1
<1> HIDE DEF s
<1>8. s[p] = "m" /\ (l = p + 1 => s[p + 1] = w[i + 1])
  <2>1. p \in 1..l /\ m + p = i /\ (l = p + 1 => p + 1 \in 1..l /\ m + (p + 1) = i + 1)
    BY <1>1, <1>5, <1>6
  <2> QED
    BY <1>2, <1>7, <2>1
<1>9. p = 1 \/ s[p - 1] = "cr"
  <2>1. CASE p # 1
    <3>1. p - 1 \in 1..l /\ m + (p - 1) = i - 1 /\ i - 1 \in Nat /\ m < i - 1 /\ i - 1 <= c /\ i # 1
      BY <1>1, <1>5, <1>6, <2>1
    <3>2. w[i - 1] \in {"cr", "nl"} /\ w[i - 1] # "nl"
      BY <3>1 DEF MarkAt
    <3> QED
      BY <1>7, <3>1, <3>2
  <2> QED
    BY <2>1
<1>10. CouldBecomeMarker(s)
  <2>1. w[i + 1] \in MarkKinds /\ p >= 1
    BY <1>1, <1>5
  <2>2. Len(s) = l /\ (l = p \/ l = p + 1) /\ (l = p + 1 => s[p + 1] = w[i + 1])
    BY <1>6, <1>7, <1>8
  <2>3. s \in Seq(Bytes) /\ s[p] = "m"
    BY <1>7, <1>8
  <2> QED
    BY <1>9, <2>1, <2>2, <2>3, BeginningIsHeld
<1> QED
  BY <1>10 DEF s, Part

\* Bytes behind others, at their places.
LEMMA Behind ==
  ASSUME NEW w \in Seq(Bytes), NEW b \in Seq(Bytes)
  PROVE  /\ w \o b \in Seq(Bytes) /\ Len(w \o b) = Len(w) + Len(b) /\ Len(w) \in Nat /\ Len(b) \in Nat
         /\ \A i \in 1..Len(w) : (w \o b)[i] = w[i] /\ i \in 1..Len(w \o b)
         /\ \A i \in 1..Len(b) : (w \o b)[Len(w) + i] = b[i]
<1>1. Len(w) \in Nat /\ Len(b) \in Nat
  BY LenProperties
<1>2. /\ w \o b \in Seq(Bytes) /\ Len(w \o b) = Len(w) + Len(b)
      /\ \A i \in 1 .. Len(w) + Len(b) : (w \o b)[i] = IF i <= Len(w) THEN w[i] ELSE b[i - Len(w)]
  BY ConcatProperties
<1>3. ASSUME NEW i \in 1..Len(w) PROVE (w \o b)[i] = w[i] /\ i \in 1..Len(w \o b)
  BY <1>1, <1>2
<1>4. ASSUME NEW i \in 1..Len(b) PROVE (w \o b)[Len(w) + i] = b[i]
  <2>1. Len(w) + i \in 1 .. Len(w) + Len(b) /\ ~(Len(w) + i <= Len(w)) /\ (Len(w) + i) - Len(w) = i
    BY <1>1
  <2> QED
    BY <1>2, <2>1
<1> QED
  BY <1>1, <1>2, <1>3, <1>4

\* Markers behind markers are spelt as they were.
LEMMA SpeltOn ==
  ASSUME NEW w \in Seq(Bytes), NEW b \in Seq(Bytes), NEW open, Spells(w, TRUE), Spells(b, open)
  PROVE  Spells(w \o b, open)
<1> DEFINE v == w \o b
           n == Len(w)
<1>1. /\ Len(v) = n + Len(b) /\ n \in Nat /\ Len(b) \in Nat
      /\ \A i \in 1..n : v[i] = w[i]
      /\ \A i \in 1..Len(b) : v[n + i] = b[i]
  BY Behind
<1> HIDE DEF v, n
<1>2. SUFFICES ASSUME NEW i \in 1..Len(v), v[i] \in MarkKinds
               PROVE  /\ i >= 2 /\ v[i - 1] = "m"
                      /\ i + 1 <= Len(v) => v[i + 1] = "cr" /\ i + 2 <= Len(v) /\ v[i + 2] = "nl"
                      /\ open => i + 2 <= Len(v)
  BY DEF Spells, v
<1>3. CASE i <= n
  <2>1. i \in 1..Len(w) /\ w[i] \in MarkKinds
    BY <1>1, <1>2, <1>3 DEF n
  <2>2. i >= 2 /\ w[i - 1] = "m" /\ i + 2 <= n
        /\ (i + 1 <= n => w[i + 1] = "cr" /\ w[i + 2] = "nl")
    BY <2>1 DEF Spells, n
  <2>3. i - 1 \in 1..n /\ i + 1 \in 1..n /\ i + 2 \in 1..n /\ i + 2 <= Len(v) /\ i + 1 <= n
    BY <1>1, <2>2
  <2> QED
    BY <1>1, <2>2, <2>3
<1>4. CASE ~(i <= n)
  <2>1. PICK q \in 1..Len(b) : i = n + q
    <3>1. i - n \in 1..Len(b) /\ i = n + (i - n)
      BY <1>1, <1>4
    <3> QED
      BY <3>1
  <2>2. b[q] \in MarkKinds
    BY <1>1, <1>2, <2>1
  <2>3. /\ q >= 2 /\ b[q - 1] = "m"
        /\ q + 1 <= Len(b) => b[q + 1] = "cr" /\ q + 2 <= Len(b) /\ b[q + 2] = "nl"
        /\ open => q + 2 <= Len(b)
    BY <2>2 DEF Spells
  <2>4. i >= 2 /\ v[i - 1] = "m"
    <3>1. q - 1 \in 1..Len(b) /\ n + (q - 1) = i - 1 /\ i >= 2
      BY <1>1, <2>1, <2>3
    <3> QED
      BY <1>1, <2>3, <3>1
  <2>5. ASSUME i + 1 <= Len(v) PROVE v[i + 1] = "cr" /\ i + 2 <= Len(v) /\ v[i + 2] = "nl"
    <3>1. q + 1 <= Len(b) /\ n + (q + 1) = i + 1 /\ q + 1 \in 1..Len(b)
      BY <1>1, <2>1, <2>5
    <3>2. q + 2 \in 1..Len(b) /\ n + (q + 2) = i + 2
      BY <1>1, <2>1, <2>3, <3>1
    <3>3. b[q + 1] = "cr" /\ b[q + 2] = "nl"
      BY <2>3, <3>1
    <3> QED
      BY <1>1, <3>1, <3>2, <3>3
  <2>6. open => i + 2 <= Len(v)
    BY <1>1, <2>1, <2>3
  <2> QED
    BY <2>4, <2>5, <2>6
<1> QED
  BY <1>1, <1>3, <1>4

\* What is written afterwards divides none, and leaves the ones before found.
LEMMA WrittenOn ==
  ASSUME NEW w \in Seq(Bytes), NEW b \in Seq(Bytes), NEW open, Spells(b, open),
         NEW h \in Nat, h <= Len(w)
  PROVE  /\ Undivided(w, h) => Undivided(w \o b, h)
         /\ \A e, ps : FoundBy(e, h, ps, w) => FoundBy(e, h, ps, w \o b)
<1> DEFINE v == w \o b
           n == Len(w)
<1>1. /\ Len(v) = n + Len(b) /\ n \in Nat /\ Len(b) \in Nat
      /\ \A i \in 1..n : v[i] = w[i]
      /\ \A i \in 1..Len(b) : v[n + i] = b[i]
  BY Behind
<1> HIDE DEF v, n
<1>2. ASSUME NEW i \in 1..Len(v), MarkAt(v, i), i + 1 <= n
      PROVE  i \in 1..Len(w) /\ MarkAt(w, i) /\ v[i + 1] = w[i + 1]
  <2>1. i \in 1..n /\ i + 1 \in 1..n /\ (i # 1 => i - 1 \in 1..n)
    BY <1>1, <1>2
  <2>2. v[i + 1] = w[i + 1] /\ (i # 1 => v[i - 1] = w[i - 1])
    BY <1>1, <2>1
  <2> QED
    BY <1>2, <2>1, <2>2 DEF MarkAt, n
<1>3. ASSUME NEW i \in 1..Len(v), MarkAt(v, i), Undivided(w, h), h \in {i, i + 1, i + 2}
      PROVE  FALSE
  <2>1. CASE i + 1 <= n
    BY <1>2, <1>3, <2>1 DEF Undivided
  <2>2. CASE ~(i + 1 <= n)
    <3>1. i = n /\ i + 1 <= Len(v) /\ v[i + 1] \in MarkKinds
      BY <1>1, <1>3, <2>2 DEF MarkAt, n
    <3>2. 1 \in 1..Len(b) /\ v[n + 1] = b[1]
      BY <1>1, <3>1
    <3>3. b[1] \notin MarkKinds
      BY <3>2 DEF Spells
    <3> QED
      BY <3>1, <3>2, <3>3
  <2> QED
    BY <2>1, <2>2
<1>5. Undivided(w, h) => Undivided(v, h)
  BY <1>3 DEF Undivided
<1>4. ASSUME NEW e, NEW ps, FoundBy(e, h, ps, w) PROVE FoundBy(e, h, ps, v)
  <2>1. ASSUME NEW i \in 1..Len(v), MarkAt(v, i), i + 3 <= h
        PROVE  \E j \in 1..Len(ps) : e[j] = i + 3 /\ ps[j].mark = v[i + 1]
    <3>1. i + 1 <= n
      BY <1>1, <2>1 DEF n
    <3>2. i \in 1..Len(w) /\ MarkAt(w, i) /\ v[i + 1] = w[i + 1]
      BY <1>2, <2>1, <3>1
    <3> QED
      BY <1>4, <2>1, <3>2 DEF FoundBy
  <2> QED
    BY <2>1 DEF FoundBy
<1> QED
  BY <1>4, <1>5 DEF v

\* What is written at a time, and how far it spells a marker.
LEMMA WhatIsWritten ==
  /\ NewLine \in Seq(Bytes) /\ Spells(NewLine, TRUE)
  /\ \A x \in OutText : <<x>> \in Seq(Bytes) /\ Spells(<<x>>, TRUE)
  /\ \A k \in MarkKinds : /\ Echo(k) \in Seq(Bytes) /\ Spells(Echo(k), TRUE)
                          /\ \A n \in 0..Longest : /\ SubSeq(Echo(k), 1, n) \in Seq(Bytes)
                                                   /\ Spells(SubSeq(Echo(k), 1, n), FALSE)
<1>1. {"m", "text", "blank", "cr", "nl"} \cap MarkKinds = {}
  BY SieveAssumption
<1>2. NewLine \in Seq(Bytes) /\ Spells(NewLine, TRUE)
  <2>1. NewLine = <<"cr", "nl">>
    BY DEF NewLine
  <2>2. "cr" \in Bytes /\ "nl" \in Bytes
    BY DEF Bytes, OutText
  <2>3. NewLine \in Seq(Bytes)
    BY <2>1, <2>2
  <2>4. \A i \in 1..Len(NewLine) : NewLine[i] \notin MarkKinds
    BY <1>1, <2>1
  <2> QED
    BY <2>3, <2>4 DEF Spells
<1>3. ASSUME NEW x \in OutText PROVE <<x>> \in Seq(Bytes) /\ Spells(<<x>>, TRUE)
  <2>1. x \in Bytes /\ x \notin MarkKinds
    BY <1>1 DEF Bytes, OutText
  <2>2. <<x>> \in Seq(Bytes)
    BY <2>1
  <2>3. \A i \in 1..Len(<<x>>) : <<x>>[i] \notin MarkKinds
    BY <2>1
  <2> QED
    BY <2>2, <2>3 DEF Spells
<1>4. ASSUME NEW k \in MarkKinds
      PROVE  /\ Echo(k) \in Seq(Bytes) /\ Spells(Echo(k), TRUE)
             /\ \A n \in 0..Longest : /\ SubSeq(Echo(k), 1, n) \in Seq(Bytes)
                                      /\ Spells(SubSeq(Echo(k), 1, n), FALSE)
  <2>1. "m" \in Bytes /\ "cr" \in Bytes /\ "nl" \in Bytes /\ k \in Bytes
    BY DEF Bytes, OutText
  <2> DEFINE s == Echo(k)
  <2>2. /\ s \in Seq(Bytes) /\ Len(s) = 4
        /\ s[1] = "m" /\ s[2] = k /\ s[3] = "cr" /\ s[4] = "nl"
    <3>1. s = <<"m", k>> \o <<"cr", "nl">>
      BY DEF Echo, MarkerText, NewLine
    <3> DEFINE a == <<"m", k>>
               b == <<"cr", "nl">>
    <3>2. /\ a \in Seq(Bytes) /\ Len(a) = 2 /\ a[1] = "m" /\ a[2] = k
          /\ b \in Seq(Bytes) /\ Len(b) = 2 /\ b[1] = "cr" /\ b[2] = "nl"
      BY <2>1
    <3>3. s = a \o b
      BY <3>1
    <3> HIDE DEF a, b, s
    <3>4. /\ s \in Seq(Bytes) /\ Len(s) = Len(a) + Len(b)
          /\ \A i \in 1..Len(a) : s[i] = a[i]
          /\ \A i \in 1..Len(b) : s[Len(a) + i] = b[i]
      BY <3>2, <3>3, Behind
    <3>5. 1 \in 1..2 /\ 2 \in 1..2 /\ 2 + 1 = 3 /\ 2 + 2 = 4
      OBVIOUS
    <3> QED
      BY <3>2, <3>4, <3>5
  <2> HIDE DEF s
  <2>3. \A i \in 1..4 : s[i] \in MarkKinds => i = 2
    BY <1>1, <2>2
  <2>4. Spells(s, TRUE)
    BY <2>2, <2>3 DEF Spells
  <2>5. ASSUME NEW n \in 0..Longest
        PROVE  SubSeq(s, 1, n) \in Seq(Bytes) /\ Spells(SubSeq(s, 1, n), FALSE)
    <3> DEFINE u == SubSeq(s, 0 + 1, n)
    <3>1. 0 <= n /\ n <= Len(s) /\ n \in Nat /\ n <= 2 /\ n - 0 = n
      BY <2>2 DEF Longest
    <3>2. u \in Seq(Bytes) /\ Len(u) = n - 0 /\ \A i \in 1..(n - 0) : u[i] = s[0 + i]
      <4>1. \A x, y \in Nat : x <= y /\ y <= Len(s) =>
              /\ SubSeq(s, x + 1, y) \in Seq(Bytes) /\ Len(SubSeq(s, x + 1, y)) = y - x
              /\ \A i \in 1..(y - x) : SubSeq(s, x + 1, y)[i] = s[x + i]
        BY <2>2, Slice
      <4> QED
        BY <3>1, <4>1
    <3>3. Len(u) = n /\ \A i \in 1..n : u[i] = s[i]
      BY <3>1, <3>2
    <3>4. u = SubSeq(s, 1, n)
      OBVIOUS
    <3> HIDE DEF u
    <3>5. \A i \in 1..n : u[i] \in MarkKinds => i = 2 /\ u[1] = "m"
      BY <2>2, <2>3, <3>1, <3>3
    <3>6. Spells(u, FALSE)
      BY <3>1, <3>3, <3>5 DEF Spells
    <3> QED
      BY <3>2, <3>4, <3>6
  <2> QED
    BY <2>2, <2>4, <2>5 DEF s
<1> QED
  BY <1>2, <1>3, <1>4

\* What has left the sieve: what is held, and what is not read, is behind it.
Held == Len(written) - Len(tty) - Len(partial)

\* Where the pieces end, of what has left it.
PiecesInv(e) ==
  /\ Cover(e, 0, pieces, written) /\ e[Len(pieces)] = Held
  /\ ~SplitsNewline => FoundBy(e, Held, pieces, written)

\* The pieces, what is held and what is not read follow one another in what was
\* written; no newline is held, and no marker divided.
SieveInv ==
  /\ SieveTypeOK
  /\ Held >= 0
  /\ partial = Part(written, Held, ReadChunk) /\ tty = Part(written, ReadChunk, Len(written))
  /\ \A i \in 1..Len(partial) : partial[i] # "nl"
  /\ Spells(written, phase = "open")
  /\ phase # "finished" /\ ~SplitsNewline => Undivided(written, Held)
  /\ \E e : PiecesInv(e)

\* What the invariant says of the variables' types and lengths.
LEMMA SieveFacts ==
  ASSUME SieveInv
  PROVE  /\ tty \in Seq(Bytes) /\ partial \in Seq(Bytes) /\ written \in Seq(Bytes)
         /\ pieces \in Seq(Pieces) /\ phase \in {"open", "ended", "finished"}
         /\ (phase = "finished" => partial = <<>>)
         /\ Len(tty) \in Nat /\ Len(partial) \in Nat /\ Len(written) \in Nat /\ Len(pieces) \in Nat
         /\ Held \in Nat /\ ReadChunk \in Nat /\ ReadChunk = Held + Len(partial)
         /\ ReadChunk + Len(tty) = Len(written)
<1>1. tty \in Seq(Bytes) /\ partial \in Seq(Bytes) /\ written \in Seq(Bytes)
  BY DEF SieveInv, SieveTypeOK
<1>2. pieces \in Seq(Pieces) /\ phase \in {"open", "ended", "finished"}
      /\ (phase = "finished" => partial = <<>>)
  BY DEF SieveInv, SieveTypeOK, Pieces
<1>3. Len(tty) \in Nat /\ Len(partial) \in Nat /\ Len(written) \in Nat /\ Len(pieces) \in Nat
  BY <1>1, <1>2, LenProperties
<1>4. Held >= 0
  BY DEF SieveInv
<1>5. Held \in Nat /\ ReadChunk \in Nat /\ ReadChunk = Held + Len(partial)
      /\ ReadChunk + Len(tty) = Len(written)
  BY <1>3, <1>4 DEF Held, ReadChunk
<1> QED
  BY <1>1, <1>2, <1>3, <1>5

\* Nothing has been written.
LEMMA SieveBegins ==
  ASSUME SieveInit
  PROVE  SieveInv
<1>1. phase = "open" /\ tty = <<>> /\ partial = <<>> /\ pieces = <<>> /\ written = <<>>
  BY DEF SieveInit
<1>2. /\ <<>> \in Seq(Bytes) /\ Len(<<>>) = 0
      /\ <<>> \in Seq([mark : MarkKinds \cup {NoMark}, bytes : Seq(Bytes)])
  BY EmptySeq
<1>3. Held = 0 /\ ReadChunk = 0
  <2>1. Len(written) = 0 /\ Len(tty) = 0 /\ Len(partial) = 0
    BY <1>1, <1>2, Zenon
  <2> QED
    BY <2>1 DEF Held, ReadChunk
<1>4. SieveTypeOK
  BY <1>1, <1>2 DEF SieveTypeOK
<1>5. Part(<<>>, 0, 0) = <<>>
  BY SubSeqEmpty DEF Part
<1>6. /\ partial = Part(written, Held, ReadChunk) /\ tty = Part(written, ReadChunk, Len(written))
      /\ \A i \in 1..Len(partial) : partial[i] # "nl"
  BY <1>1, <1>2, <1>3, <1>5
<1>7. Spells(written, phase = "open") /\ Undivided(written, Held)
  BY <1>1, <1>2 DEF Spells, Undivided
<1> DEFINE e == [j \in 0..0 |-> 0]
<1>8. e \in [0..0 -> 0..0] /\ e[0] = 0
  OBVIOUS
<1> HIDE DEF e
<1>9. Cover(e, 0, pieces, written) /\ e[Len(pieces)] = Held
  BY <1>1, <1>2, <1>3, <1>8 DEF Cover
<1>10. FoundBy(e, Held, pieces, written)
  BY <1>1, <1>2 DEF FoundBy
<1>11. PiecesInv(e)
  BY <1>9, <1>10 DEF PiecesInv
<1> QED
  BY <1>3, <1>4, <1>6, <1>7, <1>11 DEF SieveInv

\* More is written.
LEMMA WriteKeeps ==
  ASSUME SieveInv, NEW b \in Seq(Bytes), Write(b), phase = "open", phase' \in {"open", "ended"},
         Spells(b, phase' = "open")
  PROVE  SieveInv'
<1>1. /\ tty \in Seq(Bytes) /\ written \in Seq(Bytes) /\ partial \in Seq(Bytes)
      /\ pieces \in Seq(Pieces)
      /\ Len(tty) \in Nat /\ Len(partial) \in Nat /\ Len(written) \in Nat /\ Len(pieces) \in Nat
      /\ Held \in Nat /\ ReadChunk \in Nat /\ ReadChunk = Held + Len(partial)
      /\ ReadChunk + Len(tty) = Len(written)
  BY SieveFacts
<1>2. tty' = tty \o b /\ written' = written \o b /\ partial' = partial /\ pieces' = pieces
  BY DEF Write
<1>3. /\ written \o b \in Seq(Bytes) /\ Len(written \o b) = Len(written) + Len(b)
      /\ Len(b) \in Nat
  BY <1>1, Behind
<1>4. tty \o b \in Seq(Bytes) /\ Len(tty \o b) = Len(tty) + Len(b)
  BY <1>1, Behind
<1>5. Held' = Held /\ ReadChunk' = ReadChunk /\ Len(written') = Len(written) + Len(b)
  BY <1>1, <1>2, <1>3, <1>4 DEF Held, ReadChunk
<1>6. SieveTypeOK'
  <2>1. phase' \in {"open", "ended", "finished"} /\ (phase' = "finished" => partial' = <<>>)
    OBVIOUS
  <2>2. \A s \in {tty', partial', written'} : s \in Seq(Bytes)
    BY <1>1, <1>2, <1>3, <1>4
  <2>3. pieces' \in Seq([mark : MarkKinds \cup {NoMark}, bytes : Seq(Bytes)])
    BY <1>1, <1>2 DEF Pieces
  <2> QED
    BY <2>1, <2>2, <2>3 DEF SieveTypeOK
<1>7. partial' = Part(written, Held, ReadChunk)' /\ (\A i \in 1..Len(partial') : partial'[i] # "nl")
  <2>1. partial = SubSeq(written, Held + 1, ReadChunk) /\ \A i \in 1..Len(partial) : partial[i] # "nl"
    BY DEF SieveInv, Part
  <2>2. Held <= ReadChunk /\ ReadChunk <= Len(written)
    BY <1>1
  <2>3. SubSeq(written \o b, Held + 1, ReadChunk) = SubSeq(written, Held + 1, ReadChunk)
    BY <1>1, <2>2, SliceStays
  <2>4. Part(written, Held, ReadChunk)' = SubSeq(written \o b, Held + 1, ReadChunk)
    BY <1>2, <1>5 DEF Part
  <2> QED
    BY <1>2, <2>1, <2>3, <2>4
<1>8. tty' = Part(written, ReadChunk, Len(written))'
  <2> DEFINE r == ReadChunk
             u == SubSeq(written \o b, r + 1, Len(written) + Len(b))
  <2>1. r \in Nat /\ r <= Len(written) /\ r + Len(tty) = Len(written)
    BY <1>1
  <2>2. tty = SubSeq(written, r + 1, Len(written))
    BY DEF SieveInv, Part
  <2> HIDE DEF r
  <2>3. /\ u \in Seq(Bytes) /\ Len(u) = (Len(written) + Len(b)) - r
        /\ \A i \in 1..((Len(written) + Len(b)) - r) : u[i] = (written \o b)[r + i]
    <3>1. Len(written) + Len(b) \in Nat /\ r <= Len(written) + Len(b)
          /\ Len(written) + Len(b) <= Len(written \o b)
      BY <1>1, <1>3, <2>1
    <3> QED
      BY <1>3, <2>1, <3>1, Slice
  <2>4. \A i \in 1..Len(tty) : tty[i] = written[r + i]
    <3>1. \A i \in 1..(Len(written) - r) : SubSeq(written, r + 1, Len(written))[i] = written[r + i]
      BY <1>1, <2>1, Slice
    <3>2. Len(tty) = Len(written) - r
      BY <1>1, <2>1
    <3> QED
      BY <2>2, <3>1, <3>2
  <2> HIDE DEF u
  <2>9. PICK x, y, z \in Nat : x = Len(written) /\ y = Len(b) /\ z = Len(tty)
    BY <1>1, <1>3
  <2>10. r + z = x /\ Len(u) = (x + y) - r /\ Len(tty \o b) = z + y /\ r \in Nat
    BY <1>4, <2>1, <2>3, <2>9
  <2>5. Len(u) = Len(tty \o b) /\ Len(u) = z + y /\ (x + y) - r = z + y
    BY <2>10
  <2>6. ASSUME NEW i \in 1..Len(u) PROVE u[i] = (tty \o b)[i]
    <3>1. CASE i <= Len(tty)
      <4>3. i \in 1..z /\ r + i \in 1..x /\ i \in 1..((x + y) - r)
        BY <2>5, <2>9, <2>10, <3>1
      <4>1. i \in 1..Len(tty) /\ r + i \in 1..Len(written)
            /\ i \in 1..((Len(written) + Len(b)) - r)
        BY <2>9, <4>3
      <4>2. (tty \o b)[i] = tty[i] /\ (written \o b)[r + i] = written[r + i]
        BY <1>1, <4>1, Behind
      <4> QED
        BY <2>3, <2>4, <4>1, <4>2
    <3>2. CASE ~(i <= Len(tty))
      <4>5. i - z \in Nat
        BY <2>5, <2>9, <3>2
      <4>1. PICK q \in Nat : q = i - z
        BY <4>5
      <4>6. i \in 1..(z + y) /\ ~(i <= z)
        BY <2>5, <2>9, <3>2
      <4>7. r + z = x /\ (x + y) - r = z + y /\ r \in Nat
        BY <2>5, <2>10
      <4>4. q \in 1..y /\ i = z + q /\ r + i = x + q /\ i \in 1..((x + y) - r)
        BY <4>1, <4>6, <4>7
      <4>2. q \in 1..Len(b) /\ i = Len(tty) + q /\ r + i = Len(written) + q
            /\ i \in 1..((Len(written) + Len(b)) - r)
        BY <2>9, <4>4
      <4>3. (tty \o b)[Len(tty) + q] = b[q] /\ (written \o b)[Len(written) + q] = b[q]
        <5>1. \A p \in 1..Len(b) : (tty \o b)[Len(tty) + p] = b[p]
          BY <1>1, Behind
        <5>2. \A p \in 1..Len(b) : (written \o b)[Len(written) + p] = b[p]
          BY <1>1, Behind
        <5> QED
          BY <4>2, <5>1, <5>2
      <4> QED
        BY <2>3, <4>2, <4>3
    <3> QED
      BY <3>1, <3>2
  <2>7. u = tty \o b
    BY <1>4, <2>3, <2>5, <2>6, SeqEqual
  <2>8. Part(written, ReadChunk, Len(written))' = u
    BY <1>2, <1>5 DEF Part, u, r
  <2> QED
    BY <1>2, <2>7, <2>8
<1>9. Spells(written', phase' = "open")
  <2>1. Spells(written, TRUE)
    BY DEF SieveInv
  <2> QED
    BY <1>1, <1>2, <2>1, SpeltOn
<1>10. Held <= Len(written)
  BY <1>1
<1>11. ~SplitsNewline => Undivided(written', Held')
  <2>1. ~SplitsNewline => Undivided(written, Held)
    BY DEF SieveInv
  <2>2. Undivided(written, Held) => Undivided(written \o b, Held)
    BY <1>1, <1>10, WrittenOn
  <2> QED
    BY <1>2, <1>5, <2>1, <2>2
<1>12. \E e : PiecesInv(e)'
  <2>1. PICK e : PiecesInv(e)
    BY DEF SieveInv
  <2>2. Cover(e, 0, pieces, written \o b)
    BY <1>1, <2>1, CoverStays DEF PiecesInv
  <2>3. FoundBy(e, Held, pieces, written) => FoundBy(e, Held, pieces, written \o b)
    BY <1>1, <1>10, WrittenOn
  <2>4. PiecesInv(e)'
    BY <1>2, <1>5, <2>1, <2>2, <2>3 DEF PiecesInv
  <2> QED
    BY <2>4
<1>13. Held' >= 0
  BY <1>1, <1>5
<1> QED
  BY <1>6, <1>7, <1>8, <1>9, <1>11, <1>12, <1>13 DEF SieveInv

\* Pieces behind others that have found the markers before them.
FoundThen(w, m, c, rs, f, r) ==
  /\ r \in Seq(Pieces)
  /\ \E g : Cover(g, 0, r, w) /\ g[Len(r)] = c /\ (FoundBy(f, m, rs, w) => FoundBy(g, c, r, w))

\* The tail of a read, or what is held at the end, goes behind the lines.
LEMMA TailGoesOut ==
  ASSUME NEW w \in Seq(Bytes), NEW m \in Nat, NEW c \in Nat, m <= c, c <= Len(w),
         NEW open, Spells(w, open), \A x \in Nat : m < x /\ x <= c => w[x] # "nl",
         NEW rs \in Seq(Pieces), NEW f, Cover(f, 0, rs, w), f[Len(rs)] = m,
         NEW k \in MarkKinds \cup {NoMark}, NEW bytes, bytes = Part(w, m, c)
  PROVE  FoundThen(w, m, c, rs, f, rs \o <<Piece(k, bytes)>>)
<1> DEFINE q == <<Piece(k, bytes)>>
           r == rs \o q
<1>1. q \in Seq(Pieces) /\ Len(q) = 1 /\ \E d : Cover(d, m, q, w) /\ d[1] = c
  <2>1. bytes = SubSeq(w, m + 1, c)
    BY DEF Part
  <2>2. Covers(q, m, c, w)
    BY <2>1, OnePieceCovers
  <2> QED
    BY <2>2 DEF Covers
<1> HIDE DEF q
<1>2. PICK d : Cover(d, m, q, w) /\ d[1] = c
  BY <1>1
<1>3. Cover(d, f[Len(rs)], q, w)
  BY <1>2
<1>4. PICK g : Cover(g, 0, r, w) /\ Joined(g, f, d, rs, q)
  BY <1>1, <1>3, CoversJoin
<1>5. g[Len(r)] = c /\ \A j \in 1..Len(rs) : j \in 1..Len(r) /\ g[j] = f[j] /\ r[j] = rs[j]
  BY <1>1, <1>2, <1>4 DEF Joined
<1>6. r \in Seq(Pieces)
  BY <1>1, ConcatProperties
<1> HIDE DEF r
<1>7. ASSUME FoundBy(f, m, rs, w), NEW i \in 1..Len(w), MarkAt(w, i), i + 3 <= c
      PROVE  \E j \in 1..Len(r) : g[j] = i + 3 /\ r[j].mark = w[i + 1]
  <2>1. i \in Nat /\ i + 3 \in Nat /\ Len(w) \in Nat /\ i + 1 <= Len(w) /\ i + 2 <= Len(w)
        /\ w[i + 1] \in MarkKinds
    BY <1>7, LenProperties DEF MarkAt
  <2>2. w[i + 3] = "nl"
    BY <1>7, <2>1, EchoIsSpelt
  <2>3. ~(m < i + 3)
    BY <1>7, <2>1, <2>2
  <2>4. i + 3 <= m
    BY <2>1, <2>3
  <2>5. PICK j \in 1..Len(rs) : f[j] = i + 3 /\ rs[j].mark = w[i + 1]
    BY <1>7, <2>4 DEF FoundBy
  <2> QED
    BY <1>5, <2>5
<1>8. FoundBy(f, m, rs, w) => FoundBy(g, c, r, w)
  BY <1>7 DEF FoundBy
<1> QED
  BY <1>4, <1>5, <1>6, <1>8 DEF r, q, FoundThen

\* What a read brings is behind what is held, and the terminal keeps the rest.
LEMMA ReadBrings ==
  ASSUME SieveInv, NEW n \in DOMAIN tty, NEW c, c = ReadChunk + n
  PROVE  /\ c \in Nat /\ Held <= c /\ c <= Len(written)
         /\ partial \o SubSeq(tty, 1, n) = Part(written, Held, c)
         /\ SubSeq(tty, n + 1, Len(tty)) = Part(written, c, Len(written))
         /\ SubSeq(tty, n + 1, Len(tty)) \in Seq(Bytes)
         /\ Len(SubSeq(tty, n + 1, Len(tty))) = Len(written) - c
         /\ c < Len(written) /\ written[c] = "cr" /\ written[c + 1] = "nl" =>
              n < Len(tty) /\ EndsWithinNewline(n)
<1> DEFINE r == ReadChunk
           h == Held
           l == Len(written)
           t == Len(tty)
<1>1. /\ tty \in Seq(Bytes) /\ written \in Seq(Bytes)
      /\ t \in Nat /\ l \in Nat /\ h \in Nat /\ r \in Nat /\ h <= r /\ r + t = l
  BY SieveFacts
<1>2. partial = Part(written, h, r) /\ tty = Part(written, r, l)
  BY DEF SieveInv
<1>9. DOMAIN tty = 1..t
  BY <1>1
<1> HIDE DEF r, h, l, t
<1>3. n \in Nat /\ n >= 1 /\ n <= t /\ c = r + n /\ c \in Nat /\ h <= c /\ c <= l /\ r <= c
      /\ r <= l /\ l - r = t
  BY <1>1, <1>9 DEF r
<1>12. n \in 1..t
  BY <1>9
<1>4. \A x, y \in Nat : x <= y /\ y <= l - r =>
        SubSeq(SubSeq(written, r + 1, l), x + 1, y) = SubSeq(written, (r + x) + 1, r + y)
  BY <1>1, <1>3, SliceOfSlice DEF l
<1>5. SubSeq(tty, 1, n) = Part(written, r, c)
  <2>1. 0 <= n /\ n <= l - r /\ 0 \in Nat /\ 0 + 1 = 1 /\ r + 0 = r
    BY <1>1, <1>3
  <2>2. SubSeq(SubSeq(written, r + 1, l), 0 + 1, n) = SubSeq(written, (r + 0) + 1, r + n)
    BY <1>3, <1>4, <2>1
  <2>3. r + n = c
    BY <1>3
  <2>4. SubSeq(SubSeq(written, r + 1, l), 1, n) = SubSeq(written, r + 1, c)
    BY <2>1, <2>2, <2>3
  <2>5. tty = SubSeq(written, r + 1, l)
    BY <1>2 DEF Part
  <2> QED
    BY <2>4, <2>5 DEF Part
<1>11. /\ h \in Nat /\ r \in Nat /\ c \in Nat /\ t \in Nat /\ n \in Nat /\ written \in Seq(Bytes)
       /\ h <= r /\ r <= c /\ c <= Len(written) /\ r + n = c /\ r + t = l /\ n <= t /\ t <= l - r
  <2>1. l = Len(written) /\ c <= l /\ l - r = t
    BY <1>3 DEF l
  <2>2. h \in Nat /\ r \in Nat /\ t \in Nat /\ written \in Seq(Bytes) /\ h <= r /\ r + t = l
    BY <1>1
  <2>3. t <= l - r
    BY <2>1, <2>2
  <2>4. c \in Nat /\ n \in Nat /\ r <= c /\ r + n = c /\ n <= t
    BY <1>3
  <2> QED
    BY <2>1, <2>2, <2>3, <2>4
<1>6. Part(written, h, r) \o Part(written, r, c) = Part(written, h, c)
  <2>1. written \in Seq(Bytes) /\ h <= r /\ r <= c /\ c <= Len(written)
    BY <1>11
  <2>2. h \in Nat /\ r \in Nat /\ c \in Nat
    BY <1>11
  <2> QED
    BY <2>1, <2>2, PartsMeet
<1>7. SubSeq(tty, n + 1, t) = Part(written, c, l)
  <2>1. SubSeq(SubSeq(written, r + 1, l), n + 1, t) = SubSeq(written, (r + n) + 1, r + t)
    BY <1>4, <1>11
  <2>2. SubSeq(tty, n + 1, t) = SubSeq(SubSeq(written, r + 1, l), n + 1, t)
    BY <1>2 DEF Part
  <2> QED
    BY <1>11, <2>1, <2>2 DEF Part
<1>8. Part(written, c, l) \in Seq(Bytes) /\ Len(Part(written, c, l)) = l - c
  <2>1. l \in Nat /\ l <= Len(written) /\ c <= l
    BY <1>1, <1>3 DEF l
  <2> QED
    BY <1>11, <2>1, PartIs
<1>10. ASSUME c < l, written[c] = "cr", written[c + 1] = "nl"
       PROVE  n < t /\ EndsWithinNewline(n)
  <2>1. n < t /\ n + 1 <= t
    BY <1>1, <1>3, <1>10
  <2>2. PICK a \in Nat : a = n - 1
    BY <1>3
  <2>3. a + 1 = n /\ n + 1 \in Nat /\ a <= n + 1 /\ (n + 1) - a = 2 /\ a + 2 = n + 1
    BY <1>3, <2>2
  <2> DEFINE u == SubSeq(tty, a + 1, n + 1)
  <2>4. /\ u \in Seq(Bytes) /\ Len(u) = (n + 1) - a
        /\ \A i \in 1..((n + 1) - a) : u[i] = tty[a + i]
    <3>1. tty \in Seq(Bytes) /\ n + 1 <= Len(tty)
      BY <1>1, <2>1 DEF t
    <3>2. PICK b \in Nat : b = n + 1
      BY <2>3
    <3>3. /\ SubSeq(tty, a + 1, b) \in Seq(Bytes) /\ Len(SubSeq(tty, a + 1, b)) = b - a
          /\ \A i \in 1..(b - a) : SubSeq(tty, a + 1, b)[i] = tty[a + i]
      BY <2>3, <3>1, <3>2, Slice
    <3> QED
      BY <3>2, <3>3
  <2>5. \A i \in 1..t : tty[i] = written[r + i]
    <3>1. \A i \in 1..(l - r) : SubSeq(written, r + 1, l)[i] = written[r + i]
      BY <1>11, Slice DEF l
    <3> QED
      BY <1>2, <1>3, <3>1 DEF Part
  <2> HIDE DEF u
  <2>6. tty[n] = written[c] /\ tty[n + 1] = written[c + 1]
    <3>1. n \in 1..t /\ n + 1 \in 1..t /\ r + n = c /\ r + (n + 1) = c + 1
      BY <1>11, <1>12, <2>1
    <3> QED
      BY <2>5, <3>1
  <2>7. Len(u) = 2 /\ u[1] = "cr" /\ u[2] = "nl"
    BY <1>10, <2>3, <2>4, <2>6
  <2>8. u = <<"cr", "nl">>
    <3> DEFINE v == <<"cr", "nl">>
    <3>1. v \in Seq(Bytes) /\ Len(v) = 2 /\ v[1] = "cr" /\ v[2] = "nl"
      BY DEF Bytes, OutText
    <3> HIDE DEF v
    <3>2. \A i \in 1..Len(u) : u[i] = v[i]
      <4>1. \A i \in 1..2 : i = 1 \/ i = 2
        OBVIOUS
      <4> QED
        BY <2>7, <3>1, <4>1
    <3>3. u = v
      BY <2>4, <2>7, <3>1, <3>2, SeqEqual
    <3> QED
      BY <3>3 DEF v
  <2>9. u = SubSeq(tty, n, n + 1)
    BY <2>3 DEF u
  <2> QED
    BY <2>1, <2>8, <2>9 DEF EndsWithinNewline, NewLine
<1> QED
  BY <1>2, <1>3, <1>5, <1>6, <1>7, <1>8, <1>10 DEF r, h, l, t

\* A read: its lines go out, and its tail if no marker may come of it.
LEMMA FeedKeeps ==
  ASSUME SieveInv, FeedSieve
  PROVE  SieveInv'
<1>1. PICK n \in DOMAIN tty :
        LET all == partial \o SubSeq(tty, 1, n) IN
        /\ n < Len(tty) /\ EndsWithinNewline(n) => SplitsNewline
        /\ tty' = SubSeq(tty, n + 1, Len(tty))
        /\ IF Released(Rest(all))
             THEN /\ pieces' = pieces \o Sifted(all) \o <<Piece(NoMark, Rest(all))>>
                  /\ partial' = <<>>
             ELSE pieces' = pieces \o Sifted(all) /\ partial' = Rest(all)
  BY DEF FeedSieve
<1>2. phase' = phase /\ written' = written /\ phase # "finished"
  BY DEF FeedSieve
<1> DEFINE all == partial \o SubSeq(tty, 1, n)
           rest == Rest(all)
           rs == pieces \o Sifted(all)
           h == Held
           l == Len(written)
           m == h + Max(Ends(all) \cup {0})
           c == ReadChunk + n
           open == phase = "open"
<1>3. /\ n < Len(tty) /\ EndsWithinNewline(n) => SplitsNewline
      /\ tty' = SubSeq(tty, n + 1, Len(tty))
      /\ Released(rest) => pieces' = rs \o <<Piece(NoMark, rest)>> /\ partial' = <<>>
      /\ ~Released(rest) => pieces' = rs /\ partial' = rest
  BY <1>1
<1>4. /\ tty \in Seq(Bytes) /\ written \in Seq(Bytes) /\ l \in Nat /\ h \in Nat
      /\ pieces \in Seq(Pieces) /\ phase \in {"open", "ended", "finished"}
  BY SieveFacts
<1>5. /\ c \in Nat /\ h <= c /\ c <= l /\ all = Part(written, h, c)
      /\ tty' = Part(written, c, l) /\ tty' \in Seq(Bytes) /\ Len(tty') = l - c
      /\ c < l /\ written[c] = "cr" /\ written[c + 1] = "nl" =>
           n < Len(tty) /\ EndsWithinNewline(n)
  BY <1>3, ReadBrings
<1>6. /\ Spells(written, open) /\ (~SplitsNewline => Undivided(written, h))
  BY <1>2 DEF SieveInv
<1>7. PICK e : PiecesInv(e)
  BY DEF SieveInv
<1>8. /\ Cover(e, 0, pieces, written) /\ e[Len(pieces)] = h
      /\ ~SplitsNewline => FoundBy(e, h, pieces, written)
  BY <1>7 DEF PiecesInv
<1> HIDE DEF all, rest, rs, h, l, m, c, open
<1>9. m = h + Max(Ends(all) \cup {0})
  BY DEF m
<1>19. /\ written \in Seq(Bytes) /\ h \in Nat /\ c \in Nat /\ h <= c /\ c <= Len(written)
       /\ all = Part(written, h, c) /\ pieces \in Seq(Pieces) /\ Spells(written, open)
  BY <1>4, <1>5, <1>6 DEF l
<1>10. /\ m \in Nat /\ m <= c /\ rest = Part(written, m, c)
       /\ \A x \in Nat : m < x /\ x <= c => written[x] # "nl"
  <2>1. /\ m \in Nat /\ h <= m /\ m <= c /\ m = h + EndOf(all, Cardinality(Ends(all)))
        /\ m = h \/ written[m] = "nl"
        /\ \A x \in Nat : m < x /\ x <= c => written[x] # "nl"
        /\ Rest(all) = Part(written, m, c)
    <3>1. LeftOver(written, h, c, all, m)
      BY <1>9, <1>19, RestHasNoNewline
    <3> QED
      BY <3>1 DEF LeftOver
  <2> QED
    BY <2>1 DEF rest
<1>11. /\ rs \in Seq(Pieces) /\ (Undivided(written, h) => Undivided(written, m))
       /\ \E f : /\ Cover(f, 0, rs, written) /\ f[Len(rs)] = m
                 /\ Undivided(written, h) /\ FoundBy(e, h, pieces, written) =>
                      FoundBy(f, m, rs, written)
  <2>1. FoundOn(written, h, m, pieces, e, rs) /\ (Undivided(written, h) => Undivided(written, m))
    BY <1>8, <1>9, <1>19, LinesAreFound DEF rs
  <2> QED
    BY <2>1 DEF FoundOn
<1>12. PICK f : /\ Cover(f, 0, rs, written) /\ f[Len(rs)] = m
                /\ Undivided(written, h) /\ FoundBy(e, h, pieces, written) =>
                     FoundBy(f, m, rs, written)
  BY <1>11
<1>13. ~SplitsNewline => Undivided(written, m) /\ FoundBy(f, m, rs, written)
  BY <1>6, <1>8, <1>11, <1>12
<1>14. /\ rest \in Seq(Bytes) /\ Len(rest) = c - m
       /\ \A i \in 1..Len(rest) : rest[i] # "nl"
  <2>1. /\ rest \in Seq(Bytes) /\ Len(rest) = c - m
        /\ \A i \in 1..(c - m) : rest[i] = written[m + i]
    <3>1. /\ SubSeq(written, m + 1, c) \in Seq(Bytes) /\ Len(SubSeq(written, m + 1, c)) = c - m
          /\ \A i \in 1..(c - m) : SubSeq(written, m + 1, c)[i] = written[m + i]
      <4>1. m \in Nat /\ m <= c
        BY <1>10
      <4> QED
        BY <1>19, <4>1, Slice
    <3>2. rest = SubSeq(written, m + 1, c)
      BY <1>10 DEF Part
    <3> QED
      BY <3>1, <3>2
  <2>2. \A i \in 1..(c - m) : m + i \in Nat /\ m < m + i /\ m + i <= c
    BY <1>5, <1>10
  <2> QED
    BY <1>10, <2>1, <2>2
<1>15. PICK o \in Nat : o = l - c
  BY <1>4, <1>5
<1>16. ASSUME NEW p \in Seq(Bytes), partial' = p, NEW k \in Nat, k + Len(p) = c,
              p = Part(written, k, c), \A i \in 1..Len(p) : p[i] # "nl",
              pieces' \in Seq(Pieces), ~SplitsNewline => Undivided(written, k),
              NEW g, Cover(g, 0, pieces', written), g[Len(pieces')] = k,
              ~SplitsNewline => FoundBy(g, k, pieces', written)
       PROVE  SieveInv'
  <2>1. Held' = k /\ ReadChunk' = c /\ Len(written') = l
    <3>1. PICK x \in Nat : x = Len(p)
      BY <1>16, LenProperties
    <3>2. l - o = c /\ c - x = k /\ Len(tty') = o /\ Len(partial') = x
      BY <1>4, <1>5, <1>15, <1>16, <3>1
    <3> QED
      BY <1>2, <3>2 DEF Held, ReadChunk, l
  <2>2. SieveTypeOK'
    <3>1. phase' \in {"open", "ended", "finished"} /\ (phase' = "finished" => partial' = <<>>)
      BY <1>2, <1>4
    <3>2. \A s \in {tty', partial', written'} : s \in Seq(Bytes)
      BY <1>2, <1>4, <1>5, <1>16
    <3>3. pieces' \in Seq([mark : MarkKinds \cup {NoMark}, bytes : Seq(Bytes)])
      BY <1>16 DEF Pieces
    <3> QED
      BY <3>1, <3>2, <3>3 DEF SieveTypeOK
  <2>3. partial' = Part(written, Held, ReadChunk)'
    BY <1>2, <1>16, <2>1 DEF Part
  <2>4. tty' = Part(written, ReadChunk, Len(written))'
    BY <1>2, <1>5, <2>1 DEF Part
  <2>5. PiecesInv(g)'
    BY <1>2, <1>16, <2>1 DEF PiecesInv
  <2>6. \E d : PiecesInv(d)'
    BY <2>5
  <2>7. Spells(written', phase' = "open") /\ (~SplitsNewline => Undivided(written', Held'))
    BY <1>2, <1>6, <1>16, <2>1 DEF open
  <2>8. Held' >= 0 /\ \A i \in 1..Len(partial') : partial'[i] # "nl"
    BY <1>16, <2>1
  <2> QED
    BY <2>2, <2>3, <2>4, <2>6, <2>7, <2>8 DEF SieveInv
<1>17. CASE ~Released(rest)
  <2>1. m + Len(rest) = c
    BY <1>5, <1>10, <1>14
  <2> QED
    BY <1>3, <1>10, <1>11, <1>12, <1>13, <1>14, <1>16, <1>17, <2>1
<1>18. CASE Released(rest)
  <2> DEFINE r == rs \o <<Piece(NoMark, rest)>>
  <2>1. /\ r \in Seq(Pieces)
        /\ \E g : /\ Cover(g, 0, r, written) /\ g[Len(r)] = c
                  /\ FoundBy(f, m, rs, written) => FoundBy(g, c, r, written)
    <3>1. NoMark \in MarkKinds \cup {NoMark}
      OBVIOUS
    <3> QED
      <4>1. FoundThen(written, m, c, rs, f, r)
        BY <1>10, <1>11, <1>12, <1>19, <3>1, TailGoesOut
      <4> QED
        BY <4>1 DEF FoundThen
  <2> HIDE DEF r
  <2>2. PICK g : /\ Cover(g, 0, r, written) /\ g[Len(r)] = c
                 /\ FoundBy(f, m, rs, written) => FoundBy(g, c, r, written)
    BY <2>1
  <2>3. ~SplitsNewline => Undivided(written, c)
    <3>1. ASSUME ~SplitsNewline PROVE Undivided(written, c)
      <4>1. ~(c < l /\ written[c] = "cr" /\ written[c + 1] = "nl")
        BY <1>3, <1>5, <3>1
      <4>2. Undivided(written, m)
        BY <1>13, <3>1
      <4>3. ~CouldBecomeMarker(Part(written, m, c))
        BY <1>10, <1>18 DEF Released
      <4> QED
        BY <1>4, <1>5, <1>6, <1>10, <4>1, <4>2, <4>3, ReleasedIsWhole DEF l
    <3> QED
      BY <3>1
  <2>4. <<>> \in Seq(Bytes) /\ Len(<<>>) = 0 /\ c + 0 = c /\ \A i \in 1..0 : <<>>[i] # "nl"
    BY <1>5, EmptySeq
  <2>5. <<>> = Part(written, c, c)
    BY <1>5, SubSeqEmpty DEF Part
  <2>6. pieces' = r /\ partial' = <<>>
    BY <1>3, <1>18 DEF r
  <2> QED
    BY <1>5, <1>13, <1>16, <2>1, <2>2, <2>3, <2>4, <2>5, <2>6
<1> QED
  BY <1>17, <1>18

\* The end of the stream: what is held goes out.
LEMMA FinishKeeps ==
  ASSUME SieveInv, FinishSieve
  PROVE  SieveInv'
<1> DEFINE h == Held
           l == Len(written)
           k == MarkerOf(partial)
           r == pieces \o <<Piece(k, partial)>>
           open == phase = "open"
<1>1. /\ phase = "ended" /\ tty = <<>> /\ tty' = <<>> /\ written' = written
      /\ partial' = <<>> /\ phase' = "finished"
      /\ partial = <<>> => pieces' = pieces
      /\ partial # <<>> => pieces' = Append(pieces, Piece(k, partial))
  BY DEF FinishSieve
<1>2. /\ written \in Seq(Bytes) /\ partial \in Seq(Bytes) /\ l \in Nat /\ h \in Nat
      /\ pieces \in Seq(Pieces) /\ Len(partial) \in Nat
      /\ ReadChunk = h + Len(partial) /\ ReadChunk + Len(tty) = l
  BY SieveFacts
<1>3. Len(tty) = 0 /\ ReadChunk = l /\ h + Len(partial) = l
  <2>1. Len(tty) = 0
    BY <1>1, EmptySeq
  <2> QED
    BY <1>2, <2>1
<1>4. /\ partial = Part(written, h, l) /\ Spells(written, open)
      /\ \A i \in 1..Len(partial) : partial[i] # "nl"
  BY <1>3 DEF SieveInv
<1>5. PICK e : PiecesInv(e)
  BY DEF SieveInv
<1>6. /\ Cover(e, 0, pieces, written) /\ e[Len(pieces)] = h
      /\ ~SplitsNewline => FoundBy(e, h, pieces, written)
  BY <1>5 DEF PiecesInv
<1>7. ~open
  BY <1>1
<1>8. k \in MarkKinds \cup {NoMark}
  BY <1>2, MarkerIsOfAState
<1>9. Append(pieces, Piece(k, partial)) = r
  <2>1. Piece(k, partial) \in Pieces
    BY <1>2, <1>8 DEF Piece, Pieces
  <2> QED
    BY <1>2, <2>1, AppendIsConcat
<1> HIDE DEF h, l, k, r, open
<1>10. Held' = l /\ ReadChunk' = l
  <2>1. Len(tty') = 0 /\ Len(partial') = 0 /\ Len(written') = l
    BY <1>1, EmptySeq DEF l
  <2> QED
    BY <1>2, <2>1 DEF Held, ReadChunk
<1>11. \A x \in Nat : h < x /\ x <= l => written[x] # "nl"
  <2>1. \A i \in 1..(l - h) : Part(written, h, l)[i] = written[h + i]
    BY <1>2, <1>3, Slice DEF Part, l
  <2>2. ASSUME NEW x \in Nat, h < x, x <= l PROVE written[x] # "nl"
    <3>1. x - h \in 1..(l - h) /\ h + (x - h) = x /\ l - h = Len(partial)
      BY <1>2, <1>3, <2>2
    <3> QED
      BY <1>4, <2>1, <3>1
  <2> QED
    BY <2>2
<1>12. pieces' \in Seq(Pieces) /\ \E g : PiecesInv(g)'
  <2>1. CASE partial = <<>>
    <3>1. h = l
      BY <1>2, <1>3, <2>1, EmptySeq
    <3> QED
      BY <1>1, <1>2, <1>6, <1>10, <2>1, <3>1 DEF PiecesInv
  <2>2. CASE partial # <<>>
    <3>1. h <= l
      BY <1>2, <1>3
    <3>2. /\ r \in Seq(Pieces)
          /\ \E g : /\ Cover(g, 0, r, written) /\ g[Len(r)] = l
                    /\ FoundBy(e, h, pieces, written) => FoundBy(g, l, r, written)
      <4>1. l <= Len(written) /\ written \in Seq(Bytes) /\ l \in Nat /\ h \in Nat /\ pieces \in Seq(Pieces)
        BY <1>2 DEF l
      <4> QED
        <5>1. FoundThen(written, h, l, pieces, e, r)
          BY <1>4, <1>6, <1>8, <1>11, <3>1, <4>1, TailGoesOut DEF r
        <5> QED
          BY <5>1 DEF FoundThen
    <3>3. PICK g : /\ Cover(g, 0, r, written) /\ g[Len(r)] = l
                   /\ FoundBy(e, h, pieces, written) => FoundBy(g, l, r, written)
      BY <3>2
    <3>4. pieces' = r
      BY <1>1, <1>9, <2>2
    <3>5. PiecesInv(g)'
      BY <1>1, <1>6, <1>10, <3>3, <3>4 DEF PiecesInv
    <3> QED
      BY <3>2, <3>4, <3>5
  <2> QED
    BY <2>1, <2>2
<1>13. SieveTypeOK'
  <2>1. <<>> \in Seq(Bytes)
    BY EmptySeq
  <2>2. \A s \in {tty', partial', written'} : s \in Seq(Bytes)
    BY <1>1, <1>2, <2>1
  <2>3. pieces' \in Seq([mark : MarkKinds \cup {NoMark}, bytes : Seq(Bytes)])
    BY <1>12 DEF Pieces
  <2> QED
    BY <1>1, <2>2, <2>3 DEF SieveTypeOK
<1>14. /\ partial' = Part(written, Held, ReadChunk)'
       /\ tty' = Part(written, ReadChunk, Len(written))'
  <2>1. Part(written, l, l) = <<>>
    BY <1>2, SubSeqEmpty DEF Part
  <2>2. Part(written, Held, ReadChunk)' = <<>> /\ Part(written, ReadChunk, Len(written))' = <<>>
    BY <1>1, <1>10, <2>1 DEF Part, l
  <2> QED
    BY <1>1, <2>2
<1>15. \A i \in 1..Len(partial') : partial'[i] # "nl"
  BY <1>1, EmptySeq
<1>16. Spells(written', phase' = "open")
  <2>1. (phase = "open") = FALSE /\ (phase' = "open") = FALSE
    BY <1>1
  <2>2. Spells(written, phase = "open")
    BY <1>4 DEF open
  <2> QED
    BY <1>1, <2>1, <2>2
<1>17. Held' >= 0
  BY <1>2, <1>10
<1> QED
  BY <1>1, <1>12, <1>13, <1>14, <1>15, <1>16, <1>17 DEF SieveInv

\* Every step keeps the invariant.
LEMMA SieveKeeps ==
  ASSUME SieveInv, [SieveNext]_sieveVars
  PROVE  SieveInv'
<1> USE WhatIsWritten
<1>1. CASE Output
  <2>1. phase = "open" /\ phase' = "open" /\ (Write(NewLine) \/ \E b \in OutText : Write(<<b>>))
    BY <1>1 DEF Output
  <2>2. CASE Write(NewLine)
    BY <2>1, <2>2, WriteKeeps
  <2>3. ASSUME NEW b \in OutText, Write(<<b>>) PROVE SieveInv'
    BY <2>1, <2>3, WriteKeeps
  <2> QED
    BY <2>1, <2>2, <2>3
<1>2. CASE EchoMarker
  <2>1. PICK k \in MarkKinds : Write(Echo(k))
    BY <1>2 DEF EchoMarker
  <2>2. phase = "open" /\ phase' = "open"
    BY <1>2 DEF EchoMarker
  <2> QED
    BY <2>1, <2>2, WriteKeeps
<1>3. CASE KilledInEcho
  <2>1. PICK k \in MarkKinds, n \in 0..Longest : Write(SubSeq(Echo(k), 1, n))
    BY <1>3 DEF KilledInEcho
  <2>2. phase = "open" /\ phase' = "ended"
    BY <1>3 DEF KilledInEcho
  <2>3. SubSeq(Echo(k), 1, n) \in Seq(Bytes) /\ Spells(SubSeq(Echo(k), 1, n), phase' = "open")
    <3>1. (phase' = "open") = FALSE
      BY <2>2
    <3> QED
      BY <3>1
  <2> QED
    BY <2>1, <2>2, <2>3, WriteKeeps
<1>4. CASE FeedSieve
  BY <1>4, FeedKeeps
<1>5. CASE FinishSieve
  BY <1>5, FinishKeeps
<1>6. CASE UNCHANGED sieveVars
  <2>1. phase' = phase /\ tty' = tty /\ partial' = partial /\ pieces' = pieces /\ written' = written
    BY <1>6 DEF sieveVars
  <2>2. Held' = Held /\ ReadChunk' = ReadChunk
    BY <2>1 DEF Held, ReadChunk
  <2>3. SieveTypeOK'
    <3>1. SieveTypeOK
      BY DEF SieveInv
    <3> QED
      BY <2>1, <3>1 DEF SieveTypeOK
  <2>4. \E e : PiecesInv(e)'
    <3>1. PICK e : PiecesInv(e)
      BY DEF SieveInv
    <3>2. PiecesInv(e)'
      BY <2>1, <2>2, <3>1 DEF PiecesInv
    <3> QED
      BY <3>2
  <2>5. /\ Part(written, Held, ReadChunk)' = Part(written, Held, ReadChunk)
        /\ Part(written, ReadChunk, Len(written))' = Part(written, ReadChunk, Len(written))
    BY <2>1, <2>2 DEF Part
  <2> QED
    BY <2>1, <2>2, <2>3, <2>4, <2>5 DEF SieveInv
<1> QED
  BY <1>1, <1>2, <1>3, <1>4, <1>5, <1>6 DEF SieveNext

\* What the sieve keeps, whatever the terminal says and however the reads fall.
THEOREM SieveInvariant == SieveSpec => []SieveInv
<1>1. SieveInit => SieveInv
  BY SieveBegins
<1>2. SieveInv /\ [SieveNext]_sieveVars => SieveInv'
  BY SieveKeeps
<1> QED
  BY <1>1, <1>2, PTL DEF SieveSpec

\* The pieces are the written bytes as far as they reach.
LEMMA PiecesAreSlices ==
  ASSUME SieveInv, NEW e, PiecesInv(e)
  PROVE  /\ FlattenSeq([i \in DOMAIN pieces |-> pieces[i].bytes]) = Part(written, 0, Held)
         /\ \A j \in 1..Len(pieces) : Reaches(j) = e[j]
<1> DEFINE n == Len(pieces)
           parts == [i \in DOMAIN pieces |-> pieces[i].bytes]
<1>1. /\ written \in Seq(Bytes) /\ pieces \in Seq(Pieces) /\ n \in Nat /\ Len(written) \in Nat
  BY SieveFacts
<1>2. DOMAIN pieces = 1..n
  BY <1>1
<1>3. /\ e \in [0..n -> 0..Len(written)] /\ e[0] = 0 /\ e[n] = Held
      /\ \A j \in 1..n : /\ e[j - 1] <= e[j]
                         /\ pieces[j].bytes = SubSeq(written, e[j - 1] + 1, e[j])
  BY DEF PiecesInv, Cover
<1> HIDE DEF n
<1>4. Len(parts) = n /\ \A j \in 1..n : parts[j] = pieces[j].bytes
  BY <1>1, <1>2
<1>5. n = 0 => parts = <<>>
  BY <1>2
<1> HIDE DEF parts
<1>6. CutAt(e, parts, written)
  BY <1>3, <1>4 DEF CutAt
<1>7. FlattenSeq(parts) = SubSeq(written, 1, e[Len(parts)])
  BY <1>1, <1>4, <1>5, <1>6, PartsMakeTheWhole
<1>8. FlattenSeq(parts) = Part(written, 0, Held)
  <2>1. 0 + 1 = 1
    OBVIOUS
  <2> QED
    BY <1>3, <1>4, <1>7, <2>1 DEF Part
<1>9. ASSUME NEW j \in 1..n PROVE Reaches(j) = e[j]
  <2>1. j \in 0..n /\ j \in Nat /\ e[j] \in Nat /\ e[j] <= Len(written)
    BY <1>1, <1>3, <1>9
  <2>2. FlattenSeq([i \in 1..j |-> parts[i]]) = SubSeq(written, 1, e[j])
    <3>1. Len(parts) \in Nat /\ j \in 0..Len(parts) /\ written \in Seq(Bytes)
      BY <1>1, <1>4, <2>1
    <3>2. FlattenSeq(FirstParts(parts, j)) = SubSeq(written, 1, e[j])
      BY <1>6, <3>1, PartsSoFar
    <3> QED
      BY <3>2 DEF FirstParts
  <2>3. [i \in 1..j |-> parts[i]] = [i \in 1..j |-> pieces[i].bytes]
    <3>1. \A i \in 1..j : i \in 1..n
      BY <1>1, <1>9
    <3> QED
      BY <1>4, <3>1
  <2>4. Len(SubSeq(written, 1, e[j])) = e[j]
    <3>1. \A a \in Nat : a <= e[j] => Len(SubSeq(written, a + 1, e[j])) = e[j] - a
      BY <1>1, <2>1, Slice
    <3>2. 0 \in Nat /\ 0 <= e[j] /\ e[j] - 0 = e[j] /\ 0 + 1 = 1
      BY <2>1
    <3>3. Len(SubSeq(written, 0 + 1, e[j])) = e[j] - 0
      BY <3>1, <3>2
    <3> QED
      BY <3>2, <3>3
  <2> QED
    BY <2>2, <2>3, <2>4 DEF Reaches
<1> QED
  BY <1>8, <1>9 DEF n, parts

\* NothingLostOrTwice: Sieve::feed and Sieve::finish put every byte of the
\* terminal into one piece, in order, wherever a read ends.
THEOREM NothingIsLostOrTwice == SieveSpec => []NothingLostOrTwice
<1>1. SieveInv => NothingLostOrTwice
  <2> SUFFICES ASSUME SieveInv PROVE NothingLostOrTwice
    OBVIOUS
  <2>1. PICK e : PiecesInv(e)
    BY DEF SieveInv
  <2> DEFINE all == FlattenSeq([i \in DOMAIN pieces |-> pieces[i].bytes])
  <2>2. all = Part(written, 0, Held)
    BY <2>1, PiecesAreSlices
  <2> HIDE DEF all
  <2>3. /\ written \in Seq(Bytes) /\ Held \in Nat /\ ReadChunk \in Nat /\ Len(written) \in Nat
        /\ Held <= ReadChunk /\ ReadChunk <= Len(written)
    <3>1. /\ written \in Seq(Bytes) /\ Held \in Nat /\ ReadChunk \in Nat /\ Len(written) \in Nat
          /\ Len(partial) \in Nat /\ Len(tty) \in Nat
          /\ ReadChunk = Held + Len(partial) /\ ReadChunk + Len(tty) = Len(written)
      BY SieveFacts
    <3> QED
      BY <3>1
  <2>4. partial = Part(written, Held, ReadChunk) /\ tty = Part(written, ReadChunk, Len(written))
    BY DEF SieveInv
  <2> DEFINE h == Held
             r == ReadChunk
             l == Len(written)
  <2> HIDE DEF h, r, l
  <2>5. \A x, y, z \in Nat : x <= y /\ y <= z /\ z <= l =>
          Part(written, x, y) \o Part(written, y, z) = Part(written, x, z)
    BY <2>3, PartsMeet DEF l
  <2>6. h \in Nat /\ r \in Nat /\ l \in Nat /\ 0 <= h /\ h <= r /\ 0 <= r /\ r <= l /\ l <= l
    BY <2>3 DEF h, r, l
  <2>7. all \o partial = Part(written, 0, r)
    BY <2>2, <2>4, <2>5, <2>6 DEF h, r
  <2>8. (all \o partial) \o tty = Part(written, 0, l)
    <3>1. Part(written, 0, r) \o Part(written, r, l) = Part(written, 0, l)
      <4>1. 0 \in Nat
        OBVIOUS
      <4> QED
        BY <2>5, <2>6, <4>1
    <3>2. tty = Part(written, r, l)
      BY <2>4 DEF r, l
    <3> QED
      BY <2>7, <3>1, <3>2
  <2>9. Part(written, 0, l) = written
    <3>1. \A s \in Seq(Bytes) : SubSeq(s, 1, Len(s)) = s
      BY SubSeqFull
    <3>2. 0 + 1 = 1
      OBVIOUS
    <3> QED
      BY <2>3, <3>1, <3>2 DEF Part, l
  <2> QED
    BY <2>8, <2>9 DEF NothingLostOrTwice, all
<1> QED
  BY <1>1, SieveInvariant, PTL

\* MarkersAreFound: marker_of finds each marker of the script that is on a line
\* of its own, where no read ends between the two bytes of a newline.
THEOREM EveryMarkerIsFound ==
  ASSUME ~SplitsNewline
  PROVE  SieveSpec => []MarkersAreFound
<1>1. SieveInv => MarkersAreFound
  <2> SUFFICES ASSUME SieveInv, NEW i \in Echoes, AtStart(i), i + 3 <= ReadChunk
               PROVE  Found(i)
    BY DEF MarkersAreFound
  <2>1. PICK e : PiecesInv(e)
    BY DEF SieveInv
  <2>2. FoundBy(e, Held, pieces, written) /\ \A j \in 1..Len(pieces) : Reaches(j) = e[j]
    BY <2>1, PiecesAreSlices DEF PiecesInv
  <2>3. /\ written \in Seq(Bytes) /\ Held \in Nat /\ ReadChunk \in Nat /\ Len(written) \in Nat
        /\ pieces \in Seq(Pieces) /\ Len(partial) \in Nat /\ ReadChunk = Held + Len(partial)
        /\ Len(tty) \in Nat /\ ReadChunk + Len(tty) = Len(written)
    BY SieveFacts
  <2>4. /\ i \in 1..Len(written) /\ i + 3 <= Len(written) /\ i + 1 <= Len(written)
        /\ i + 2 <= Len(written) /\ written[i + 1] \in MarkKinds
    BY <2>3 DEF Echoes
  <2>5. MarkAt(written, i)
    BY <2>4 DEF MarkAt, AtStart
  <2>6. written[i + 3] = "nl"
    <3>1. Spells(written, phase = "open")
      BY DEF SieveInv
    <3> QED
      BY <2>3, <2>4, <3>1, EchoIsSpelt
  <2>7. i + 3 <= Held
    <3> SUFFICES ASSUME ~(i + 3 <= Held) PROVE FALSE
      OBVIOUS
    <3> DEFINE h == Held
               c == ReadChunk
    <3>1. \A q \in 1..(c - h) : Part(written, h, c)[q] = written[h + q]
      <4>1. h <= c /\ c <= Len(written)
        BY <2>3
      <4> QED
        BY <2>3, <4>1, Slice DEF Part
    <3>2. partial = Part(written, h, c) /\ \A x \in 1..Len(partial) : partial[x] # "nl"
      BY DEF SieveInv
    <3> HIDE DEF h, c
    <3>3. /\ (i + 3) - h \in 1..(c - h) /\ h + ((i + 3) - h) = i + 3 /\ c - h = Len(partial)
      <4>1. h \in Nat /\ c \in Nat /\ i \in Nat /\ ~(i + 3 <= h) /\ i + 3 <= c
            /\ c = h + Len(partial) /\ Len(partial) \in Nat
        BY <2>3, <2>4 DEF h, c
      <4> QED
        BY <4>1
    <3> QED
      BY <2>6, <3>1, <3>2, <3>3
  <2>8. PICK j \in 1..Len(pieces) : e[j] = i + 3 /\ pieces[j].mark = written[i + 1]
    BY <2>2, <2>4, <2>5, <2>7 DEF FoundBy
  <2>9. j \in DOMAIN pieces /\ Reaches(j) = i + 3
    BY <2>2, <2>3, <2>8
  <2> QED
    BY <2>8, <2>9 DEF Found
<1> QED
  BY <1>1, SieveInvariant, PTL

=============================================================================
