---------------------------- MODULE UnlockProofs ----------------------------
(***************************************************************************)
(* Proofs about the way to an open vault, for any processes, callers and   *)
(* waits, and any passwords, epochs and jobs.  VaultLockout: a wrong       *)
(* password is never forgotten, the wait it costs is served, and only a    *)
(* success of its own ends what a process has armed.  Credentials: a wait  *)
(* ends, a vault opens only when it was asked for, and what was set is     *)
(* what is used.                                                           *)
(***************************************************************************)
EXTENDS VaultLockout, Credentials, FiniteSetTheorems, TLAPS

---------------------------------------------------------------------------
\* A shift of one by an attempt's number is a number: there are as many
\* subsets of 1..n.
LEMMA PowerIsNat == ASSUME NEW n \in Nat PROVE 2^n \in Nat
<1>1. Cardinality(1..n) = n /\ IsFiniteSet(1..n)
  BY FS_Interval
<1> QED
  BY <1>1, FS_SUBSET, FS_CardinalityType, Zenon

\* The wait that attempts cost is never longer than the hard lockout.
LEMMA WaitIsBounded ==
  ASSUME NEW n \in Nat
  PROVE  Wait(n) \in 0..HardWait
<1>1. Free \in Nat /\ Hard \in Nat /\ Cap \in Nat /\ HardWait \in Nat /\ Cap <= HardWait
  BY LockoutAssumption
<1>2. CASE n >= Hard
  BY <1>1, <1>2 DEF Wait
<1>3. CASE ~(n >= Hard) /\ n >= Free
  <2>1. n - Free \in Nat
    BY <1>1, <1>3
  <2>2. 2^(n - Free) \in Nat
    BY <2>1, PowerIsNat
  <2> QED
    BY <1>1, <1>3, <2>2 DEF Wait, Least
<1>4. CASE ~(n >= Hard) /\ ~(n >= Free)
  BY <1>1, <1>4 DEF Wait
<1> QED
  BY <1>2, <1>3, <1>4

---------------------------------------------------------------------------
Counts == [n : Nat, until : Nat, loaded : BOOLEAN]
Records == [n : Nat, until : Nat, none : BOOLEAN]
Stages == {"idle", "check", "attempt", "derive", "wrong", "right"}

\* The values of the lockout's variables.
LockoutTypeOK ==
  /\ mem \in [Procs -> Counts]
  /\ keyring \in Records /\ beside \in Records
  /\ call \in [Callers -> [pc : Stages, at : Nat]]
  /\ now \in Nat /\ tries \in Nat /\ wrong \in Nat /\ last \in Nat
  /\ excused \subseteq {"lost", "crossed"}

\* A deadline moved out is a number no less than the one before, and than the
\* wait that its attempts cost.
LEMMA AnchoredCounts ==
  ASSUME NEW m \in Counts, NEW t \in Nat
  PROVE  /\ Anchored(m, t) \in Counts
         /\ Anchored(m, t).n = m.n /\ Anchored(m, t).loaded = m.loaded
         /\ Anchored(m, t).until >= m.until
         /\ Wait(m.n) > 0 => Anchored(m, t).until >= t + Wait(m.n)
         /\ Anchored(m, t).until <= t + HardWait \/ Anchored(m, t).until = m.until
<1>1. m.n \in Nat /\ m.until \in Nat
  BY DEF Counts
<1>2. Wait(m.n) \in 0..HardWait /\ HardWait \in Nat
  BY <1>1, WaitIsBounded, LockoutAssumption
<1>3. Deadline(m.n, t) \in Nat /\ Deadline(m.n, t) <= t + HardWait
  BY <1>2 DEF Deadline
<1>4. Wait(m.n) > 0 => Deadline(m.n, t) = t + Wait(m.n)
  BY <1>2 DEF Deadline
<1> QED
  BY <1>1, <1>2, <1>3, <1>4 DEF Anchored, Greatest, Counts

Recorded(m) == [n |-> m.n, until |-> m.until, none |-> FALSE]

\* What a save leaves of the two records: each is the one before or the new
\* one, and the new one if no write was lost.
LEMMA SavedRecords ==
  ASSUME LockoutTypeOK, NEW m \in Counts, SaveAttempts(m)
  PROVE  /\ Recorded(m) \in Records /\ keyring' \in Records /\ beside' \in Records
         /\ keyring' \in {keyring, Recorded(m)} /\ beside' \in {beside, Recorded(m)}
         /\ excused' \subseteq {"lost", "crossed"}
         /\ excused' = {} => excused = {} /\ keyring' = Recorded(m) /\ beside' = Recorded(m)
<1>1. Recorded(m) \in Records
  BY DEF Counts, Records, Recorded
<1> QED
  BY <1>1 DEF SaveAttempts, LockoutTypeOK, Recorded

\* What a process loads is one of the two records.
LEMMA LoadedCounts ==
  ASSUME LockoutTypeOK
  PROVE  /\ LoadedAttempts \in Counts
         /\ LoadedAttempts.loaded
         /\ \/ LoadedAttempts.n = keyring.n /\ LoadedAttempts.until = keyring.until
            \/ LoadedAttempts.n = beside.n /\ LoadedAttempts.until = beside.until
BY DEF LoadedAttempts, LockoutTypeOK, Counts, Records

---------------------------------------------------------------------------
\* The lockout starts with its types.
LEMMA LockoutTypeInit == LockoutInit => LockoutTypeOK
BY LockoutAssumption DEF LockoutInit, LockoutTypeOK, NoRecord, Counts, Records, Stages

\* Every call of the lockout keeps the types.
LEMMA LockoutTypeStep ==
  ASSUME LockoutTypeOK, [LockoutNext]_lockoutVars
  PROVE  LockoutTypeOK'
<1> USE LockoutAssumption DEF LockoutTypeOK, Stages, Where
<1>1. ASSUME NEW c \in Callers, Begin(c) PROVE LockoutTypeOK'
  BY <1>1, LoadedCounts DEF Begin, Crossed
<1>2. ASSUME NEW c \in Callers, CheckLockout(c) PROVE LockoutTypeOK'
  BY <1>2 DEF CheckLockout
<1>3. ASSUME NEW c \in Callers, OnAttempt(c) PROVE LockoutTypeOK'
  <2> DEFINE p == Home[c]
             m == Anchored([mem[p] EXCEPT !.n = @ + 1], call[c].at)
  <2>1. [mem[p] EXCEPT !.n = @ + 1] \in Counts /\ call[c].at \in Nat
    BY DEF Counts
  <2>2. m \in Counts
    BY <2>1, AnchoredCounts
  <2>3. SaveAttempts(m) /\ mem' = [mem EXCEPT ![p] = m]
    BY <1>3 DEF OnAttempt
  <2>8. keyring' \in Records /\ beside' \in Records /\ excused' \subseteq {"lost", "crossed"}
    BY <2>2, <2>3, SavedRecords
  <2>9. mem' \in [Procs -> Counts]
    BY <2>2, <2>3
  <2> QED
    BY <1>3, <2>8, <2>9 DEF OnAttempt
<1>4. ASSUME NEW c \in Callers, Derive(c) PROVE LockoutTypeOK'
  BY <1>4 DEF Derive
<1>5. ASSUME NEW c \in Callers, OnSuccess(c) PROVE LockoutTypeOK'
  <2> DEFINE p == Home[c]
             m == [mem[p] EXCEPT !.n = 0, !.until = 0]
  <2>1. m \in Counts
    BY ZenonT(40) DEF Counts
  <2>2. SaveAttempts(m) /\ mem' = [mem EXCEPT ![p] = m]
    BY <1>5 DEF OnSuccess
  <2>8. keyring' \in Records /\ beside' \in Records /\ excused' \subseteq {"lost", "crossed"}
    BY <2>1, <2>2, SavedRecords
  <2>9. mem' \in [Procs -> Counts]
    BY <2>1, <2>2
  <2> QED
    BY <1>5, <2>8, <2>9 DEF OnSuccess
<1>6. ASSUME NEW c \in Callers, OnFailureRecorded(c) PROVE LockoutTypeOK'
  <2> DEFINE p == Home[c]
             m == Anchored(mem[p], now)
  <2>1. m \in Counts
    BY AnchoredCounts
  <2>2. SaveAttempts(m) /\ mem' = [mem EXCEPT ![p] = m]
    BY <1>6 DEF OnFailureRecorded
  <2>8. keyring' \in Records /\ beside' \in Records /\ excused' \subseteq {"lost", "crossed"}
    BY <2>1, <2>2, SavedRecords
  <2>9. mem' \in [Procs -> Counts]
    BY <2>1, <2>2
  <2> QED
    BY <1>6, <2>8, <2>9 DEF OnFailureRecorded
<1>7. ASSUME NEW p \in Procs, KillProcess(p) PROVE LockoutTypeOK'
  BY <1>7 DEF KillProcess, Counts
<1>8. CASE Clock
  BY <1>8 DEF Clock, Later, SetBack
<1>9. CASE UNCHANGED lockoutVars
  BY <1>9 DEF lockoutVars
<1> QED
  BY <1>1, <1>2, <1>3, <1>4, <1>5, <1>6, <1>7, <1>8, <1>9 DEF LockoutNext

\* The lockout's variables keep their types.
THEOREM LockoutTypeCorrect == LockoutSpec => []LockoutTypeOK
BY LockoutTypeInit, LockoutTypeStep, PTL DEF LockoutSpec

---------------------------------------------------------------------------
Waits(c) == call[c].pc # "idle"

\* What holds for as long as no write was lost and no two callers or processes
\* met: the two records are the same, they count every attempt since the last
\* success, the process that has them loaded agrees with them, and a caller that
\* may derive a key has waited until their deadline.
Agreement ==
  /\ keyring = beside /\ keyring.n = tries
  /\ Wait(tries) > 0 => keyring.until >= last + Wait(tries)
  /\ \A p \in Procs : mem[p].loaded => mem[p].n = tries /\ mem[p].until = keyring.until
  /\ \A p, q \in Procs : mem[p].loaded /\ mem[q].loaded => p = q
  /\ \A c \in Callers : Waits(c) => mem[Home[c]].loaded
  /\ \A c, d \in Callers : Waits(c) /\ Waits(d) => c = d
  /\ \A c \in Callers : call[c].pc = "attempt" => call[c].at >= keyring.until

Bookkept == wrong <= tries /\ (excused = {} => Agreement)

\* What a process loads while the two records agree.
LEMMA LoadsWhatIsAgreed ==
  ASSUME LockoutTypeOK, Agreement
  PROVE  LoadedAttempts = [n |-> tries, until |-> keyring.until, loaded |-> TRUE]
BY DEF LoadedAttempts, Agreement

\* A save of the one process that has the records loaded keeps them agreed.
LEMMA SaveAgrees ==
  ASSUME LockoutTypeOK, Agreement, NEW c \in Callers, Waits(c), NEW m \in Counts,
         SaveAttempts(m), mem' = [mem EXCEPT ![Home[c]] = m], m.n = tries', m.loaded,
         excused' = {}
  PROVE  /\ keyring' = beside' /\ keyring'.n = tries' /\ keyring'.until = m.until
         /\ \A p \in Procs : mem'[p].loaded => mem'[p].n = tries' /\ mem'[p].until = keyring'.until
         /\ \A p, q \in Procs : mem'[p].loaded /\ mem'[q].loaded => p = q
         /\ mem'[Home[c]].loaded
<1>1. keyring' = Recorded(m) /\ beside' = Recorded(m)
  BY SavedRecords
<1>2. Home[c] \in Procs /\ mem[Home[c]].loaded
  BY LockoutAssumption DEF Agreement
<1>3. \A p \in Procs : mem'[p].loaded => p = Home[c]
  BY <1>2 DEF Agreement, LockoutTypeOK
<1>4. mem'[Home[c]] = m
  BY <1>2 DEF LockoutTypeOK
<1> QED
  BY <1>1, <1>3, <1>4 DEF Recorded

\* Every step keeps the record of the lockout true to what it was told.
LEMMA BookkeptStep ==
  ASSUME LockoutTypeOK, Bookkept, [LockoutNext]_lockoutVars
  PROVE  Bookkept'
<1>0. /\ Home \in [Callers -> Procs] /\ {Free, Hard, Cap, HardWait} \subseteq Nat
      /\ 0 < Free /\ Free <= Hard
  BY LockoutAssumption
<1>00. Wait(0) = 0
  BY <1>0 DEF Wait
<1>1. ASSUME NEW c \in Callers, Begin(c) PROVE Bookkept'
  <2> SUFFICES ASSUME excused' = {} PROVE Agreement'
    BY <1>1 DEF Begin, Bookkept
  <2>1. Agreement /\ ~Crossed(c)
    BY <1>1 DEF Begin, Bookkept
  <2>2. \A d \in Callers : ~Waits(d)
    BY <1>0, <1>1, <2>1 DEF Begin, Crossed, Waits, Agreement
  <2>3. \A p \in Procs : mem[p].loaded => p = Home[c]
    BY <2>1 DEF Crossed
  <2>4. /\ mem'[Home[c]].loaded /\ mem'[Home[c]].n = tries
        /\ mem'[Home[c]].until = keyring.until
        /\ \A p \in Procs : mem'[p].loaded => p = Home[c]
    BY <1>0, <1>1, <2>1, <2>3, LoadsWhatIsAgreed DEF Begin, Agreement, LockoutTypeOK
  <2>5. \A d \in Callers : Waits(d)' => d = c /\ call'[d] = [pc |-> "check", at |-> now]
    BY <1>1, <2>2 DEF Begin, Waits, LockoutTypeOK
  <2> QED
    BY <1>1, <2>1, <2>4, <2>5 DEF Begin, Agreement, Waits
<1>2. ASSUME NEW c \in Callers, CheckLockout(c) PROVE Bookkept'
  <2> SUFFICES ASSUME excused' = {} PROVE Agreement'
    BY <1>2 DEF CheckLockout, Bookkept
  <2>1. Agreement /\ Waits(c) /\ mem[Home[c]].loaded /\ Home[c] \in Procs
    BY <1>0, <1>2 DEF CheckLockout, Bookkept, Waits, Agreement
  <2>2. /\ mem[Home[c]].until = keyring.until
        /\ \A d \in Callers : Waits(d) => d = c
    BY <1>2, <2>1 DEF CheckLockout, Agreement
  <2>3. \A d \in Callers : Waits(d)' =>
          d = c /\ call'[d].pc = "attempt" /\ call'[d].at = call[c].at /\ call[c].at >= keyring.until
    BY <1>2, <2>2 DEF CheckLockout, Where, Waits, LockoutTypeOK, Counts, Records
  <2> QED
    BY <1>2, <2>1, <2>2, <2>3 DEF CheckLockout, Agreement, Waits
<1>3. ASSUME NEW c \in Callers, OnAttempt(c) PROVE Bookkept'
  <2> DEFINE k == [mem[Home[c]] EXCEPT !.n = @ + 1]
             m == Anchored(k, call[c].at)
  <2> SUFFICES ASSUME excused' = {} PROVE Agreement'
    BY <1>3 DEF OnAttempt, Bookkept, LockoutTypeOK
  <2>1. k \in Counts /\ call[c].at \in Nat /\ Home[c] \in Procs
    BY <1>0 DEF LockoutTypeOK, Counts
  <2>2. m \in Counts /\ SaveAttempts(m) /\ mem' = [mem EXCEPT ![Home[c]] = m]
    BY <1>3, <2>1, AnchoredCounts DEF OnAttempt
  <2>3. Agreement /\ Waits(c)
    BY <1>3, <2>2, SavedRecords DEF OnAttempt, Bookkept, Waits
  <2>4. mem[Home[c]].n = tries /\ mem[Home[c]].loaded
    BY <2>1, <2>3 DEF Agreement
  <2>5. /\ m.n = tries' /\ m.loaded
        /\ Wait(tries') > 0 => m.until >= last' + Wait(tries')
    <3>1. k.n = tries' /\ k.loaded /\ last' = call[c].at
      BY <1>3, <2>1, <2>4 DEF OnAttempt, LockoutTypeOK
    <3> QED
      BY <2>1, <3>1, AnchoredCounts
  <2>6. /\ keyring' = beside' /\ keyring'.n = tries' /\ keyring'.until = m.until
        /\ \A p \in Procs : mem'[p].loaded => mem'[p].n = tries' /\ mem'[p].until = keyring'.until
        /\ \A p, q \in Procs : mem'[p].loaded /\ mem'[q].loaded => p = q
        /\ mem'[Home[c]].loaded
    BY <2>2, <2>3, <2>5, SaveAgrees
  <2>7. \A d \in Callers : Waits(d)' => d = c /\ call'[d].pc = "derive"
    BY <1>3, <2>3 DEF OnAttempt, Where, Waits, Agreement, LockoutTypeOK
  <2> QED
    BY <2>5, <2>6, <2>7 DEF Agreement, Waits
<1>4. ASSUME NEW c \in Callers, Derive(c) PROVE Bookkept'
  <2>1. wrong' <= tries'
    BY <1>4 DEF Derive, Bookkept, LockoutTypeOK
  <2> SUFFICES ASSUME excused' = {} PROVE Agreement'
    BY <2>1 DEF Bookkept
  <2>2. Agreement /\ Waits(c)
    BY <1>4 DEF Derive, Bookkept, Waits
  <2>3. \A d \in Callers : Waits(d)' => d = c /\ call'[d].pc \in {"wrong", "right"}
    BY <1>4, <2>2 DEF Derive, Where, Waits, Agreement, LockoutTypeOK
  <2> QED
    BY <1>4, <2>2, <2>3 DEF Derive, Agreement, Waits
<1>5. ASSUME NEW c \in Callers, OnSuccess(c) PROVE Bookkept'
  <2> DEFINE m == [mem[Home[c]] EXCEPT !.n = 0, !.until = 0]
  <2> SUFFICES ASSUME excused' = {} PROVE Agreement'
    BY <1>5 DEF OnSuccess, Bookkept
  <2>1. Home[c] \in Procs /\ m \in Counts /\ m.n = tries'
    BY ZenonT(40), <1>0, <1>5 DEF LockoutTypeOK, Counts, OnSuccess
  <2>2. SaveAttempts(m) /\ mem' = [mem EXCEPT ![Home[c]] = m]
    BY <1>5 DEF OnSuccess
  <2>3. Agreement /\ Waits(c)
    BY <1>5, <2>1, <2>2, SavedRecords DEF OnSuccess, Bookkept, Waits
  <2>4. m.loaded
    BY <2>1, <2>3 DEF Agreement, LockoutTypeOK, Counts
  <2>5. /\ keyring' = beside' /\ keyring'.n = tries' /\ keyring'.until = m.until
        /\ \A p \in Procs : mem'[p].loaded => mem'[p].n = tries' /\ mem'[p].until = keyring'.until
        /\ \A p, q \in Procs : mem'[p].loaded /\ mem'[q].loaded => p = q
    BY <2>1, <2>2, <2>3, <2>4, SaveAgrees
  <2>6. \A d \in Callers : ~Waits(d)'
    BY <1>5, <2>3 DEF OnSuccess, Where, Waits, Agreement, LockoutTypeOK
  <2>7. tries' = 0
    BY <1>5 DEF OnSuccess
  <2> QED
    BY <1>00, <2>5, <2>6, <2>7 DEF Agreement, Waits
<1>6. ASSUME NEW c \in Callers, OnFailureRecorded(c) PROVE Bookkept'
  <2> DEFINE m == Anchored(mem[Home[c]], now)
  <2> SUFFICES ASSUME excused' = {} PROVE Agreement'
    BY <1>6 DEF OnFailureRecorded, Bookkept
  <2>1. Home[c] \in Procs /\ mem[Home[c]] \in Counts /\ now \in Nat
    BY <1>0 DEF LockoutTypeOK
  <2>2. m \in Counts /\ SaveAttempts(m) /\ mem' = [mem EXCEPT ![Home[c]] = m]
    BY <1>6, <2>1, AnchoredCounts DEF OnFailureRecorded
  <2>3. Agreement /\ Waits(c)
    BY <1>6, <2>2, SavedRecords DEF OnFailureRecorded, Bookkept, Waits
  <2>4. mem[Home[c]].n = tries /\ mem[Home[c]].loaded
    BY <2>1, <2>3 DEF Agreement
  <2>5. /\ m.n = tries' /\ m.loaded
        /\ Wait(tries') > 0 => m.until >= last' + Wait(tries')
    <3>1. last' = now /\ tries' = tries
      BY <1>6 DEF OnFailureRecorded
    <3> QED
      BY <2>1, <2>4, <3>1, AnchoredCounts
  <2>6. /\ keyring' = beside' /\ keyring'.n = tries' /\ keyring'.until = m.until
        /\ \A p \in Procs : mem'[p].loaded => mem'[p].n = tries' /\ mem'[p].until = keyring'.until
        /\ \A p, q \in Procs : mem'[p].loaded /\ mem'[q].loaded => p = q
    BY <2>2, <2>3, <2>5, SaveAgrees
  <2>7. \A d \in Callers : ~Waits(d)'
    BY <1>6, <2>3 DEF OnFailureRecorded, Where, Waits, Agreement, LockoutTypeOK
  <2> QED
    BY <2>5, <2>6, <2>7 DEF Agreement, Waits
<1>7. ASSUME NEW p \in Procs, KillProcess(p) PROVE Bookkept'
  <2> SUFFICES ASSUME excused' = {} PROVE Agreement'
    BY <1>7 DEF KillProcess, Bookkept
  <2>1. Agreement
    BY <1>7 DEF KillProcess, Bookkept
  <2>2. \A q \in Procs : ~mem'[q].loaded
    BY <1>7, <2>1 DEF KillProcess, Agreement, LockoutTypeOK
  <2>3. \A d \in Callers : ~Waits(d)'
    BY <1>0, <1>7, <2>1 DEF KillProcess, Agreement, Waits, LockoutTypeOK
  <2> QED
    BY <1>7, <2>1, <2>2, <2>3 DEF KillProcess, Agreement, Waits
<1>8. CASE Clock
  BY <1>8 DEF Clock, Later, SetBack, Bookkept, Agreement, Waits, LockoutTypeOK
<1>9. CASE UNCHANGED lockoutVars
  BY <1>9 DEF lockoutVars, Bookkept, Agreement, Waits
<1> QED
  BY <1>1, <1>2, <1>3, <1>4, <1>5, <1>6, <1>7, <1>8, <1>9 DEF LockoutNext

\* The records count what happened for as long as they are kept.
THEOREM TheBooksAgree == LockoutSpec => []Bookkept
<1>1. LockoutInit => Bookkept
  <2>1. Wait(0) = 0 /\ Home \in [Callers -> Procs]
    BY LockoutAssumption DEF Wait
  <2> QED
    BY <2>1 DEF LockoutInit, Bookkept, Agreement, NoRecord, Waits
<1> QED
  BY <1>1, BookkeptStep, LockoutTypeCorrect, PTL DEF LockoutSpec

\* A wrong password is counted by whatever process opens the vault next, killed
\* ones or not: on_attempt writes the attempt before the key is derived, so what
\* a later process loads has every one since the last success.
THEOREM KillingForgivesNothing == LockoutSpec => []KilledIsNotForgiven
<1>1. LockoutTypeOK /\ Bookkept => KilledIsNotForgiven
  BY LoadsWhatIsAgreed DEF KilledIsNotForgiven, Bookkept, Agreement, LockoutTypeOK
<1> QED
  BY <1>1, TheBooksAgree, LockoutTypeCorrect, PTL

\* No key is derived before the wait that the attempts before have earned is
\* over: check_lockout compares the time the caller read with a deadline that
\* every record has, and that every save has only moved out.
THEOREM TheWaitIsServed == LockoutSpec => WaitIsServed
<1>1. ASSUME LockoutTypeOK, Bookkept,
             NEW c \in Callers, call[c].pc = "attempt", excused = {}, Wait(tries) > 0
      PROVE  call[c].at >= last + Wait(tries)
  <2>1. call[c].at >= keyring.until /\ keyring.until >= last + Wait(tries)
    BY <1>1 DEF Bookkept, Agreement
  <2>2. Wait(tries) \in 0..HardWait /\ HardWait \in Nat
    BY <1>1, WaitIsBounded, LockoutAssumption DEF LockoutTypeOK
  <2> QED
    BY <1>1, <2>1, <2>2 DEF LockoutTypeOK, Records
<1>2. LockoutTypeOK /\ Bookkept =>
        [\A c \in Callers :
           call[c].pc = "attempt" /\ call'[c].pc = "derive" /\ excused = {} /\ Wait(tries) > 0
             => call[c].at >= last + Wait(tries)]_lockoutVars
  BY <1>1
<1> QED
  BY <1>2, TheBooksAgree, LockoutTypeCorrect, PTL DEF WaitIsServed

\* What a process has counted and the wait it has armed go down only by a success
\* of its own: an attempt and a failure count and move the deadline out or leave
\* them, a process loads the records once, and no clock, kill or save of another
\* process reaches what it has in memory.
THEOREM WaitsEndBySuccess == LockoutSpec => OnlySuccessEndsWait
<1>1. ASSUME LockoutTypeOK, LockoutNext, NEW p \in Procs,
             mem[p].loaded, mem'[p].loaded,
             mem'[p].n < mem[p].n \/ mem'[p].until < mem[p].until
      PROVE  \E c \in Callers : Home[c] = p /\ call[c].pc = "right" /\ call'[c].pc = "idle"
  <2> USE <1>1
  <2>0. /\ Home \in [Callers -> Procs] /\ mem[p] \in Counts
        /\ mem[p].n \in Nat /\ mem[p].until \in Nat
    BY LockoutAssumption DEF LockoutTypeOK, Counts
  <2>1. mem' # mem
    BY <2>0
  <2>2. ASSUME NEW c \in Callers, Begin(c) PROVE FALSE
    <3>1. mem[Home[c]].loaded => UNCHANGED mem
      BY <2>2 DEF Begin
    <3>2. ~mem[Home[c]].loaded => mem'[p] = mem[p]
      BY <2>0, <2>2 DEF Begin, LockoutTypeOK
    <3> QED
      BY <2>0, <2>1, <3>1, <3>2
  <2>3. ASSUME NEW c \in Callers, OnAttempt(c) PROVE FALSE
    <3> DEFINE k == [mem[p] EXCEPT !.n = @ + 1]
    <3>1. Home[c] = p /\ mem'[p] = Anchored(k, call[c].at)
      BY <2>0, <2>3 DEF OnAttempt, LockoutTypeOK, Counts
    <3>2. k \in Counts /\ k.until = mem[p].until /\ k.n = mem[p].n + 1 /\ call[c].at \in Nat
      BY <2>0 DEF LockoutTypeOK, Counts
    <3>3. /\ Anchored(k, call[c].at) \in Counts
          /\ Anchored(k, call[c].at).until >= k.until /\ Anchored(k, call[c].at).n = k.n
      BY <3>2, AnchoredCounts
    <3> QED
      BY <2>0, <3>1, <3>2, <3>3 DEF Counts
  <2>4. ASSUME NEW c \in Callers, OnFailureRecorded(c) PROVE FALSE
    <3>1. Home[c] = p /\ mem'[p] = Anchored(mem[p], now)
      BY <2>0, <2>4 DEF OnFailureRecorded, LockoutTypeOK, Counts
    <3>2. /\ Anchored(mem[p], now) \in Counts
          /\ Anchored(mem[p], now).until >= mem[p].until /\ Anchored(mem[p], now).n = mem[p].n
      BY <2>0, AnchoredCounts DEF LockoutTypeOK
    <3> QED
      BY <2>0, <3>1, <3>2 DEF Counts
  <2>5. ASSUME NEW c \in Callers, OnSuccess(c)
        PROVE  Home[c] = p /\ call[c].pc = "right" /\ call'[c].pc = "idle"
    BY <2>0, <2>5 DEF OnSuccess, Where, LockoutTypeOK, Counts
  <2>6. ASSUME NEW q \in Procs, KillProcess(q) PROVE FALSE
    <3>1. p # q
      BY <2>0, <2>6 DEF KillProcess, LockoutTypeOK
    <3> QED
      BY <2>0, <2>6, <3>1 DEF KillProcess, LockoutTypeOK
  <2> QED
    BY <2>1, <2>2, <2>3, <2>4, <2>5, <2>6 DEF LockoutNext, CheckLockout, Derive, Clock
<1>2. LockoutTypeOK /\ [LockoutNext]_lockoutVars =>
        [\A p \in Procs :
           /\ mem[p].loaded /\ mem'[p].loaded
           /\ mem'[p].n < mem[p].n \/ mem'[p].until < mem[p].until
           => \E c \in Callers : Home[c] = p /\ call[c].pc = "right" /\ call'[c].pc = "idle"]_lockoutVars
  BY <1>1
<1> QED
  BY <1>1, <1>2, LockoutTypeCorrect, PTL DEF LockoutSpec, OnlySuccessEndsWait

---------------------------------------------------------------------------
\* The job that a state waits for.
Awaits(s) ==
  CASE s = "touch" -> "touch" [] s = "verify" -> "unlock" [] s = "in flight" -> "create"
    [] OTHER -> "none"

OfVault(j) == j.kind # "lookup"

\* The epoch tells the one job that is waited for from all that were given up.
EpochInv ==
  /\ \A j \in jobs : j.epoch <= IF OfVault(j) THEN epoch ELSE pepoch
  /\ \A j \in jobs : j.ok => j.stage = "done"
  /\ \A j \in jobs : OfVault(j) /\ Current(j) =>
       j.kind = Awaits(state) \/ (j.kind = "rotate" /\ state \in {"locked", "unlocked"})
  /\ \A j, k \in jobs : OfVault(j) /\ Current(j) /\ OfVault(k) /\ Current(k) => j = k
  /\ Awaits(state) # "none" => \E j \in jobs : j.kind = Awaits(state) /\ Current(j)

\* What the operator asked for, and whether there is a vault to ask for.
AskedInv ==
  /\ state \in {"touch", "prompt", "verify", "in flight"} => asked
  /\ state \in {"touch", "prompt", "verify", "unlocked"} => hasVault
  /\ NoCreationOverVault
  /\ \A j \in jobs : j.kind = "rotate" => hasVault

\* What the stores, the panel and the jobs hold, while nothing has touched them
\* that a difference can be blamed on.
Calm == excuse \subseteq {"unasked"}
StoreInv ==
  Calm =>
    /\ ring = want /\ panel.pw \in {NoPw, want}
    /\ hasVault => vfile = want
    /\ state = "unlocked" => held = want
    /\ ~hasVault /\ vfile # NoFile => \E j \in jobs : j.kind = "create" /\ j.ok
    /\ \A j \in jobs :
         /\ j.kind = "create" => Current(j)
         /\ j.kind \in {"touch", "unlock"} /\ Current(j) /\ j.ok => j.read = want
         /\ j.kind = "rotate" /\ j.stage = "write" => j.read = want
         /\ j.kind = "lookup" /\ j.epoch = pepoch => j.read \in {NoPw, want}

CredInv == EpochInv /\ AskedInv /\ StoreInv

---------------------------------------------------------------------------
JobsOK == jobs \subseteq AllJobs /\ IsFiniteSet(jobs) /\ Cardinality(jobs) <= MaxJobs

\* A job that starts is one of the kinds.
LEMMA NewJobs ==
  ASSUME NEW kind \in {"touch", "unlock", "create", "rotate", "lookup"}, NEW e \in Nat
  PROVE  /\ Job(kind, e) \in AllJobs /\ Job(kind, e).kind = kind /\ Job(kind, e).epoch = e
         /\ ~Job(kind, e).ok /\ Job(kind, e).stage = "start" /\ Job(kind, e).read = NoPw
BY DEF Job, AllJobs, Maybe

\* A job starts where there is room.
LEMMA SpawnTypes ==
  ASSUME JobsOK, NEW j \in AllJobs, Spawn(j)
  PROVE  JobsOK' /\ jobs' = jobs \cup {j}
<1>1. Cardinality(jobs) \in Nat
  BY FS_CardinalityType DEF JobsOK
<1>2. IsFiniteSet(jobs \cup {j})
      /\ Cardinality(jobs \cup {j}) = IF j \in jobs THEN Cardinality(jobs) ELSE Cardinality(jobs) + 1
  BY FS_AddElement DEF JobsOK
<1> QED
  BY <1>1, <1>2, CredAssumption DEF Spawn, JobsOK

\* A job is answered.
LEMMA AnswerTypes ==
  ASSUME JobsOK, NEW j, Answer(j)
  PROVE  JobsOK' /\ jobs' = jobs \ {j} /\ j \in jobs /\ j \in AllJobs /\ j.stage = "done"
<1>1. IsFiniteSet(jobs \ {j}) /\ Cardinality(jobs \ {j}) <= Cardinality(jobs)
  <2>1. jobs \ {j} \subseteq jobs
    OBVIOUS
  <2> QED
    BY <2>1, FS_Subset DEF JobsOK
<1>2. Cardinality(jobs) \in Nat /\ Cardinality(jobs \ {j}) \in Nat
  BY <1>1, FS_CardinalityType DEF JobsOK
<1> QED
  BY <1>1, <1>2, CredAssumption DEF Answer, JobsOK

\* A job moves on.
LEMMA SettleTypes ==
  ASSUME JobsOK, NEW j \in jobs, NEW k \in AllJobs, Settle(j, k)
  PROVE  JobsOK' /\ jobs' = (jobs \ {j}) \cup {k}
<1> DEFINE rest == jobs \ {j}
<1>1. IsFiniteSet(rest) /\ Cardinality(rest) = Cardinality(jobs) - 1
  BY FS_RemoveElement DEF JobsOK
<1>2. IsFiniteSet(rest \cup {k})
      /\ Cardinality(rest \cup {k}) = IF k \in rest THEN Cardinality(rest) ELSE Cardinality(rest) + 1
  BY <1>1, FS_AddElement
<1>3. Cardinality(jobs) \in Nat /\ Cardinality(rest) \in Nat
  BY <1>1, FS_CardinalityType DEF JobsOK
<1> HIDE DEF rest
<1>4. Cardinality(rest \cup {k}) <= MaxJobs /\ jobs' = rest \cup {k} /\ rest \subseteq AllJobs
  BY <1>1, <1>2, <1>3, CredAssumption DEF Settle, JobsOK, rest
<1> QED
  BY <1>2, <1>4 DEF JobsOK, rest

---------------------------------------------------------------------------
\* What a job does off the loop: it becomes one that is further on.
Further(j, k) ==
  \/ /\ j.kind \in {"touch", "unlock"} /\ vfile' = vfile /\ excuse' = excuse
     /\ k.ok => k.read = vfile /\ vfile # NoFile
  \/ /\ j.kind = "create" /\ vfile' = vfile /\ excuse' = excuse /\ ~k.ok
  \/ /\ j.kind = "create" /\ vfile = NoFile /\ vfile' = NoPw
     /\ excuse' = excuse \/ excuse' = excuse \cup {"given up"}
     /\ (\A i \in jobs' : i.kind = "create" => ~i.ok) => "given up" \in excuse'
  \/ /\ j.kind = "rotate" /\ k.stage = "write" /\ vfile # NoFile /\ k.read = vfile
     /\ vfile' = vfile /\ excuse' = excuse /\ ~k.ok
  \/ /\ j.kind = "rotate" /\ k.stage = "done" /\ excuse' = excuse
     /\ vfile' = vfile \/ (j.stage = "write" /\ vfile' = j.read)
  \/ /\ j.kind = "lookup" /\ k.read = ring /\ vfile' = vfile /\ excuse' = excuse

\* A job runs on: what it does to the vault file and to itself.
LEMMA RunSteps ==
  ASSUME CredTypeOK, EpochInv, NEW j \in jobs, Run(j)
  PROVE  \E k \in AllJobs :
           /\ jobs' = (jobs \ {j}) \cup {k} /\ JobsOK'
           /\ k.kind = j.kind /\ k.epoch = j.epoch /\ (k.ok => k.stage = "done")
           /\ UNCHANGED <<state, hasVault, epoch, pepoch, held, ring, panel, manager, want, asked>>
           /\ Further(j, k) /\ ~j.ok
<1>0. /\ j \in AllJobs /\ JobsOK /\ (j.ok => j.stage = "done")
      /\ vfile \in Maybe \cup {NoFile} /\ ring \in Maybe /\ NoPw \in Maybe
      /\ j.read \in Maybe /\ j.ok \in BOOLEAN
      /\ vfile # NoFile => vfile \in Maybe
  <2>1. j \in AllJobs /\ j.read \in Maybe /\ j.ok \in BOOLEAN
    BY DEF CredTypeOK, AllJobs
  <2> QED
    BY <2>1 DEF CredTypeOK, EpochInv, JobsOK, Maybe
<1>1. UNCHANGED <<state, hasVault, epoch, pepoch, held, ring, panel, manager, want, asked>>
  BY DEF Run, history
<1>8. ~j.ok
  BY <1>0 DEF Run
<1>2. ASSUME NEW st \in {"write", "done"}, NEW r \in Maybe, NEW b \in BOOLEAN,
             Settle(j, [j EXCEPT !.stage = st, !.read = r, !.ok = b]),
             b => st = "done",
             \A k \in AllJobs : k.kind = j.kind /\ k.stage = st /\ k.read = r /\ k.ok = b /\ k \in jobs' =>
               Further(j, k)
      PROVE  \E k \in AllJobs :
               /\ jobs' = (jobs \ {j}) \cup {k} /\ JobsOK'
               /\ k.kind = j.kind /\ k.epoch = j.epoch /\ (k.ok => k.stage = "done")
               /\ Further(j, k)
  <2>1. PICK k : k = [j EXCEPT !.stage = st, !.read = r, !.ok = b]
    OBVIOUS
  <2>2. k \in AllJobs /\ k.kind = j.kind /\ k.epoch = j.epoch /\ k.stage = st /\ k.read = r /\ k.ok = b
    BY <1>0, <1>2, <2>1 DEF AllJobs
  <2>3. JobsOK' /\ jobs' = (jobs \ {j}) \cup {k}
    BY <1>0, <1>2, <2>1, <2>2, SettleTypes
  <2> QED
    BY <1>2, <2>2, <2>3
<1>3. CASE j.kind \in {"touch", "unlock"}
  <2>1. CASE vfile # NoFile /\ Settle(j, [j EXCEPT !.stage = "done", !.read = vfile, !.ok = TRUE])
    BY <1>0, <1>1, <1>2, <1>3, <2>1 DEF Run, history, Further
  <2>2. CASE Settle(j, [j EXCEPT !.stage = "done"])
    <3>1. ~j.ok /\ vfile' = vfile /\ excuse' = excuse
      BY <1>0, <1>3 DEF Run, history
    <3>2. Settle(j, [j EXCEPT !.stage = "done", !.read = j.read, !.ok = j.ok])
      BY <1>0, <2>2 DEF AllJobs
    <3> QED
      BY ZenonT(40), <1>0, <1>1, <1>2, <1>3, <3>1, <3>2 DEF Further
  <2> QED
    BY <1>3, <2>1, <2>2 DEF Run
<1>4. CASE j.kind = "create"
  <2>1. j.stage = "start" /\ ~j.ok
    BY <1>0, <1>4 DEF Run
  <2>2. ASSUME vfile = NoFile, vfile' = NoPw, NEW ok \in BOOLEAN,
               Settle(j, [j EXCEPT !.stage = "done", !.ok = ok])
        PROVE  \E k \in AllJobs :
               /\ jobs' = (jobs \ {j}) \cup {k} /\ JobsOK'
               /\ k.kind = j.kind /\ k.epoch = j.epoch /\ (k.ok => k.stage = "done")
               /\ Further(j, k)
    <3>1. /\ vfile # vfile'
          /\ excuse' = IF vfile # vfile' /\ \A i \in jobs' : i.kind = "create" => ~i.ok
                       THEN excuse \cup {"given up"} ELSE excuse
      BY <1>4, <2>2, CredAssumption DEF Run
    <3>2. Settle(j, [j EXCEPT !.stage = "done", !.read = j.read, !.ok = ok])
      BY <1>0, <2>2 DEF AllJobs
    <3>3. \A k : Further(j, k)
      BY <1>4, <2>2, <3>1 DEF Further
    <3> QED
      BY <1>0, <1>2, <3>2, <3>3
  <2>3. CASE Settle(j, [j EXCEPT !.stage = "done"]) /\ vfile' = vfile
    <3>1. excuse' = excuse
      BY <1>4, <2>3 DEF Run
    <3>2. Settle(j, [j EXCEPT !.stage = "done", !.read = j.read, !.ok = j.ok])
      BY <1>0, <2>3 DEF AllJobs
    <3> QED
      BY <1>0, <1>1, <1>2, <1>4, <2>1, <2>3, <3>1, <3>2 DEF Further
  <2>4. \/ vfile = NoFile /\ vfile' = NoPw
           /\ \E ok \in BOOLEAN : Settle(j, [j EXCEPT !.stage = "done", !.ok = ok])
        \/ Settle(j, [j EXCEPT !.stage = "done"]) /\ vfile' = vfile
    BY <1>4 DEF Run
  <2> QED
    BY <1>1, <1>8, <2>2, <2>3, <2>4
<1>5. CASE j.kind = "rotate" /\ j.stage = "start"
  <2>1. vfile' = vfile /\ excuse' = excuse /\ ~j.ok
    BY <1>0, <1>5 DEF Run, history
  <2>2. CASE vfile # NoFile /\ Settle(j, [j EXCEPT !.stage = "write", !.read = vfile])
    <3>1. Settle(j, [j EXCEPT !.stage = "write", !.read = vfile, !.ok = j.ok])
      BY <1>0, <2>2 DEF AllJobs
    <3> QED
      BY <1>0, <1>1, <1>2, <1>5, <2>1, <2>2, <3>1 DEF Further
  <2>3. CASE Settle(j, [j EXCEPT !.stage = "done"])
    <3>1. Settle(j, [j EXCEPT !.stage = "done", !.read = j.read, !.ok = j.ok])
      BY <1>0, <2>3 DEF AllJobs
    <3> QED
      BY <1>0, <1>1, <1>2, <1>5, <2>1, <3>1 DEF Further
  <2> QED
    BY <1>5, <2>2, <2>3 DEF Run
<1>6. CASE j.kind = "rotate" /\ j.stage = "write"
  <2>1. vfile' = j.read /\ excuse' = excuse
        /\ Settle(j, [j EXCEPT !.stage = "done", !.ok = TRUE])
    BY <1>6 DEF Run, history
  <2>2. Settle(j, [j EXCEPT !.stage = "done", !.read = j.read, !.ok = TRUE])
    BY <1>0, <2>1 DEF AllJobs
  <2> QED
    BY <1>0, <1>1, <1>2, <1>6, <2>1, <2>2 DEF Further
<1>7. CASE j.kind = "lookup"
  <2>1. vfile' = vfile /\ excuse' = excuse
        /\ Settle(j, [j EXCEPT !.stage = "done", !.read = ring, !.ok = TRUE])
    BY <1>7 DEF Run, history
  <2>2. \A k \in AllJobs : k.kind = j.kind /\ k.stage = "done" /\ k.read = ring /\ k.ok = TRUE
                             /\ k \in jobs' => Further(j, k)
    BY <1>7, <2>1 DEF Further
  <2>3. \E k \in AllJobs :
          /\ jobs' = (jobs \ {j}) \cup {k} /\ JobsOK'
          /\ k.kind = j.kind /\ k.epoch = j.epoch /\ (k.ok => k.stage = "done")
          /\ Further(j, k)
    BY <1>0, <1>2, <2>1, <2>2
  <2> QED
    BY <1>1, <1>8, <2>3
<1> QED
  BY <1>1, <1>3, <1>4, <1>5, <1>6, <1>7, <1>8 DEF Run

---------------------------------------------------------------------------
\* Every step keeps the types.
LEMMA TypeStep ==
  ASSUME CredTypeOK, EpochInv, CredNext
  PROVE  CredTypeOK'
<1>0. /\ JobsOK /\ NoPw \in Maybe /\ Pw \subseteq Maybe /\ vfile \in Maybe \cup {NoFile}
      /\ epoch + 1 \in Nat /\ pepoch + 1 \in Nat /\ epoch \in Nat /\ pepoch \in Nat
      /\ {held, ring, want} \subseteq Maybe /\ panel.pw \in Maybe
  <2>1. panel.pw \in Maybe /\ epoch \in Nat /\ pepoch \in Nat
    BY DEF CredTypeOK
  <2>2. JobsOK /\ vfile \in Maybe \cup {NoFile} /\ {held, ring, want} \subseteq Maybe
    BY DEF CredTypeOK, JobsOK
  <2>3. NoPw \in Maybe /\ Pw \subseteq Maybe
    BY DEF Maybe
  <2> QED
    BY <2>1, <2>2, <2>3
<1>1. Idle \in [open : BOOLEAN, draft : Maybe \cup {NoFile}, rotating : BOOLEAN]
  BY DEF Idle
<1>2. CASE BeginUnlock
  <2>1. JobsOK'
    BY <1>0, <1>2, NewJobs, SpawnTypes DEF BeginUnlock, JobsOK
  <2> QED
    BY <1>0, <1>2, <2>1 DEF BeginUnlock, Bumped, CredTypeOK, JobsOK, stores
<1>3. CASE EnterMaster
  <2>1. JobsOK'
    BY <1>0, <1>3, NewJobs, SpawnTypes DEF EnterMaster
  <2> QED
    BY <1>0, <1>3, <2>1 DEF EnterMaster, Bumped, CredTypeOK, JobsOK, stores, history
<1>4. CASE EnterNewMaster
  <2>1. JobsOK'
    BY <1>0, <1>4, NewJobs, SpawnTypes DEF EnterNewMaster
  <2> QED
    BY <1>0, <1>4, <2>1 DEF EnterNewMaster, CredTypeOK, JobsOK, stores
<1>5. CASE Esc
  BY <1>0, <1>5 DEF Esc, Bumped, CredTypeOK, stores
<1>6. CASE OpenSettings
  <2>1. JobsOK'
    BY <1>0, <1>6, NewJobs, SpawnTypes DEF OpenSettings, Look, JobsOK
  <2>2. panel' \in [pw : Maybe, saved : BOOLEAN, lookup : {"not asked", "in flight", "answered"}]
    BY <1>6 DEF OpenSettings, Look, CredTypeOK
  <2> QED
    BY <1>0, <1>1, <1>6, <2>1, <2>2 DEF OpenSettings, CredTypeOK, JobsOK, history
<1>7. CASE EnterUpgradeView
  <2>1. JobsOK'
    BY <1>0, <1>7, NewJobs, SpawnTypes DEF EnterUpgradeView, Look, JobsOK
  <2>2. panel' \in [pw : Maybe, saved : BOOLEAN, lookup : {"not asked", "in flight", "answered"}]
    BY ZenonT(40), <1>0, <1>7 DEF EnterUpgradeView, Look, CredTypeOK, Known
  <2> QED
    BY <1>0, <1>7, <2>1, <2>2 DEF EnterUpgradeView, CredTypeOK, JobsOK, history
<1>8. CASE CloseSettings
  BY ZenonT(40), <1>0, <1>1, <1>8 DEF CloseSettings, CredTypeOK, stores, history
<1>9. CASE EditRow
  BY <1>0, <1>9 DEF EditRow, CredTypeOK, stores, history
<1>10. ASSUME NEW p \in Pw, SavePassword(p) PROVE CredTypeOK'
  <2>1. JobsOK' /\ pepoch' \in Nat /\ hasVault' \in BOOLEAN /\ asked' \in BOOLEAN
    BY <1>0, <1>10 DEF SavePassword, JobsOK, CredTypeOK
  <2>2. {held', ring', want'} \subseteq Maybe /\ vfile' \in Maybe \cup {NoFile}
    BY <1>0, <1>10 DEF SavePassword, Put, PutInVault
  <2>3. panel' \in [pw : Maybe, saved : BOOLEAN, lookup : {"not asked", "in flight", "answered"}]
    BY <1>0, <1>10 DEF SavePassword, CredTypeOK
  <2>4. manager' \in [open : BOOLEAN, draft : Maybe \cup {NoFile}, rotating : BOOLEAN]
    BY <1>10 DEF SavePassword, CredTypeOK
  <2>5. epoch' \in Nat /\ state' \in {"creating", state}
    BY <1>0, <1>10 DEF SavePassword, Offer, Bumped
  <2>6. excuse' \subseteq {"given up", "locked", "rotation", "refused", "unasked"}
    BY <1>10 DEF SavePassword, Put, Unheard, CredTypeOK
  <2> QED
    BY <2>1, <2>2, <2>3, <2>4, <2>5, <2>6 DEF CredTypeOK, JobsOK
<1>11. CASE DeletePassword
  <2>1. JobsOK' /\ pepoch' \in Nat /\ epoch' \in Nat /\ hasVault' \in BOOLEAN /\ asked' \in BOOLEAN
        /\ state' = state
    BY <1>0, <1>11 DEF DeletePassword, JobsOK, CredTypeOK
  <2>2. {held', ring', want'} \subseteq Maybe /\ vfile' \in Maybe \cup {NoFile}
    BY <1>0, <1>11 DEF DeletePassword, PutInVault
  <2>3. panel' \in [pw : Maybe, saved : BOOLEAN, lookup : {"not asked", "in flight", "answered"}]
    BY <1>0, <1>11 DEF DeletePassword
  <2>4. manager' \in [open : BOOLEAN, draft : Maybe \cup {NoFile}, rotating : BOOLEAN]
    BY <1>11 DEF DeletePassword, CredTypeOK
  <2>5. excuse' \subseteq {"given up", "locked", "rotation", "refused", "unasked"}
    BY <1>11 DEF DeletePassword, Unheard, Unasked, CredTypeOK
  <2> QED
    BY <2>1, <2>2, <2>3, <2>4, <2>5 DEF CredTypeOK, JobsOK
<1>12. CASE RotateMaster
  <2>1. JobsOK'
    BY <1>0, <1>12, NewJobs, SpawnTypes DEF RotateMaster
  <2> QED
    BY <1>0, <1>12, <2>1 DEF RotateMaster, Bumped, CredTypeOK, JobsOK, stores, history
<1>13. ASSUME NEW j \in jobs, Run(j) PROVE CredTypeOK'
  <2>1. PICK k \in AllJobs :
          /\ JobsOK'
          /\ UNCHANGED <<state, hasVault, epoch, pepoch, held, ring, panel, manager, want, asked>>
          /\ Further(j, k)
    BY <1>13, RunSteps
  <2>2. j.read \in Maybe
    BY DEF CredTypeOK, AllJobs
  <2>3. vfile' \in Maybe \cup {NoFile}
        /\ excuse' \subseteq {"given up", "locked", "rotation", "refused", "unasked"}
    BY <1>0, <2>1, <2>2 DEF Further, CredTypeOK
  <2> QED
    BY <2>1, <2>3 DEF CredTypeOK, JobsOK
<1>14. ASSUME NEW j \in jobs, AnswerUnlock(j) PROVE CredTypeOK'
  <2>1. JobsOK' /\ j.read \in Maybe
    BY <1>0, <1>14, AnswerTypes DEF AnswerUnlock, AllJobs
  <2>2. panel' \in [pw : Maybe, saved : BOOLEAN, lookup : {"not asked", "in flight", "answered"}]
    <3> DEFINE R == [pw : Maybe, saved : BOOLEAN, lookup : {"not asked", "in flight", "answered"}]
    <3>1. \A v \in Maybe : Loaded(v) \in R
      BY <1>0 DEF Loaded, CredTypeOK
    <3>2. ring \in Maybe /\ panel \in R
      BY <1>0 DEF CredTypeOK
    <3>3. panel' = panel \/ \E v \in Maybe : panel' = Loaded(v)
      BY <1>14, <2>1, <3>2 DEF AnswerUnlock
    <3> HIDE DEF R
    <3>4. panel' \in R
      BY <3>1, <3>2, <3>3
    <3> QED
      BY <3>4 DEF R
  <2> QED
    BY ZenonT(40), <1>0, <1>14, <2>1, <2>2 DEF AnswerUnlock, CredTypeOK, JobsOK
<1>15. ASSUME NEW j \in jobs, AnswerCreate(j) PROVE CredTypeOK'
  <2>1. JobsOK' /\ Seed \in Maybe
    BY <1>0, <1>15, AnswerTypes DEF AnswerCreate, Seed
  <2> QED
    BY ZenonT(40), <1>0, <1>15, <2>1 DEF AnswerCreate, CredTypeOK, JobsOK
<1>16. ASSUME NEW j \in jobs, AnswerRotate(j) PROVE CredTypeOK'
  <2>1. JobsOK'
    BY <1>0, <1>16, AnswerTypes DEF AnswerRotate
  <2> QED
    BY <1>0, <1>16, <2>1 DEF AnswerRotate, CredTypeOK, JobsOK, stores
<1>17. ASSUME NEW j \in jobs, AnswerLookup(j) PROVE CredTypeOK'
  <2>1. JobsOK' /\ j.read \in Maybe
    BY <1>0, <1>17, AnswerTypes DEF AnswerLookup, AllJobs
  <2>2. panel' \in [pw : Maybe, saved : BOOLEAN, lookup : {"not asked", "in flight", "answered"}]
    <3>1. (panel.saved \/ j.read # NoPw) \in BOOLEAN
      BY DEF CredTypeOK
    <3> QED
      BY <1>0, <1>17, <2>1, <3>1 DEF AnswerLookup, CredTypeOK
  <2> QED
    BY <1>0, <1>17, <2>1, <2>2 DEF AnswerLookup, CredTypeOK, JobsOK, history
<1>18. CASE Restart
  <2>1. jobs' = {} /\ IsFiniteSet({}) /\ Cardinality({}) = 0 /\ MaxJobs \in Nat
    BY <1>18, FS_EmptySet, CredAssumption DEF Restart
  <2>2. JobsOK'
    BY <2>1 DEF JobsOK
  <2> QED
    BY <1>0, <1>1, <1>18, <2>2 DEF Restart, CredTypeOK, JobsOK
<1> QED
  BY <1>2, <1>3, <1>4, <1>5, <1>6, <1>7, <1>8, <1>9, <1>10, <1>11, <1>12, <1>13, <1>14, <1>15,
     <1>16, <1>17, <1>18 DEF CredNext

---------------------------------------------------------------------------
\* Where nothing is waited for, only a rotation may be current.
LEMMA NothingAwaited ==
  ASSUME CredTypeOK, EpochInv, state \notin {"touch", "verify", "in flight"}
  PROVE  \A j \in jobs : OfVault(j) /\ Current(j) => j.kind = "rotate" /\ state \in {"locked", "unlocked"}
<1>1. \A j \in jobs : j.kind # "none"
  BY DEF CredTypeOK, AllJobs
<1> QED
  BY <1>1 DEF EpochInv, Awaits

\* A new epoch retires all jobs of the vault.
LEMMA AllRetired ==
  ASSUME CredTypeOK, EpochInv, Bumped
  PROVE  /\ epoch \in Nat /\ epoch' = epoch + 1
         /\ \A j \in jobs : j.epoch \in Nat /\ (OfVault(j) => j.epoch <= epoch' /\ j.epoch # epoch')
<1>1. \A j \in jobs : j.epoch \in Nat
  BY DEF CredTypeOK, AllJobs
<1>2. epoch \in Nat /\ epoch' = epoch + 1
  BY DEF CredTypeOK, Bumped
<1>3. \A j \in jobs : OfVault(j) => j.epoch <= epoch
  BY DEF EpochInv
<1> QED
  BY <1>1, <1>2, <1>3

\* A new epoch, and a job that starts in it if one is waited for.
LEMMA NewEpoch ==
  ASSUME CredTypeOK, EpochInv, Bumped, pepoch' = pepoch,
         \/ jobs' = jobs /\ Awaits(state') = "none"
         \/ \E j \in AllJobs :
              /\ jobs' = jobs \cup {j} /\ j.epoch = epoch + 1 /\ ~j.ok /\ OfVault(j)
              /\ \/ j.kind = Awaits(state')
                 \/ j.kind = "rotate" /\ state' \in {"locked", "unlocked"}
  PROVE  EpochInv'
<1>1. /\ epoch \in Nat /\ epoch' = epoch + 1
      /\ \A j \in jobs : j.epoch \in Nat /\ (OfVault(j) => j.epoch <= epoch' /\ j.epoch # epoch')
  BY AllRetired
<1>2. \A j \in jobs : (OfVault(j) \/ j.epoch <= pepoch') /\ (j.ok => j.stage = "done")
  BY DEF EpochInv
<1>3. CASE jobs' = jobs /\ Awaits(state') = "none"
  BY <1>1, <1>2, <1>3 DEF EpochInv, Current, OfVault
<1>4. CASE \E j \in AllJobs :
             /\ jobs' = jobs \cup {j} /\ j.epoch = epoch + 1 /\ ~j.ok /\ OfVault(j)
             /\ \/ j.kind = Awaits(state')
                \/ j.kind = "rotate" /\ state' \in {"locked", "unlocked"}
  <2>1. PICK n \in AllJobs :
             /\ jobs' = jobs \cup {n} /\ n.epoch = epoch + 1 /\ ~n.ok /\ OfVault(n)
             /\ \/ n.kind = Awaits(state')
                \/ n.kind = "rotate" /\ state' \in {"locked", "unlocked"}
    BY <1>4
  <2>2. \A j \in jobs' : OfVault(j) /\ j.epoch = epoch' => j = n
    BY <1>1, <2>1
  <2>3. \A j \in jobs' : (j.epoch <= IF OfVault(j) THEN epoch' ELSE pepoch') /\ (j.ok => j.stage = "done")
    BY <1>1, <1>2, <2>1
  <2>4. Awaits(state') # "none" => n.kind = Awaits(state')
    BY <2>1 DEF Awaits
  <2> QED
    BY <1>1, <2>1, <2>2, <2>3, <2>4 DEF EpochInv, Current, OfVault
<1> QED
  BY <1>3, <1>4

\* A job that ends is not waited for any more.
LEMMA EndedJob ==
  ASSUME EpochInv, NEW j \in jobs, jobs' = jobs \ {j}, epoch' = epoch, pepoch' = pepoch,
         IF OfVault(j) /\ Current(j) /\ j.kind # "rotate" THEN Awaits(state') = "none" ELSE state' = state
  PROVE  EpochInv'
<1>1. CASE OfVault(j) /\ Current(j) /\ j.kind # "rotate"
  BY <1>1 DEF EpochInv, Current, OfVault
<1>2. CASE ~(OfVault(j) /\ Current(j) /\ j.kind # "rotate")
  <2>1. Awaits(state) # "none" => \E k \in jobs' : k.kind = Awaits(state) /\ Current(k)
    BY <1>2 DEF EpochInv, Awaits, OfVault
  <2> QED
    BY <1>2, <2>1 DEF EpochInv, Current, OfVault
<1> QED
  BY <1>1, <1>2

\* The vault epoch still tells what is waited for.
LEMMA EpochStep ==
  ASSUME CredTypeOK, EpochInv, AskedInv, CredNext
  PROVE  EpochInv'
<1>0. JobsOK /\ epoch \in Nat /\ pepoch \in Nat /\ epoch + 1 \in Nat
  <2>1. epoch \in Nat /\ pepoch \in Nat
    BY DEF CredTypeOK
  <2>2. JobsOK
    BY DEF CredTypeOK, JobsOK
  <2> QED
    BY <2>1, <2>2
<1>a. FreeKey => state \in {"locked", "unlocked"}
  BY DEF FreeKey, Waiting, CredTypeOK
<1>2. CASE BeginUnlock
  <2>1. CASE state' = "touch" /\ Spawn(Job("touch", epoch + 1))
    <3>1. jobs' = jobs \cup {Job("touch", epoch + 1)}
      BY <1>0, <2>1, NewJobs, SpawnTypes
    <3> QED
      BY <1>0, <1>2, <2>1, <3>1, NewJobs, NewEpoch DEF BeginUnlock, Awaits, OfVault
  <2>2. CASE state' = "prompt" /\ UNCHANGED jobs
    BY <1>2, <2>2, NewEpoch DEF BeginUnlock, Awaits
  <2> QED
    BY <1>2, <2>1, <2>2 DEF BeginUnlock
<1>3. CASE EnterMaster
  <2>1. jobs' = jobs \cup {Job("unlock", epoch + 1)}
    BY <1>0, <1>3, NewJobs, SpawnTypes DEF EnterMaster
  <2> QED
    BY <1>0, <1>3, <2>1, NewJobs, NewEpoch DEF EnterMaster, Awaits, OfVault
<1>4. CASE EnterNewMaster
  <2>1. jobs' = jobs \cup {Job("create", epoch)}
    BY <1>0, <1>4, NewJobs, SpawnTypes DEF EnterNewMaster
  <2>2. \A j \in jobs : ~(OfVault(j) /\ Current(j))
    BY <1>4, NothingAwaited DEF EnterNewMaster
  <2>3. PICK n : n = Job("create", epoch)
    OBVIOUS
  <2>4. n.kind = "create" /\ n.epoch = epoch /\ ~n.ok
    BY <1>0, <2>3, NewJobs
  <2>5. state' = "in flight" /\ epoch' = epoch /\ pepoch' = pepoch
    BY <1>4 DEF EnterNewMaster
  <2>6. \A j \in jobs' : (j.epoch <= IF OfVault(j) THEN epoch' ELSE pepoch') /\ (j.ok => j.stage = "done")
    <3>1. \A j \in jobs : (j.epoch <= IF OfVault(j) THEN epoch ELSE pepoch) /\ (j.ok => j.stage = "done")
      BY DEF EpochInv
    <3>2. OfVault(n) /\ n.epoch <= epoch'
      <4>1. epoch <= epoch
        BY <1>0
      <4>2. OfVault(n) /\ n.epoch = epoch'
        BY <2>4, <2>5 DEF OfVault
      <4> QED
        BY <2>5, <4>1, <4>2
    <3> QED
      BY <2>1, <2>3, <2>4, <2>5, <3>1, <3>2
  <2>7. \A j \in jobs' : OfVault(j) /\ j.epoch = epoch' => j = n
    BY <2>1, <2>2, <2>3, <2>5 DEF Current
  <2>8. n \in jobs' /\ n.kind = Awaits(state')
    BY <2>1, <2>3, <2>4, <2>5 DEF Awaits
  <2> QED
    BY <2>4, <2>5, <2>6, <2>7, <2>8 DEF EpochInv, Current, OfVault
<1>5. CASE Esc
  <2>1. state' = "locked" /\ jobs' = jobs /\ pepoch' = pepoch
    BY <1>5 DEF Esc
  <2>2. CASE state = "prompt" /\ epoch' = epoch
    <3>1. \A j \in jobs : ~(OfVault(j) /\ Current(j))
      BY <2>2, NothingAwaited
    <3> QED
      BY <2>1, <2>2, <3>1 DEF EpochInv, Current, OfVault, Awaits
  <2>3. CASE Bumped
    BY <2>1, <2>3, NewEpoch DEF Awaits
  <2> QED
    BY <1>5, <2>2, <2>3 DEF Esc
<1>6. ASSUME state' = state, epoch' = epoch, pepoch' = pepoch,
             jobs' = jobs \/ Spawn(Job("lookup", pepoch))
      PROVE  EpochInv'
  <2>1. CASE jobs' = jobs
    BY <1>6, <2>1 DEF EpochInv, Current, OfVault
  <2>2. CASE Spawn(Job("lookup", pepoch))
    <3>1. jobs' = jobs \cup {Job("lookup", pepoch)}
      BY <1>0, <2>2, NewJobs, SpawnTypes
    <3>2. PICK n : n = Job("lookup", pepoch)
      OBVIOUS
    <3>3. n.kind = "lookup" /\ n.epoch = pepoch /\ ~n.ok
      BY <1>0, <3>2, NewJobs
    <3> QED
      BY <1>0, <1>6, <3>1, <3>2, <3>3 DEF EpochInv, Current, OfVault
  <2> QED
    BY <1>6, <2>1, <2>2
<1>7. CASE OpenSettings \/ EnterUpgradeView \/ CloseSettings \/ EditRow
  BY <1>6, <1>7 DEF OpenSettings, EnterUpgradeView, CloseSettings, EditRow, Look
<1>8. ASSUME pepoch' = pepoch + 1, jobs' = jobs,
             (state' = state /\ epoch' = epoch) \/ (state' = "creating" /\ Bumped)
      PROVE  EpochInv'
  <2>1. \A j \in jobs : /\ j.epoch \in Nat /\ (j.ok => j.stage = "done")
                        /\ j.epoch <= IF OfVault(j) THEN epoch ELSE pepoch
    BY DEF EpochInv, CredTypeOK, AllJobs
  <2>2. CASE state' = state /\ epoch' = epoch
    BY <1>0, <1>8, <2>1, <2>2 DEF EpochInv, Current, OfVault
  <2>3. CASE state' = "creating" /\ Bumped
    <3>1. Awaits(state') = "none"
      BY <2>3 DEF Awaits
    <3>2. /\ epoch' = epoch + 1
          /\ \A j \in jobs : OfVault(j) => j.epoch <= epoch' /\ j.epoch # epoch'
      BY <2>3, AllRetired
    <3> QED
      BY <1>0, <1>8, <2>1, <3>1, <3>2 DEF EpochInv, Current, OfVault
  <2> QED
    BY <1>8, <2>2, <2>3
<1>10. ASSUME NEW p \in Pw, SavePassword(p) PROVE EpochInv'
  <2>1. /\ pepoch' = pepoch + 1 /\ jobs' = jobs
        /\ (state' = state /\ epoch' = epoch) \/ (state' = "creating" /\ Bumped)
    BY <1>10 DEF SavePassword, Offer
  <2> QED
    BY <1>8, <2>1
<1>11. CASE DeletePassword
  <2>1. pepoch' = pepoch + 1 /\ jobs' = jobs /\ state' = state /\ epoch' = epoch
    BY <1>11 DEF DeletePassword
  <2> QED
    BY <1>8, <2>1
<1>12. CASE RotateMaster
  <2>1. jobs' = jobs \cup {Job("rotate", epoch + 1)}
    BY <1>0, <1>12, NewJobs, SpawnTypes DEF RotateMaster
  <2>2. state' \in {"locked", "unlocked"}
    BY <1>a, <1>12 DEF RotateMaster
  <2> QED
    BY <1>0, <1>12, <2>1, <2>2, NewJobs, NewEpoch DEF RotateMaster, OfVault
<1>13. ASSUME NEW j \in jobs, Run(j) PROVE EpochInv'
  <2>1. PICK k \in AllJobs :
          /\ jobs' = (jobs \ {j}) \cup {k}
          /\ k.kind = j.kind /\ k.epoch = j.epoch /\ (k.ok => k.stage = "done")
          /\ UNCHANGED <<state, hasVault, epoch, pepoch, held, ring, panel, manager, want, asked>>
    BY <1>13, RunSteps
  <2> QED
    BY <2>1 DEF EpochInv, Current, OfVault
<1>14. ASSUME NEW j \in jobs, AnswerUnlock(j) PROVE EpochInv'
  BY <1>0, <1>14, AnswerTypes, EndedJob DEF AnswerUnlock, OfVault, Awaits
<1>15. ASSUME NEW j \in jobs, AnswerCreate(j) PROVE EpochInv'
  <2>1. Current(j) => state = "in flight" /\ ~hasVault
    BY <1>15 DEF AnswerCreate, EpochInv, AskedInv, NoCreationOverVault, Awaits, OfVault
  <2> QED
    BY <1>0, <1>15, <2>1, AnswerTypes, EndedJob DEF AnswerCreate, OfVault, Awaits
<1>16. ASSUME NEW j \in jobs, AnswerRotate(j) PROVE EpochInv'
  BY <1>0, <1>16, AnswerTypes, EndedJob DEF AnswerRotate
<1>17. ASSUME NEW j \in jobs, AnswerLookup(j) PROVE EpochInv'
  BY <1>0, <1>17, AnswerTypes, EndedJob DEF AnswerLookup, OfVault
<1>18. CASE Restart
  BY <1>18 DEF Restart, EpochInv, Awaits
<1> QED
  BY <1>2, <1>3, <1>4, <1>5, <1>7, <1>10, <1>11, <1>12, <1>13, <1>14, <1>15, <1>16, <1>17, <1>18
     DEF CredNext

\* The operator still wants what is waited for, and a vault is never forgotten.
LEMMA AskedStep ==
  ASSUME CredTypeOK, EpochInv, AskedInv, CredNext
  PROVE  AskedInv'
<1>0. JobsOK /\ epoch \in Nat /\ pepoch \in Nat
  BY DEF CredTypeOK, JobsOK
<1>1. FreeKey => state \in {"locked", "unlocked"}
  BY DEF FreeKey, Waiting, CredTypeOK
<1>2. CASE BeginUnlock
  <2>1. \A j \in jobs' : j.kind = "rotate" => hasVault
    BY <1>2 DEF BeginUnlock
  <2> QED
    BY <1>2, <2>1 DEF BeginUnlock, AskedInv, NoCreationOverVault
<1>3. CASE EnterMaster
  <2>1. hasVault /\ asked
    BY <1>3 DEF EnterMaster, AskedInv
  <2> QED
    BY <1>3, <2>1 DEF EnterMaster, AskedInv, NoCreationOverVault, history
<1>4. CASE EnterNewMaster
  <2>1. jobs' = jobs \cup {Job("create", epoch)} /\ Job("create", epoch).kind = "create"
    BY <1>0, <1>4, NewJobs, SpawnTypes DEF EnterNewMaster
  <2>2. \A j \in jobs' : j.kind = "rotate" => hasVault
    BY <2>1 DEF AskedInv
  <2> QED
    BY <1>4, <2>2 DEF EnterNewMaster, AskedInv, NoCreationOverVault
<1>5. CASE Esc
  BY <1>5 DEF Esc, AskedInv, NoCreationOverVault
<1>6. CASE OpenSettings \/ EnterUpgradeView \/ CloseSettings \/ EditRow
  <2>1. UNCHANGED <<state, hasVault, asked>>
        /\ (jobs' = jobs \/ Spawn(Job("lookup", pepoch)))
    BY <1>6 DEF OpenSettings, EnterUpgradeView, CloseSettings, EditRow, Look, history
  <2>2. \A j \in jobs' : j.kind = "rotate" => hasVault
    <3>1. CASE Spawn(Job("lookup", pepoch))
      <4>1. jobs' = jobs \cup {Job("lookup", pepoch)} /\ Job("lookup", pepoch).kind = "lookup"
        BY <1>0, <3>1, NewJobs, SpawnTypes
      <4> QED
        BY <4>1 DEF AskedInv
    <3> QED
      BY <2>1, <3>1 DEF AskedInv
  <2> QED
    BY <2>1, <2>2 DEF AskedInv, NoCreationOverVault
<1>7. ASSUME NEW p \in Pw, SavePassword(p) PROVE AskedInv'
  BY <1>7 DEF SavePassword, Offer, AskedInv, NoCreationOverVault
<1>8. CASE DeletePassword
  BY <1>8 DEF DeletePassword, AskedInv, NoCreationOverVault
<1>9. CASE RotateMaster
  <2>1. hasVault /\ hasVault' /\ UNCHANGED <<state, asked>>
    BY <1>9 DEF RotateMaster, history
  <2> QED
    BY <2>1 DEF AskedInv, NoCreationOverVault
<1>10. ASSUME NEW j \in jobs, Run(j) PROVE AskedInv'
  <2>1. PICK k \in AllJobs :
          /\ jobs' = (jobs \ {j}) \cup {k} /\ k.kind = j.kind
          /\ UNCHANGED <<state, hasVault, epoch, pepoch, held, ring, panel, manager, want, asked>>
    BY <1>10, RunSteps
  <2> QED
    BY <2>1 DEF AskedInv, NoCreationOverVault
<1>11. ASSUME NEW j \in jobs, AnswerUnlock(j) PROVE AskedInv'
  <2>1. Current(j) => state \in {"touch", "verify"}
    BY <1>11 DEF AnswerUnlock, EpochInv, Awaits, OfVault
  <2>2. jobs' \subseteq jobs
    BY <1>0, <1>11, AnswerTypes DEF AnswerUnlock
  <2> QED
    BY <1>11, <2>1, <2>2 DEF AnswerUnlock, AskedInv, NoCreationOverVault
<1>12. ASSUME NEW j \in jobs, AnswerCreate(j) PROVE AskedInv'
  <2>1. jobs' \subseteq jobs
    BY <1>0, <1>12, AnswerTypes DEF AnswerCreate
  <2> QED
    BY <1>12, <2>1 DEF AnswerCreate, AskedInv, NoCreationOverVault
<1>13. ASSUME NEW j \in jobs, AnswerRotate(j) \/ AnswerLookup(j) PROVE AskedInv'
  <2>1. jobs' \subseteq jobs
    BY <1>0, <1>13, AnswerTypes DEF AnswerRotate, AnswerLookup
  <2>2. UNCHANGED <<state, hasVault, asked>>
    BY <1>13 DEF AnswerRotate, AnswerLookup, history
  <2> QED
    BY <2>1, <2>2 DEF AskedInv, NoCreationOverVault
<1>14. CASE Restart
  BY <1>14 DEF Restart, AskedInv, NoCreationOverVault
<1> QED
  BY <1>2, <1>3, <1>4, <1>5, <1>6, <1>7, <1>8, <1>9, <1>10, <1>11, <1>12, <1>13, <1>14 DEF CredNext

---------------------------------------------------------------------------
\* While all is calm, a creation runs only where it is waited for.
LEMMA NoneCreating ==
  ASSUME CredTypeOK, EpochInv, StoreInv, Calm, state # "in flight"
  PROVE  \A j \in jobs : j.kind # "create"
<1>1. \A j \in jobs : j.kind = "create" => Current(j) /\ OfVault(j)
  BY DEF StoreInv, OfVault
<1> QED
  BY <1>1 DEF EpochInv, Awaits

\* A key that touches no store leaves them as they were; what it starts has read
\* nothing.
LEMMA QuietStep ==
  ASSUME CredTypeOK, EpochInv, StoreInv, Calm' => Calm,
         UNCHANGED <<hasVault, pepoch, held, vfile, ring, want>>, panel'.pw = panel.pw,
         state' = "unlocked" => state = "unlocked",
         jobs \subseteq jobs',
         \A j \in jobs' : j \in jobs \/ (/\ j.stage = "start" /\ j.read = NoPw /\ ~j.ok
                                         /\ (j.kind = "create" => j.epoch = epoch')),
         epoch' = epoch \/ (Bumped /\ (Calm' => state # "in flight"))
  PROVE  StoreInv'
<1> SUFFICES ASSUME Calm' PROVE StoreInv'
  BY DEF StoreInv
<1>1. Calm
  OBVIOUS
<1>2. \A j \in jobs : j.kind = "create" => j.epoch = epoch'
  BY <1>1, NoneCreating DEF StoreInv, Current
<1>3. \A j \in jobs : j.kind \in {"touch", "unlock"} /\ j.epoch = epoch' => Current(j)
  BY AllRetired DEF OfVault, Current
<1>4. \A j \in jobs' :
        /\ j.kind = "create" => j.epoch = epoch'
        /\ j.kind \in {"touch", "unlock"} /\ j.epoch = epoch' /\ j.ok => j.read = want
        /\ j.kind = "rotate" /\ j.stage = "write" => j.read = want
        /\ j.kind = "lookup" /\ j.epoch = pepoch => j.read \in {NoPw, want}
  BY <1>1, <1>2, <1>3 DEF StoreInv
<1>5. ~hasVault /\ vfile # NoFile => \E j \in jobs' : j.kind = "create" /\ j.ok
  BY <1>1 DEF StoreInv
<1> QED
  BY <1>1, <1>4, <1>5 DEF StoreInv, Current

\* Setting a password and taking it away: calm after it only where every store
\* has heard of it.
LEMMA SetStep ==
  ASSUME CredTypeOK, EpochInv, AskedInv, StoreInv, NEW p \in Maybe,
         FreeKey, jobs' = jobs, hasVault' = hasVault, pepoch' = pepoch + 1, want' = p,
         panel'.pw = p, PutInVault(p),
         excuse \cup Unheard \subseteq excuse', "refused" \in excuse' \/ ring' = p,
         (state' = state /\ epoch' = epoch) \/ (state' = "creating" /\ Bumped)
  PROVE  StoreInv'
<1> SUFFICES ASSUME Calm' PROVE StoreInv'
  BY DEF StoreInv
<1>1. Calm /\ ring' = p
  BY DEF Calm
<1>2. /\ hasVault => state = "unlocked"
      /\ \A j \in jobs : j.kind # "rotate"
  BY DEF Calm, Unheard
<1>3. state \in {"locked", "unlocked"}
  BY DEF FreeKey, Waiting, CredTypeOK
<1>4. \A j \in jobs : j.kind # "create"
  BY <1>1, <1>3, NoneCreating
<1>5. \A j \in jobs : j.kind \in {"touch", "unlock"} => j.epoch # epoch'
  BY <1>3, NothingAwaited, AllRetired DEF OfVault, Current
<1>6. \A j \in jobs : j.kind = "lookup" => j.epoch # pepoch'
  <2>1. \A j \in jobs : j.kind = "lookup" => j.epoch \in Nat /\ j.epoch <= pepoch
    BY DEF EpochInv, OfVault, CredTypeOK, AllJobs
  <2>2. pepoch \in Nat
    BY DEF CredTypeOK
  <2> QED
    BY <2>1, <2>2
<1>7. CASE state = "unlocked"
  <2>1. hasVault /\ held = want /\ vfile = want
    BY <1>1, <1>7 DEF StoreInv, AskedInv
  <2>2. held' = p /\ vfile' = p
    BY <1>7, <2>1 DEF PutInVault
  <2> QED
    BY <1>1, <1>2, <1>4, <1>5, <1>6, <2>1, <2>2 DEF StoreInv, Current
<1>8. CASE state # "unlocked"
  <2>1. ~hasVault /\ vfile' = vfile /\ vfile = NoFile
    BY <1>1, <1>2, <1>4, <1>8 DEF PutInVault, StoreInv
  <2>2. state' # "unlocked"
    BY <1>8
  <2> QED
    BY <1>1, <1>2, <1>4, <1>5, <1>6, <2>1, <2>2 DEF StoreInv, Current
<1> QED
  BY <1>7, <1>8

\* A job that runs reads what was set last.
LEMMA RunStore ==
  ASSUME CredTypeOK, EpochInv, AskedInv, StoreInv, NEW j \in jobs, Run(j)
  PROVE  StoreInv'
<1> SUFFICES ASSUME Calm' PROVE StoreInv'
  BY DEF StoreInv
<1>1. PICK k \in AllJobs :
        /\ jobs' = (jobs \ {j}) \cup {k}
        /\ k.kind = j.kind /\ k.epoch = j.epoch /\ (k.ok => k.stage = "done")
        /\ UNCHANGED <<state, hasVault, epoch, pepoch, held, ring, panel, manager, want, asked>>
        /\ Further(j, k) /\ ~j.ok
  BY RunSteps
<1>2. Calm
  BY <1>1 DEF Calm, Further
<1>3. /\ ring = want /\ panel.pw \in {NoPw, want}
      /\ hasVault => vfile = want
      /\ state = "unlocked" => held = want
      /\ \A i \in jobs : i.kind = "create" => Current(i)
  BY <1>2 DEF StoreInv
<1>4. OfVault(j) /\ Current(j) /\ j.kind \in {"touch", "unlock"} => hasVault
  BY DEF EpochInv, AskedInv, Awaits
<1>5. j.kind = "rotate" => hasVault
  BY DEF AskedInv
<1>6. want # NoFile /\ NoPw # NoFile
  BY CredAssumption DEF CredTypeOK, Maybe
<1>7. hasVault => vfile' = want
  BY <1>1, <1>2, <1>3, <1>5, <1>6 DEF Further, StoreInv
<1>8. ~hasVault /\ vfile' # NoFile => \E i \in jobs' : i.kind = "create" /\ i.ok
  <2>1. CASE "given up" \notin excuse' /\ vfile = NoFile
    BY <1>1, <1>5, <2>1 DEF Further
  <2>2. CASE vfile # NoFile
    <3>1. ~hasVault => \E i \in jobs : i.kind = "create" /\ i.ok
      BY <1>2, <2>2 DEF StoreInv
    <3> QED
      BY <1>1, <3>1
  <2>3. "given up" \notin excuse'
    BY DEF Calm
  <2> QED
    BY <2>1, <2>2, <2>3
<1>9. /\ k.kind = "create" => k.epoch = epoch
      /\ k.kind \in {"touch", "unlock"} /\ k.epoch = epoch /\ k.ok => k.read = want
      /\ k.kind = "rotate" /\ k.stage = "write" => k.read = want
      /\ k.kind = "lookup" => k.read = want
  BY <1>1, <1>3, <1>4, <1>5 DEF Further, Current, OfVault
<1>10. \A i \in jobs' :
        /\ i.kind = "create" => i.epoch = epoch
        /\ i.kind \in {"touch", "unlock"} /\ i.epoch = epoch /\ i.ok => i.read = want
        /\ i.kind = "rotate" /\ i.stage = "write" => i.read = want
        /\ i.kind = "lookup" /\ i.epoch = pepoch => i.read \in {NoPw, want}
  BY <1>1, <1>2, <1>9 DEF StoreInv, Current
<1> QED
  BY <1>1, <1>3, <1>7, <1>8, <1>10 DEF StoreInv, Current

\* An answer puts what was set last into the panel and the open vault.
LEMMA AnswerStore ==
  ASSUME CredTypeOK, EpochInv, AskedInv, StoreInv, NEW j \in jobs,
         AnswerUnlock(j) \/ AnswerCreate(j) \/ AnswerRotate(j) \/ AnswerLookup(j)
  PROVE  StoreInv'
<1> SUFFICES ASSUME Calm' PROVE StoreInv'
  BY DEF StoreInv
<1>1. /\ jobs' = jobs \ {j} /\ j \in AllJobs
      /\ UNCHANGED <<epoch, pepoch, ring, want>> /\ excuse \subseteq excuse'
  BY AnswerTypes DEF AnswerUnlock, AnswerCreate, AnswerRotate, AnswerLookup, CredTypeOK, JobsOK,
     stores, history
<1>2. Calm
  BY <1>1 DEF Calm
<1>3. /\ ring = want /\ panel.pw \in {NoPw, want}
      /\ hasVault => vfile = want
      /\ state = "unlocked" => held = want
      /\ ~hasVault /\ vfile # NoFile => \E i \in jobs : i.kind = "create" /\ i.ok
  BY <1>2 DEF StoreInv
<1>4. \A i \in jobs' :
        /\ i.kind = "create" => i.epoch = epoch
        /\ i.kind \in {"touch", "unlock"} /\ i.epoch = epoch /\ i.ok => i.read = want
        /\ i.kind = "rotate" /\ i.stage = "write" => i.read = want
        /\ i.kind = "lookup" /\ i.epoch = pepoch => i.read \in {NoPw, want}
  BY <1>1, <1>2 DEF StoreInv, Current
<1>5. ~(j.kind = "create" /\ j.ok) /\ ~hasVault /\ vfile # NoFile =>
        \E i \in jobs' : i.kind = "create" /\ i.ok
  BY <1>1, <1>3
<1>6. ASSUME hasVault' = hasVault, vfile' = vfile, ~(j.kind = "create" /\ j.ok),
             panel'.pw \in {NoPw, want}, state' = "unlocked" => held' = want
      PROVE  StoreInv'
  BY <1>1, <1>3, <1>4, <1>5, <1>6 DEF StoreInv, Current
<1>7. CASE AnswerUnlock(j)
  <2>1. UNCHANGED <<hasVault, vfile>> /\ j.kind # "create"
    BY <1>7 DEF AnswerUnlock
  <2>2. CASE ~Current(j) \/ ~j.ok
    <3>1. panel' = panel /\ held' = held /\ state' \in {"prompt", state}
      BY <1>7, <2>2 DEF AnswerUnlock
    <3> QED
      BY <1>3, <1>6, <2>1, <3>1
  <2>3. CASE Current(j) /\ j.ok
    <3>1. j.read = want
      BY <1>2, <1>7, <2>3 DEF AnswerUnlock, StoreInv
    <3>2. held' = want /\ panel' = Loaded(IF want # NoPw THEN want ELSE ring)
      BY <1>7, <2>3, <3>1 DEF AnswerUnlock
    <3>3. panel'.pw \in {NoPw, want}
      BY <1>3, <3>2 DEF Loaded, CredTypeOK
    <3> QED
      BY <1>6, <2>1, <3>2, <3>3
  <2> QED
    BY <2>2, <2>3
<1>8. CASE AnswerCreate(j)
  <2>1. Current(j) /\ panel' = panel
    BY <1>2, <1>8 DEF AnswerCreate, StoreInv
  <2>2. CASE j.ok
    <3>1. state' = "unlocked" /\ hasVault'
      BY <1>8, <2>1, <2>2 DEF AnswerCreate
    <3>2. held' = Seed /\ vfile' = Seed
      <4>1. "refused" \notin excuse'
        BY DEF Calm
      <4> QED
        BY <1>8, <2>1, <2>2, <4>1 DEF AnswerCreate
    <3>3. Seed = want
      BY <1>3 DEF Seed
    <3> QED
      BY <1>1, <1>3, <1>4, <2>1, <3>1, <3>2, <3>3 DEF StoreInv, Current
  <2>3. CASE ~j.ok
    <3>1. hasVault' = hasVault /\ vfile' = vfile /\ held' = held /\ state' \in {"creating", state}
      BY <1>8, <2>3 DEF AnswerCreate
    <3> QED
      BY <1>3, <1>6, <2>1, <2>3, <3>1
  <2> QED
    BY <2>2, <2>3
<1>9. CASE AnswerRotate(j)
  <2>1. UNCHANGED <<hasVault, vfile, panel, held, state>> /\ j.kind # "create"
    BY <1>9 DEF AnswerRotate, stores
  <2> QED
    BY <1>3, <1>6, <2>1
<1>10. CASE AnswerLookup(j)
  <2>1. UNCHANGED <<hasVault, vfile, held, state>> /\ j.kind = "lookup"
    BY <1>10 DEF AnswerLookup
  <2>2. j.epoch = pepoch => j.read \in {NoPw, want}
    BY <1>2, <2>1 DEF StoreInv
  <2>3. panel'.pw \in {NoPw, want}
    BY <1>3, <1>10, <2>2 DEF AnswerLookup
  <2> QED
    BY <1>3, <1>6, <2>1, <2>3
<1> QED
  BY <1>7, <1>8, <1>9, <1>10

\* The stores, the panel and the jobs agree on what was set last.
LEMMA StoreStep ==
  ASSUME CredTypeOK, EpochInv, AskedInv, StoreInv, CredNext
  PROVE  StoreInv'
<1>0. JobsOK /\ epoch \in Nat /\ pepoch \in Nat /\ epoch + 1 \in Nat
  <2>1. epoch \in Nat /\ pepoch \in Nat
    BY DEF CredTypeOK
  <2>2. JobsOK
    BY DEF CredTypeOK, JobsOK
  <2> QED
    BY <2>1, <2>2
<1>1. FreeKey => state \in {"locked", "unlocked"}
  BY DEF FreeKey, Waiting, CredTypeOK
<1>2. CASE BeginUnlock
  <2>1. jobs' = jobs \/ jobs' = jobs \cup {Job("touch", epoch + 1)}
    BY <1>0, <1>2, NewJobs, SpawnTypes DEF BeginUnlock
  <2>2. jobs \subseteq jobs' /\ \A j \in jobs' : j \in jobs \/ (/\ j.stage = "start" /\ j.read = NoPw /\ ~j.ok
                                         /\ (j.kind = "create" => j.epoch = epoch'))
    BY <1>0, <2>1, NewJobs
  <2>3. UNCHANGED <<hasVault, pepoch, held, vfile, ring, want, excuse, panel>>
        /\ state' \in {"touch", "prompt"} /\ state # "in flight" /\ Bumped
    BY <1>2 DEF BeginUnlock, stores
  <2> QED
    BY <2>2, <2>3, QuietStep DEF Calm
<1>3. CASE EnterMaster
  <2>1. jobs' = jobs \cup {Job("unlock", epoch + 1)}
    BY <1>0, <1>3, NewJobs, SpawnTypes DEF EnterMaster
  <2>2. jobs \subseteq jobs' /\ \A j \in jobs' : j \in jobs \/ (/\ j.stage = "start" /\ j.read = NoPw /\ ~j.ok
                                         /\ (j.kind = "create" => j.epoch = epoch'))
    BY <1>0, <2>1, NewJobs
  <2>3. UNCHANGED <<hasVault, pepoch, held, vfile, ring, want, excuse, panel>>
        /\ state' = "verify" /\ state # "in flight" /\ Bumped
    BY <1>3 DEF EnterMaster, stores, history
  <2> QED
    BY <2>2, <2>3, QuietStep DEF Calm
<1>4. CASE EnterNewMaster
  <2>1. jobs' = jobs \cup {Job("create", epoch)} /\ epoch' = epoch
    BY <1>0, <1>4, NewJobs, SpawnTypes DEF EnterNewMaster
  <2>2. jobs \subseteq jobs' /\ \A j \in jobs' : j \in jobs \/ (/\ j.stage = "start" /\ j.read = NoPw /\ ~j.ok
                                         /\ (j.kind = "create" => j.epoch = epoch'))
    BY <1>0, <2>1, NewJobs
  <2>3. UNCHANGED <<hasVault, pepoch, held, vfile, ring, want, excuse, panel>>
        /\ state' = "in flight"
    BY <1>4 DEF EnterNewMaster, stores
  <2> QED
    BY <2>1, <2>2, <2>3, QuietStep DEF Calm
<1>5. CASE Esc
  <2>1. UNCHANGED <<hasVault, pepoch, held, vfile, ring, want, panel, jobs>> /\ state' = "locked"
        /\ (epoch' = epoch \/ Bumped) /\ excuse \subseteq excuse'
        /\ (state = "in flight" => "given up" \in excuse')
    BY <1>5 DEF Esc, stores
  <2>2. (Calm' => Calm) /\ (Calm' => state # "in flight")
    BY <2>1 DEF Calm
  <2> QED
    BY <2>1, <2>2, QuietStep
<1>6. ASSUME UNCHANGED <<state, hasVault, epoch, pepoch, held, vfile, ring, want, excuse>>,
             panel'.pw = panel.pw, jobs' = jobs \/ Spawn(Job("lookup", pepoch))
      PROVE  StoreInv'
  <2>1. jobs' = jobs \/ jobs' = jobs \cup {Job("lookup", pepoch)}
    BY <1>0, <1>6, NewJobs, SpawnTypes
  <2>2. jobs \subseteq jobs' /\ \A j \in jobs' : j \in jobs \/ (/\ j.stage = "start" /\ j.read = NoPw /\ ~j.ok
                                         /\ (j.kind = "create" => j.epoch = epoch'))
    BY <1>0, <2>1, NewJobs
  <2> QED
    BY <1>6, <2>2, QuietStep DEF Calm
<1>7. CASE OpenSettings \/ CloseSettings \/ EditRow
  <2>1. UNCHANGED <<state, hasVault, epoch, pepoch, held, vfile, ring, want, excuse>>
        /\ (jobs' = jobs \/ Spawn(Job("lookup", pepoch)))
    BY <1>7 DEF OpenSettings, CloseSettings, EditRow, Look, stores, history
  <2>2. panel'.pw = panel.pw
    BY <1>7 DEF OpenSettings, CloseSettings, EditRow, Look, stores, CredTypeOK
  <2> QED
    BY <1>6, <2>1, <2>2
<1>8. CASE EnterUpgradeView
  <2>1. UNCHANGED <<state, hasVault, epoch, pepoch, held, vfile, ring, want, excuse>>
        /\ (jobs' = jobs \/ Spawn(Job("lookup", pepoch)))
    BY <1>8 DEF EnterUpgradeView, Look, history
  <2>2. CASE state = "unlocked"
    <3>1. Calm => Known = want
      BY <2>2 DEF StoreInv, Known
    <3>2. jobs' = jobs /\ panel'.pw \in {panel.pw, Known}
      BY <1>8, <2>2 DEF EnterUpgradeView, CredTypeOK
    <3> QED
      BY <2>1, <3>1, <3>2 DEF StoreInv, Calm, Current
  <2>3. CASE state # "unlocked"
    <3>1. panel'.pw = panel.pw
      BY <1>8, <2>3 DEF EnterUpgradeView, Look, CredTypeOK
    <3> QED
      BY <1>6, <2>1, <3>1
  <2> QED
    BY <2>2, <2>3
<1>9. ASSUME NEW p \in Pw, SavePassword(p) PROVE StoreInv'
  <2>1. FreeKey /\ UNCHANGED <<jobs, hasVault>> /\ pepoch' = pepoch + 1 /\ want' = p /\ PutInVault(p)
        /\ p \in Maybe
    BY <1>9 DEF SavePassword, Maybe
  <2>2. panel'.pw = p
    BY <1>9 DEF SavePassword, CredTypeOK
  <2>3. excuse \cup Unheard \subseteq excuse' /\ ("refused" \in excuse' \/ ring' = p)
    BY <1>9 DEF SavePassword, Put
  <2>4. (state' = state /\ epoch' = epoch) \/ (state' = "creating" /\ Bumped)
    BY <1>9 DEF SavePassword, Offer
  <2> QED
    BY <2>1, <2>2, <2>3, <2>4, SetStep
<1>10. CASE DeletePassword
  <2>1. FreeKey /\ UNCHANGED <<jobs, hasVault, state, epoch>> /\ pepoch' = pepoch + 1 /\ want' = NoPw
        /\ PutInVault(NoPw) /\ NoPw \in Maybe /\ panel'.pw = NoPw
    BY <1>10 DEF DeletePassword, Maybe
  <2>2. excuse \cup Unheard \subseteq excuse' /\ ("refused" \in excuse' \/ ring' = NoPw)
    BY <1>10 DEF DeletePassword
  <2> QED
    BY <2>1, <2>2, SetStep
<1>11. CASE RotateMaster
  <2>1. jobs' = jobs \cup {Job("rotate", epoch + 1)}
    BY <1>0, <1>11, NewJobs, SpawnTypes DEF RotateMaster
  <2>2. jobs \subseteq jobs' /\ \A j \in jobs' : j \in jobs \/ (/\ j.stage = "start" /\ j.read = NoPw /\ ~j.ok
                                         /\ (j.kind = "create" => j.epoch = epoch'))
    BY <1>0, <2>1, NewJobs
  <2>3. UNCHANGED <<state, hasVault, pepoch, held, vfile, ring, want, excuse, panel>> /\ Bumped
        /\ state # "in flight"
    BY <1>1, <1>11 DEF RotateMaster, stores, history
  <2> QED
    BY <2>2, <2>3, QuietStep DEF Calm
<1>12. CASE Restart
  <2>1. /\ UNCHANGED <<vfile, ring, want>> /\ hasVault' = (vfile # NoFile) /\ jobs' = {}
        /\ state' = "locked" /\ panel'.pw = NoPw /\ excuse \subseteq excuse'
        /\ (\E j \in jobs : j.kind = "create") => "given up" \in excuse'
    BY <1>12 DEF Restart
  <2>2. Calm' => Calm /\ \A j \in jobs : j.kind # "create"
    BY <2>1 DEF Calm
  <2> QED
    BY <2>1, <2>2 DEF StoreInv
<1> QED
  BY <1>2, <1>3, <1>4, <1>5, <1>7, <1>8, <1>9, <1>10, <1>11, <1>12, RunStore, AnswerStore DEF CredNext

---------------------------------------------------------------------------
\* The app starts with no job, and with stores that agree.
LEMMA CredStarts ==
  ASSUME CredInit
  PROVE  CredTypeOK /\ CredInv
<1>1. NoPw \in Maybe /\ want \in Maybe /\ NoFile \notin Maybe
  BY CredAssumption DEF CredInit, Maybe
<1>2. IsFiniteSet({}) /\ Cardinality({}) = 0 /\ MaxJobs \in Nat
  BY FS_EmptySet, CredAssumption
<1>3. CredTypeOK
  <2>1. jobs \subseteq AllJobs /\ IsFiniteSet(jobs) /\ Cardinality(jobs) <= MaxJobs
    <3>1. jobs = {}
      BY DEF CredInit
    <3>2. 0 <= MaxJobs
      BY <1>2
    <3> QED
      BY <1>2, <3>1, <3>2
  <2>2. {held, ring, want} \subseteq Maybe /\ vfile \in Maybe \cup {NoFile}
    BY <1>1 DEF CredInit
  <2>3. panel \in [pw : Maybe, saved : BOOLEAN, lookup : {"not asked", "in flight", "answered"}]
        /\ manager \in [open : BOOLEAN, draft : Maybe \cup {NoFile}, rotating : BOOLEAN]
    BY <1>1 DEF CredInit, Idle
  <2>4. /\ state \in {"locked", "touch", "prompt", "verify", "creating", "in flight", "unlocked"}
        /\ hasVault \in BOOLEAN /\ epoch \in Nat /\ pepoch \in Nat /\ asked \in BOOLEAN
        /\ excuse \subseteq {"given up", "locked", "rotation", "refused", "unasked"}
    BY DEF CredInit
  <2> QED
    BY <2>1, <2>2, <2>3, <2>4 DEF CredTypeOK
<1>4. EpochInv /\ AskedInv
  BY DEF CredInit, EpochInv, AskedInv, NoCreationOverVault, Awaits
<1>5. StoreInv
  BY <1>1 DEF CredInit, StoreInv
<1> QED
  BY <1>3, <1>4, <1>5 DEF CredInv

\* The credentials keep their types and their inductive invariant: the vault
\* epoch tells the one job that is waited for from those that were given up with
\* Esc, and the stores, the panel and the jobs agree while nothing else has
\* touched them (app/vault.rs, app/apply_vault.rs, password_actions.rs).
THEOREM CredInvariant == CredSpec => [](CredTypeOK /\ CredInv)
<1>1. ASSUME CredTypeOK /\ CredInv, [CredNext]_credVars
      PROVE  (CredTypeOK /\ CredInv)'
  <2>1. CASE CredNext
    BY <1>1, <2>1, TypeStep, EpochStep, AskedStep, StoreStep DEF CredInv
  <2>2. CASE UNCHANGED credVars
    <3>1. CredTypeOK'
      BY ZenonT(40), <1>1, <2>2 DEF credVars, CredTypeOK
    <3>2. EpochInv'
      BY <1>1, <2>2 DEF credVars, CredInv, EpochInv, Current
    <3>3. AskedInv'
      BY <1>1, <2>2 DEF credVars, CredInv, AskedInv, NoCreationOverVault
    <3>4. StoreInv'
      BY <1>1, <2>2 DEF credVars, CredInv, StoreInv, Calm, Current
    <3> QED
      BY <3>1, <3>2, <3>3, <3>4 DEF CredInv
  <2> QED
    BY <1>1, <2>1, <2>2
<1> QED
  BY <1>1, CredStarts, PTL DEF CredSpec

\* Types: the states of the vault, its epochs, the copies of the password and the
\* jobs in flight, of which there are never more than the bound.
THEOREM CredTypeCorrect == CredSpec => []CredTypeOK
BY CredInvariant, PTL

\* handle_key swallows every key but Esc while a touch, a check or a creation is
\* waited for: a job whose answer ends the wait is always there.
THEOREM WaitsEnd == CredSpec => []WaitsForSomebody
<1>1. ASSUME CredInv, state \in {"touch", "verify", "in flight"}
      PROVE  \E j \in jobs : j.epoch = epoch /\ j.kind # "lookup"
  <2>1. Awaits(state) \in {"touch", "unlock", "create"}
    BY <1>1 DEF Awaits
  <2>2. PICK j \in jobs : j.kind = Awaits(state) /\ Current(j)
    BY <1>1, <2>1 DEF CredInv, EpochInv
  <2> QED
    BY <2>1, <2>2 DEF Current
<1>2. CredInv => WaitsForSomebody
  BY <1>1 DEF WaitsForSomebody
<1> QED
  BY <1>2, CredInvariant, PTL

\* on_vault_create_failed takes no vault back: there is none while a creation is
\* offered or in flight.
THEOREM NoVaultIsTakenBack == CredSpec => []NoCreationOverVault
<1>1. CredInv => NoCreationOverVault
  BY DEF CredInv, AskedInv
<1> QED
  BY <1>1, CredInvariant, PTL

\* What the panel would hand to a run, and what an open vault and its file hold,
\* is what the operator last set; unless a write was refused, a creation given
\* up, or the vault was locked or being rotated when it was set.
THEOREM WhatWasSetIsUsed == CredSpec => []WhatIsSetIsUsed
<1>1. ASSUME CredInv PROVE WhatIsSetIsUsed
  <2>1. excuse \ {"unasked"} = {} => Calm
    BY DEF Calm
  <2> QED
    BY <1>1, <2>1 DEF CredInv, StoreInv, AskedInv, WhatIsSetIsUsed
<1> QED
  BY <1>1, CredInvariant, PTL

\* vault_epoch: the answer to an attempt that was given up opens nothing; a vault
\* opens only for an operator who still wants it open.
THEOREM OpensWhenAsked == CredSpec => OpensOnlyWhenAsked
<1>1. ASSUME CredTypeOK /\ CredInv, [CredNext]_credVars
      PROVE  state' = "unlocked" /\ state # "unlocked" => asked
  <2>1. SUFFICES ASSUME CredNext, state' = "unlocked", state # "unlocked" PROVE asked
    BY <1>1 DEF credVars
  <2>2. EpochInv /\ AskedInv
    BY <1>1 DEF CredInv
  <2>3. PICK j \in jobs : AnswerUnlock(j) \/ AnswerCreate(j)
    <3>1. ASSUME NEW j \in jobs, Run(j) \/ AnswerRotate(j) \/ AnswerLookup(j) PROVE FALSE
      BY <2>1, <3>1 DEF Run, AnswerRotate, AnswerLookup
    <3> QED
      BY <2>1, <3>1 DEF CredNext, BeginUnlock, EnterMaster, EnterNewMaster, Esc, OpenSettings,
         EnterUpgradeView, CloseSettings, EditRow, SavePassword, Offer, DeletePassword,
         RotateMaster, Restart
  <2>4. j.kind \in {"touch", "unlock", "create"} /\ Current(j)
    BY <2>1, <2>3 DEF AnswerUnlock, AnswerCreate
  <2>5. state \in {"touch", "verify", "in flight"}
    BY <2>2, <2>4 DEF EpochInv, OfVault, Awaits
  <2> QED
    BY <2>2, <2>5 DEF AskedInv
<1> QED
  BY <1>1, CredInvariant, PTL DEF CredSpec, OpensOnlyWhenAsked
=============================================================================
