--------------------------- MODULE VaultFileProofs ---------------------------
(***************************************************************************)
(* Proofs about the vault file for any number of handles and any order of  *)
(* their file system calls, kills and power cuts: the vault is whole, a    *)
(* reported save stays, what a killed writer left blocks nobody, and only  *)
(* a file that is older than the anchor is refused.                        *)
(***************************************************************************)
EXTENDS VaultFile, TLAPS

---------------------------------------------------------------------------
OwnTmp == {"lock", "write", "unlock", "rename"}

\* The temporary file is its writer's until somebody else moves it, and is full
\* once it is written.
TmpInv ==
  /\ tmp \in Handles => At(tmp, OwnTmp)
  /\ \A h \in Handles : At(h, OwnTmp) => tmp = h \/ "taken" \in excuses
  /\ \A h \in Handles : At(h, {"unlock", "rename"}) => h \in filled
  /\ "taken" \in excuses => "overlap" \in excuses

\* Two handles that are not closed overlap.  A handle alone finds at the
\* temporary path only what a dead writer left.
AloneInv ==
  "overlap" \notin excuses =>
    /\ \A g, h \in Handles : ~At(g, {"closed"}) /\ ~At(h, {"closed"}) => g = h
    /\ inPlace = NoHandle
    /\ \A h \in Handles :
         /\ At(h, {"stale_open", "stale_lock", "stale_remove"}) => tmp # NoHandle
         /\ At(h, {"stale_lock"}) => use[h].saw \notin Handles
         /\ At(h, {"recreate"}) => tmp = NoHandle

\* Only a save is a repair, and only a save initializes.
UseInv ==
  \A h \in Handles :
    /\ use[h].repair => Saving(h) /\ use[h].op # "init"
    /\ use[h].op = "init" => Saving(h) \/ At(h, {"closed"})

\* What a handle that is not closed has of the file, and the other way round.
HandleData(h) ==
  /\ use[h].op # "init"
  /\ header[h].counter >= settled
  /\ At(h, {"check", "sync", "anchor"}) => file = header[h]
  /\ At(h, {"anchor"}) => durable = file
  /\ At(h, {"repair"}) => header[h].key # 0
  /\ header[h].key = 0 => file.key = 0
  /\ use[h].op # "rebind" /\ header[h].key # 0 => file.key # 0

\* The file and what a power cut may leave of it, while no handles overlapped
\* and no vault was removed.
DataInv ==
  excuses \cap {"overlap", "deleted"} = {} =>
    /\ file \in Version /\ durable \in Version
    /\ file # durable => "unsynced" \in excuses \/ \E h \in Handles : At(h, {"sync"})
    /\ file.counter >= settled /\ durable.counter >= settled
    /\ file.key = 0 => durable.key = 0
    /\ \A h \in Handles : ~At(h, {"closed"}) => HandleData(h)

\* Nothing is from the future unless the clock was set back.
TimeInv ==
  "clock" \notin excuses =>
    /\ \A v \in {file, durable, backup} : v \in Version => v.ts <= clock
    /\ \A h \in Handles : header[h].ts <= clock
    /\ anchor.ts <= clock

AnchorBelow(v) == anchor.counter <= v.counter /\ anchor.ts <= v.ts

\* The anchor is never ahead of a file that nobody put back, nor of a handle that
\* was checked.
AnchorInv ==
  /\ ~anchor.there => anchor.counter = 0 /\ anchor.ts = 0
  /\ excuses \cap {"overlap", "unread"} = {} =>
       \A h \in Handles :
         ~At(h, {"closed", "check"}) /\ use[h].op # "init" =>
           anchor.counter <= header[h].counter
  /\ excuses \cap {"restored", "deleted", "unsynced", "overlap", "clock"} = {} =>
       /\ AnchorBelow(file) /\ AnchorBelow(durable)
       /\ \A h \in Handles : ~At(h, {"closed"}) => AnchorBelow(header[h])

FileInv == TmpInv /\ AloneInv /\ UseInv /\ DataInv /\ TimeInv /\ AnchorInv

---------------------------------------------------------------------------
Pcs == {"closed", "check", "repair", "act", "open"} \cup Writing

\* A step that takes one handle, if any, to another place.
Moves(h, to) ==
  /\ use' \in [Handles -> Uses]
  /\ use'[h].pc = to
  /\ \A g \in Handles :
       /\ use'[g].op = use[g].op /\ use'[g].repair = use[g].repair
       /\ use'[g].saw = use[g].saw /\ (g # h => use'[g] = use[g])

\* Going on to another place is such a step.
LEMMA GotoMoves ==
  ASSUME use \in [Handles -> Uses], NEW h \in Handles, NEW to \in Pcs, Goto(h, to)
  PROVE  Moves(h, to)
<1>1. [use[h] EXCEPT !.pc = to] \in Uses
  BY DEF Uses, Pcs
<1>2. use' = [use EXCEPT ![h] = [use[h] EXCEPT !.pc = to]]
  BY DEF Goto
<1> QED
  BY <1>1, <1>2 DEF Moves, Uses

\* A step that ends a handle's save.
Ends(h) ==
  /\ use' \in [Handles -> Uses]
  /\ use'[h].pc = Ended(h) /\ use'[h].op = use[h].op /\ ~use'[h].repair
  /\ use'[h].saw = NoHandle
  /\ \A g \in Handles \ {h} : use'[g] = use[g]

\* However a save ends, it is such a step.
LEMMA FinishEnds ==
  ASSUME use \in [Handles -> Uses], NEW h \in Handles,
         NEW r \in {"ok", "failed", "blocked"}, Finish(h, r)
  PROVE  Ends(h)
<1> DEFINE res == IF use[h].repair THEN "none" ELSE r
<1>1. Ended(h) \in Pcs
  BY DEF Ended, Pcs
<1>2. use[h] \in Uses /\ res \in {"none", "ok", "failed", "blocked"}
  OBVIOUS
<1> HIDE DEF res
<1>3. [use[h] EXCEPT !.pc = Ended(h), !.repair = FALSE, !.saw = NoHandle, !.result = res]
        \in Uses
  BY <1>1, <1>2 DEF Uses, Pcs
<1>4. use' = [use EXCEPT ![h] =
        [use[h] EXCEPT !.pc = Ended(h), !.repair = FALSE, !.saw = NoHandle, !.result = res]]
  BY DEF Finish, res
<1> QED
  BY <1>2, <1>3, <1>4 DEF Ends, Uses

\* A killed handle is closed.
LEMMA KilledIsClosed ==
  ASSUME NEW r \in Uses
  PROVE  /\ Killed(r) \in Uses /\ Killed(r).pc = "closed" /\ Killed(r).op = r.op
         /\ ~Killed(r).repair
BY DEF Killed, Uses

\* A new temporary file.
LEMMA MakeTmpMoves ==
  ASSUME use \in [Handles -> Uses], NEW h \in Handles, MakeTmp(h)
  PROVE  /\ use' \in [Handles -> Uses]
         /\ \A g \in Handles :
              /\ use'[g].op = use[g].op /\ use'[g].repair = use[g].repair
              /\ use'[g].result = use[g].result
              /\ use'[g].pc = IF g = h THEN "lock" ELSE use[g].pc
<1>1. \A g \in Handles : use[g] \in Uses
  OBVIOUS
<1>2. ASSUME NEW r \in Uses
      PROVE  /\ [r EXCEPT !.pc = "lock"] \in Uses /\ [r EXCEPT !.saw = NoHandle] \in Uses
             /\ [r EXCEPT !.pc = "lock"].op = r.op /\ [r EXCEPT !.saw = NoHandle].op = r.op
             /\ [r EXCEPT !.pc = "lock"].repair = r.repair
             /\ [r EXCEPT !.saw = NoHandle].repair = r.repair
             /\ [r EXCEPT !.pc = "lock"].result = r.result
             /\ [r EXCEPT !.saw = NoHandle].result = r.result
             /\ [r EXCEPT !.pc = "lock"].pc = "lock" /\ [r EXCEPT !.saw = NoHandle].pc = r.pc
  <2>1. "lock" \in Writing /\ NoHandle \in Handles \cup {NoHandle, Debris}
    BY DEF Writing
  <2> QED
    BY <2>1 DEF Uses
<1>3. ASSUME NEW g \in Handles
      PROVE  use'[g] \in Uses /\ use'[g].op = use[g].op /\ use'[g].repair = use[g].repair
             /\ use'[g].result = use[g].result
             /\ use'[g].pc = IF g = h THEN "lock" ELSE use[g].pc
  <2>1. use'[g] = IF g = h THEN [use[g] EXCEPT !.pc = "lock"]
                  ELSE IF use[g].saw = h THEN [use[g] EXCEPT !.saw = NoHandle] ELSE use[g]
    BY DEF MakeTmp
  <2> QED
    BY <1>1, <1>2, <2>1
<1>4. use' = [g \in Handles |-> use'[g]]
  BY DEF MakeTmp
<1> QED
  BY <1>3, <1>4

\* A version that is saved is one of the handle's, stamped.
LEMMA StampedTypes ==
  ASSUME FileTypeOK, NEW h \in Handles, NEW v \in Version, StartSave(h, v),
         header[h].counter = v.counter
  PROVE  /\ header' \in [Handles -> Version]
         /\ header'[h].counter = v.counter + 1 /\ header'[h].ts = clock
         /\ header'[h].key = v.key /\ header'[h].master = v.master
         /\ \A g \in Handles \ {h} : header'[g] = header[g]
<1>1. v.counter + 1 \in 0..MaxCounter
  <2>1. v.counter \in 0..MaxCounter /\ v.counter < MaxCounter
    BY DEF StartSave, Version
  <2> QED
    BY <2>1, FileAssumption
<1>2. /\ Stamped(v) \in Version /\ Stamped(v).counter = v.counter + 1
      /\ Stamped(v).ts = clock /\ Stamped(v).key = v.key /\ Stamped(v).master = v.master
  BY <1>1 DEF Stamped, Version, FileTypeOK
<1> QED
  BY <1>2 DEF StartSave, FileTypeOK

\* The same with another key or another password.
LEMMA ChangedVersions ==
  ASSUME NEW v \in Version
  PROVE  /\ \A k \in 0..MaxKeys :
              /\ [v EXCEPT !.key = k] \in Version /\ [v EXCEPT !.key = k].counter = v.counter
              /\ [v EXCEPT !.key = k].key = k
         /\ \A m \in Masters :
              /\ [v EXCEPT !.master = m] \in Version
              /\ [v EXCEPT !.master = m].counter = v.counter
              /\ [v EXCEPT !.master = m].key = v.key
BY DEF Version

\* The enclave's key is one that was made.
LEMMA SomeKeyTypes ==
  ASSUME FileTypeOK, MakeKey
  PROVE  /\ SomeKey \in 0..MaxKeys /\ SomeKey # 0
         /\ enclave' \in [key : 0..MaxKeys, made : 0..MaxKeys]
<1>1. enclave.key \in 0..MaxKeys /\ enclave.made \in 0..MaxKeys
  BY DEF FileTypeOK
<1>2. SomeKey \in 0..MaxKeys /\ SomeKey # 0
  BY <1>1, FileAssumption DEF SomeKey, MakeKey
<1> QED
  BY <1>2 DEF MakeKey, FileTypeOK

\* The anchor of a version is its counter and time.
LEMMA AnchorTypes ==
  ASSUME NEW v \in Version
  PROVE  /\ AnchorOf(v) \in [counter : 0..MaxCounter, ts : 0..MaxClock, there : BOOLEAN]
         /\ AnchorOf(v).counter = v.counter /\ AnchorOf(v).ts = v.ts /\ AnchorOf(v).there
BY DEF AnchorOf, Version

\* An unlock, or a use of what it gave: the file system is not touched.
LEMMA UseTypes ==
  ASSUME FileTypeOK, NEW h \in Handles, UseVault(h)
  PROVE  FileTypeOK'
<1>0. use \in [Handles -> Uses] /\ header \in [Handles -> Version] /\ use[h] \in Uses
      /\ file \in Version \cup {Absent, Torn} /\ Overlap(h) \subseteq Blames
      /\ excuses \subseteq Blames /\ clock \in 0..MaxClock /\ use[h].arg \in Masters
      /\ anchor \in [counter : 0..MaxCounter, ts : 0..MaxClock, there : BOOLEAN]
      /\ enclave \in [key : 0..MaxKeys, made : 0..MaxKeys]
  BY DEF FileTypeOK, Overlap, Blames, Uses
<1>1. ASSUME NEW op \in {"session", "rotate", "rebind", "touch"}, NEW arg \in Masters,
             Read(h, op, arg)
      PROVE  FileTypeOK'
  <2>1. [use[h] EXCEPT !.pc = "check", !.op = op, !.arg = arg, !.result = "none"] \in Uses
    BY <1>0 DEF Uses
  <2>2. use' = [use EXCEPT ![h] =
          [use[h] EXCEPT !.pc = "check", !.op = op, !.arg = arg, !.result = "none"]]
    BY <1>1 DEF Read
  <2>3. use' \in [Handles -> Uses]
    BY <1>0, <2>1, <2>2
  <2>4. header' \in [Handles -> Version]
    BY <1>0, <1>1 DEF Read, Readable
  <2> QED
    BY <1>0, <1>1, <2>3, <2>4 DEF Read, FileTypeOK
<1>2. CASE \/ UnlockWithPassword(h) \/ UnlockBiometric(h) \/ RebindBiometric(h)
           \/ \E m \in Masters : ChangePassword(h, m)
  BY <1>0, <1>1, <1>2 DEF UnlockWithPassword, UnlockBiometric, RebindBiometric, ChangePassword
<1>3. ASSUME NEW m \in Masters, NEW k \in 0..MaxKeys, Initialize(h, m, k)
      PROVE  FileTypeOK'
  <2>1. [use[h] EXCEPT !.pc = "create", !.op = "init", !.arg = m, !.result = "none"] \in Uses
    BY <1>0 DEF Uses, Writing
  <2>2. use' = [use EXCEPT ![h] =
          [use[h] EXCEPT !.pc = "create", !.op = "init", !.arg = m, !.result = "none"]]
    BY <1>3 DEF Initialize
  <2>3. use' \in [Handles -> Uses]
    BY <1>0, <2>1, <2>2
  <2>4. [counter |-> 0, ts |-> clock, master |-> m, key |-> k] \in Version
    BY <1>0, FileAssumption DEF Version
  <2>5. header' \in [Handles -> Version]
    BY <1>0, <1>3, <2>4 DEF Initialize
  <2> QED
    BY <1>0, <1>3, <2>3, <2>5 DEF Initialize, FileTypeOK
<1>4. CASE CheckCounter(h)
  <2>1. use' \in [Handles -> Uses]
    <3>1. CASE use' = [use EXCEPT ![h].pc = "closed", ![h].result = "rolled back"]
      <4>1. [use[h] EXCEPT !.pc = "closed", !.result = "rolled back"] \in Uses
        BY <1>0 DEF Uses
      <4> QED
        BY <1>0, <3>1, <4>1
    <3>2. CASE \E to \in {"repair", "act"} : Goto(h, to)
      BY <1>0, <3>2, GotoMoves DEF Moves, Pcs
    <3> QED
      BY <1>4, <3>1, <3>2 DEF CheckCounter
  <2>2. anchor' \in [counter : 0..MaxCounter, ts : 0..MaxClock, there : BOOLEAN]
    <3>1. anchor' \in {anchor, AnchorOf(header[h])}
      BY <1>4 DEF CheckCounter
    <3>2. header[h] \in Version
      BY <1>0
    <3>3. AnchorOf(header[h]) \in [counter : 0..MaxCounter, ts : 0..MaxClock, there : BOOLEAN]
      BY <3>2, AnchorTypes
    <3> QED
      BY <1>0, <3>1, <3>3
  <2>3. excuses' \subseteq Blames
    BY <1>0, <1>4 DEF CheckCounter, Blames
  <2> QED
    BY <1>4, <2>1, <2>2, <2>3 DEF CheckCounter, FileTypeOK
<1>5. CASE Repair(h) \/ Rotate(h) \/ Rebind(h) \/ Store(h)
  <2>1. use' \in [Handles -> Uses]
    <3>1. CASE \E to \in {"create", "act"} : Goto(h, to)
      BY <1>0, <3>1, GotoMoves DEF Moves, Pcs, Writing
    <3>2. CASE use' = [use EXCEPT ![h].pc = "create", ![h].repair = TRUE]
      <4>1. [use[h] EXCEPT !.pc = "create", !.repair = TRUE] \in Uses
        BY <1>0 DEF Uses, Writing
      <4> QED
        BY <1>0, <3>2, <4>1
    <3>3. CASE use' = [use EXCEPT ![h].pc = "closed", ![h].result = "failed"]
      <4>1. [use[h] EXCEPT !.pc = "closed", !.result = "failed"] \in Uses
        BY <1>0 DEF Uses
      <4> QED
        BY <1>0, <3>3, <4>1
    <3> QED
      BY <1>5, <3>1, <3>2, <3>3 DEF Repair, Rotate, Rebind, Store
  <2>2. header' \in [Handles -> Version] /\ enclave' \in [key : 0..MaxKeys, made : 0..MaxKeys]
    <3>1. CASE \/ MakeKey /\ StartSave(h, [header[h] EXCEPT !.key = SomeKey])
      BY ZenonT(40), <1>0, <3>1, SomeKeyTypes, ChangedVersions, StampedTypes
    <3>2. CASE StartSave(h, [header[h] EXCEPT !.master = use[h].arg]) /\ enclave' = enclave
      <4> DEFINE v == [header[h] EXCEPT !.master = use[h].arg]
      <4>1. header[h] \in Version /\ use[h].arg \in Masters
        BY <1>0
      <4>2. v \in Version /\ v.counter = header[h].counter
        BY <4>1, ChangedVersions
      <4> HIDE DEF v
      <4> QED
        BY <1>0, <3>2, <4>2, StampedTypes DEF v
    <3>3. CASE StartSave(h, header[h]) /\ enclave' = enclave
      BY <1>0, <3>3, StampedTypes
    <3>4. CASE UNCHANGED <<header, enclave>>
      BY <1>0, <3>4
    <3> QED
      BY <1>5, <3>1, <3>2, <3>3, <3>4 DEF Repair, Rotate, Rebind, Store
  <2>3. told' \in Masters \cup {Nobody}
    BY <1>5 DEF Repair, Rotate, Rebind, Store, FileTypeOK
  <2> QED
    BY <1>5, <2>1, <2>2, <2>3 DEF Repair, Rotate, Rebind, Store, FileTypeOK
<1>6. CASE Open(h) \/ Lock(h)
  <2>1. use' \in [Handles -> Uses]
    <3>1. CASE Open(h)
      <4>1. [use[h] EXCEPT !.pc = "open", !.result = "ok"] \in Uses
        BY <1>0 DEF Uses
      <4> QED
        BY <1>0, <3>1, <4>1 DEF Open
    <3>2. CASE Lock(h)
      BY <1>0, <3>2, GotoMoves DEF Lock, Moves, Pcs
    <3> QED
      BY <1>6, <3>1, <3>2
  <2> QED
    BY <1>6, <2>1 DEF Open, Lock, FileTypeOK
<1>7. (\E m \in Masters : \E k \in 0..MaxKeys : Initialize(h, m, k)) => FileTypeOK'
  BY <1>3
<1> QED
  BY <1>2, <1>4, <1>5, <1>6, <1>7 DEF UseVault

\* Each file system call of a save.
LEMMA SaveTypes ==
  ASSUME FileTypeOK, NEW h \in Handles, Save(h)
  PROVE  FileTypeOK'
<1>0. /\ use \in [Handles -> Uses] /\ use[h] \in Uses /\ header \in [Handles -> Version]
      /\ excuses \subseteq Blames /\ \A g : Taken(g) \subseteq Blames
      /\ Unsynced(h) \subseteq Blames
  BY DEF FileTypeOK, Taken, Unsynced, Blames
<1>1. /\ \A to \in Pcs : Goto(h, to) => use' \in [Handles -> Uses]
      /\ \A r \in {"ok", "failed", "blocked"} : Finish(h, r) => use' \in [Handles -> Uses]
      /\ MakeTmp(h) => use' \in [Handles -> Uses]
      /\ {"lock", "write", "unlock", "rename", "sync", "anchor", "recreate"} \subseteq Pcs
      /\ {"stale_open", "stale_lock", "stale_remove"} \subseteq Pcs
  BY <1>0, GotoMoves, FinishEnds, MakeTmpMoves DEF Moves, Ends, Pcs, Writing, Stale
<1>2. CASE Create(h) \/ Recreate(h)
  <2>1. use' \in [Handles -> Uses]
    BY <1>1, <1>2 DEF Create, Recreate
  <2>2. tmp' \in Handles \cup {NoHandle, Debris} /\ filled' \subseteq Handles
    BY <1>2 DEF Create, Recreate, MakeTmp, FileTypeOK
  <2> QED
    BY <1>2, <2>1, <2>2 DEF Create, Recreate, Unchanged, FileTypeOK
<1>3. CASE StaleOpen(h)
  <2>1. use' \in [Handles -> Uses]
    <3>1. CASE tmp = NoHandle
      BY <1>1, <1>3, <3>1 DEF StaleOpen
    <3>2. CASE tmp # NoHandle
      <4>1. [use[h] EXCEPT !.pc = "stale_lock", !.saw = tmp] \in Uses
        BY <1>0 DEF Uses, Writing, Stale, FileTypeOK
      <4> QED
        BY <1>0, <1>3, <3>2, <4>1 DEF StaleOpen
    <3> QED
      BY <3>1, <3>2
  <2> QED
    BY <1>3, <2>1 DEF StaleOpen, Unchanged, FileTypeOK
<1>4. CASE StaleLock(h) \/ LockTmp(h) \/ UnlockTmp(h)
  <2>1. use' \in [Handles -> Uses]
    BY <1>1, <1>4 DEF StaleLock, LockTmp, UnlockTmp
  <2> QED
    BY <1>4, <2>1 DEF StaleLock, LockTmp, UnlockTmp, Unchanged, FileTypeOK
<1>5. CASE StaleRemove(h) \/ WriteFails(h)
  <2>1. use' \in [Handles -> Uses]
    BY <1>1, <1>5 DEF StaleRemove, WriteFails
  <2>2. excuses' \subseteq Blames
    BY <1>0, <1>5 DEF StaleRemove, WriteFails
  <2> QED
    BY <1>5, <2>1, <2>2 DEF StaleRemove, WriteFails, FileTypeOK
<1>6. CASE Write(h)
  <2>1. use' \in [Handles -> Uses]
    BY <1>1, <1>6 DEF Write
  <2>2. {file', durable'} \subseteq Version \cup {Absent, Torn}
        /\ inPlace' \in Handles \cup {NoHandle} /\ filled' \subseteq Handles
    BY <1>0, <1>6 DEF Write, FileTypeOK
  <2> QED
    BY <1>6, <2>1, <2>2 DEF Write, Unchanged, FileTypeOK
<1>7. CASE Rename(h)
  <2>1. use' \in [Handles -> Uses] /\ excuses' \subseteq Blames
    BY <1>0, <1>1, <1>7 DEF Rename
  <2>2. file' \in Version \cup {Absent, Torn} /\ inPlace' \in Handles \cup {NoHandle}
        /\ tmp' \in Handles \cup {NoHandle, Debris}
    BY <1>0, <1>7 DEF Rename, FileTypeOK
  <2> QED
    BY <1>7, <2>1, <2>2 DEF Rename, FileTypeOK
<1>8. CASE SyncDirectory(h)
  <2>1. use' \in [Handles -> Uses] /\ excuses' \subseteq Blames
    BY <1>0, <1>1, <1>8 DEF SyncDirectory
  <2> QED
    BY <1>8, <2>1 DEF SyncDirectory, FileTypeOK
<1>9. CASE StoreAnchor(h)
  <2>1. use' \in [Handles -> Uses] /\ header[h] \in Version
    BY <1>0, <1>1, <1>9 DEF StoreAnchor
  <2>2. anchor' \in [counter : 0..MaxCounter, ts : 0..MaxClock, there : BOOLEAN]
    BY <1>9, <2>1, AnchorTypes DEF StoreAnchor, FileTypeOK
  <2>3. settled' \in 0..MaxCounter /\ told' \in Masters \cup {Nobody}
    BY <1>9, <2>1 DEF StoreAnchor, FileTypeOK, Version
  <2> QED
    BY <1>9, <2>1, <2>2, <2>3 DEF StoreAnchor, FileTypeOK
<1> QED
  BY <1>2, <1>3, <1>4, <1>5, <1>6, <1>7, <1>8, <1>9 DEF Save

\* Kills, power cuts and what else the outside does.
LEMMA OutsideTypes ==
  ASSUME FileTypeOK,
         \/ \E h \in Handles : Kill(h)
         \/ Delete \/ PowerCut \/ LoseKey \/ Tick \/ Restore
  PROVE  FileTypeOK'
<1>0. use \in [Handles -> Uses] /\ excuses \subseteq Blames
  BY DEF FileTypeOK
<1>1. ASSUME NEW h \in Handles, Kill(h) PROVE FileTypeOK'
  <2>1. use' \in [Handles -> Uses]
    BY <1>0, <1>1, KilledIsClosed DEF Kill
  <2>2. excuses' \subseteq Blames
    BY <1>0, <1>1 DEF Kill, Unsynced, Blames
  <2> QED
    BY <1>1, <2>1, <2>2 DEF Kill, FileTypeOK
<1>2. CASE Delete
  BY <1>2 DEF Delete, FileTypeOK, Blames
<1>3. CASE PowerCut
  <2>1. use' \in [Handles -> Uses]
    BY <1>0, <1>3, KilledIsClosed DEF PowerCut
  <2> QED
    BY <1>3, <2>1 DEF PowerCut, FileTypeOK
<1>4. CASE LoseKey
  <2>1. enclave' \in [key : 0..MaxKeys, made : 0..MaxKeys]
    BY <1>4, FileAssumption DEF LoseKey, FileTypeOK
  <2> QED
    BY <1>4, <2>1 DEF LoseKey, Elsewhere, FileTypeOK
<1>5. CASE Tick
  <2>1. clock' \in 0..MaxClock /\ excuses' \subseteq Blames
    <3>1. clock' \in 0..MaxClock
      BY <1>5, FileAssumption DEF Tick, FileTypeOK
    <3>2. excuses' \subseteq Blames
      BY <1>0, <1>5 DEF Tick, Blames
    <3> QED
      BY <3>1, <3>2
  <2> QED
    BY <1>5, <2>1 DEF Tick, Elsewhere, FileTypeOK
<1>6. CASE Restore
  <2>1. backup.counter \in 0..MaxCounter /\ backup.master \in Masters
    BY DEF FileTypeOK, Version
  <2> QED
    BY <1>6, <2>1 DEF Restore, Elsewhere, FileTypeOK, Blames
<1> QED
  BY <1>1, <1>2, <1>3, <1>4, <1>5, <1>6

\* Every step keeps the types.
LEMMA FileTypeStep ==
  ASSUME FileTypeOK, [FileNext]_fileVars
  PROVE  FileTypeOK'
<1>1. CASE UNCHANGED fileVars
  BY <1>1 DEF fileVars, FileTypeOK
<1> QED
  BY <1>1, UseTypes, SaveTypes, OutsideTypes DEF FileNext

---------------------------------------------------------------------------
\* Who is where and whose the temporary file is.
Places == TmpInv /\ AloneInv /\ UseInv

InMemory == {"closed", "check", "repair", "act", "open"}

\* An unlock, and what is done with it, touches no file; a handle that is not
\* alone is noted.
LEMMA UseSteps ==
  ASSUME FileTypeOK, UseInv, NEW h \in Handles, UseVault(h)
  PROVE  /\ \A g \in Handles \ {h} : use'[g] = use[g]
         /\ At(h, InMemory) /\ use'[h].pc \in InMemory \cup {"create"}
         /\ UNCHANGED <<file, durable, tmp, filled, inPlace, locked, backup, settled, clock>>
         /\ excuses \subseteq excuses' /\ ("taken" \in excuses' => "taken" \in excuses)
         /\ At(h, {"closed"}) => Overlap(h) \subseteq excuses'
         /\ use'[h].repair => use'[h].pc = "create" /\ use'[h].op # "init"
         /\ use'[h].op = "init" => use'[h].pc \in {"create", "closed"}
<1>0. /\ use \in [Handles -> Uses] /\ use[h] \in Uses
      /\ At(h, InMemory) => ~use[h].repair
      /\ At(h, InMemory \ {"closed"}) => use[h].op # "init"
      /\ "taken" \notin Overlap(h) 
  BY DEF FileTypeOK, UseInv, Saving, At, InMemory, Writing, Stale, Overlap
<1>1. ASSUME NEW op, op # "init", NEW arg, Read(h, op, arg)
      PROVE  /\ \A g \in Handles \ {h} : use'[g] = use[g]
             /\ At(h, {"closed"}) /\ use'[h].pc = "check" /\ ~use'[h].repair
             /\ use'[h].op = op
             /\ UNCHANGED <<file, durable, tmp, filled, inPlace, locked, backup, settled, clock>>
             /\ excuses' = excuses \cup Overlap(h)
  BY <1>0, <1>1 DEF Read, Uses, At, InMemory
<1>2. CASE \/ UnlockWithPassword(h) \/ UnlockBiometric(h) \/ RebindBiometric(h)
           \/ \E m \in Masters : ChangePassword(h, m)
  <2>1. PICK op, arg : op # "init" /\ Read(h, op, arg)
    BY <1>2 DEF UnlockWithPassword, UnlockBiometric, RebindBiometric, ChangePassword
  <2> QED
    BY <1>0, <1>1, <2>1 DEF At, InMemory
<1>3. ASSUME NEW m \in Masters, NEW k \in 0..MaxKeys, Initialize(h, m, k)
      PROVE  /\ \A g \in Handles \ {h} : use'[g] = use[g]
             /\ At(h, {"closed"}) /\ use'[h].pc = "create" /\ ~use'[h].repair
             /\ UNCHANGED <<file, durable, tmp, filled, inPlace, locked, backup, settled, clock>>
             /\ excuses' = excuses \cup Overlap(h)
  BY <1>0, <1>3 DEF Initialize, Uses, At, InMemory
<1>4. \A to \in Pcs : Goto(h, to) =>
        /\ \A g \in Handles \ {h} : use'[g] = use[g]
        /\ use'[h].pc = to /\ use'[h].op = use[h].op /\ use'[h].repair = use[h].repair
  BY <1>0, GotoMoves DEF Moves
<1>5. \A r : \A to \in {"closed", "open"} :
        use' = [use EXCEPT ![h].pc = to, ![h].result = r] =>
          /\ \A g \in Handles \ {h} : use'[g] = use[g]
          /\ use'[h].pc = to /\ use'[h].op = use[h].op /\ use'[h].repair = use[h].repair
  BY ZenonT(40), <1>0 DEF Uses
<1>6. use' = [use EXCEPT ![h].pc = "create", ![h].repair = TRUE] =>
        /\ \A g \in Handles \ {h} : use'[g] = use[g]
        /\ use'[h].pc = "create" /\ use'[h].op = use[h].op
  BY ZenonT(40), <1>0 DEF Uses
<1>7. ASSUME CheckCounter(h) \/ Repair(h) \/ Rotate(h) \/ Rebind(h) \/ Open(h) \/ Store(h)
               \/ Lock(h)
      PROVE  /\ \A g \in Handles \ {h} : use'[g] = use[g]
             /\ use'[h].pc \in InMemory \cup {"create"} /\ use'[h].op = use[h].op
             /\ use'[h].repair => use'[h].pc = "create"
             /\ At(h, InMemory \ {"closed"})
             /\ UNCHANGED <<file, durable, tmp, filled, inPlace, locked, backup, settled, clock>>
             /\ excuses \subseteq excuses' /\ ("taken" \in excuses' => "taken" \in excuses)
  <2>1. /\ At(h, InMemory \ {"closed"})
        /\ UNCHANGED <<file, durable, tmp, filled, inPlace, locked, backup, settled, clock>>
        /\ excuses \subseteq excuses' /\ ("taken" \in excuses' => "taken" \in excuses)
    BY <1>7 DEF CheckCounter, Repair, Rotate, Rebind, Open, Store, Lock, At, InMemory
  <2>2. \/ \E to \in {"repair", "act", "create", "closed"} : Goto(h, to)
        \/ \E r : \E to \in {"closed", "open"} :
             use' = [use EXCEPT ![h].pc = to, ![h].result = r]
        \/ use' = [use EXCEPT ![h].pc = "create", ![h].repair = TRUE]
    BY <1>7 DEF CheckCounter, Repair, Rotate, Rebind, Open, Store, Lock
  <2>3. {"repair", "act", "create", "closed"} \subseteq Pcs /\ ~use[h].repair
    BY <1>0, <2>1 DEF Pcs, Writing, At, InMemory
  <2> QED
    BY <1>4, <1>5, <1>6, <2>1, <2>2, <2>3 DEF InMemory
<1>8. CASE CheckCounter(h) \/ Repair(h) \/ Rotate(h) \/ Rebind(h) \/ Open(h) \/ Store(h)
             \/ Lock(h)
  BY <1>0, <1>7, <1>8 DEF At, InMemory
<1>9. CASE \E m \in Masters : \E k \in 0..MaxKeys : Initialize(h, m, k)
  BY <1>0, <1>3, <1>9 DEF At, InMemory
<1> QED
  BY <1>2, <1>8, <1>9 DEF UseVault

\* The handles that are alone stay so.
LEMMA StillAlone ==
  ASSUME AloneInv, NEW h \in Handles, excuses \subseteq excuses',
         \A g \in Handles \ {h} : use'[g].pc = use[g].pc,
         ~At(h, {"closed"}) \/ Overlap(h) \subseteq excuses',
         "overlap" \notin excuses'
  PROVE  \A f, g \in Handles : ~At(f, {"closed"})' /\ ~At(g, {"closed"})' => f = g
BY DEF AloneInv, At, Overlap

\* An unlock keeps the places.
LEMMA UsePlaces ==
  ASSUME FileTypeOK, Places, NEW h \in Handles, UseVault(h)
  PROVE  Places'
<1>1. /\ \A g \in Handles \ {h} : use'[g] = use[g]
      /\ At(h, InMemory) /\ use'[h].pc \in InMemory \cup {"create"}
      /\ UNCHANGED <<tmp, filled, inPlace>>
      /\ excuses \subseteq excuses' /\ ("taken" \in excuses' => "taken" \in excuses)
      /\ At(h, {"closed"}) => Overlap(h) \subseteq excuses'
      /\ use'[h].repair => use'[h].pc = "create" /\ use'[h].op # "init"
      /\ use'[h].op = "init" => use'[h].pc \in {"create", "closed"}
  BY UseSteps DEF Places
<1>2. TmpInv'
  BY <1>1 DEF Places, TmpInv, At, InMemory, OwnTmp
<1>3. AloneInv'
  <2>1. "overlap" \notin excuses' => 
          \A f, g \in Handles : ~At(f, {"closed"})' /\ ~At(g, {"closed"})' => f = g
    BY <1>1, StillAlone DEF Places
  <2> QED
    BY <1>1, <2>1 DEF Places, AloneInv, At, InMemory
<1>4. UseInv'
  BY <1>1 DEF Places, UseInv, At, InMemory, Saving, Writing
<1> QED
  BY <1>2, <1>3, <1>4 DEF Places

\* A call of a save: the handle is not closed, and no other one moves.
LEMMA SaveSteps ==
  ASSUME FileTypeOK, UseInv, NEW h \in Handles, Save(h)
  PROVE  /\ \A g \in Handles \ {h} :
              /\ use'[g].pc = use[g].pc /\ use'[g].op = use[g].op
              /\ use'[g].repair = use[g].repair /\ use'[g].result = use[g].result
         /\ Saving(h) /\ use'[h].op = use[h].op
         /\ \/ use'[h].pc \in Writing /\ use'[h].repair = use[h].repair
            \/ use'[h].pc = Ended(h) /\ ~use'[h].repair
         /\ Ended(h) \in {"act", "open", "closed"}
         /\ use[h].op = "init" => Ended(h) = "closed"
         /\ excuses \subseteq excuses'
         /\ UNCHANGED <<header, clock, backup>>
<1>0. use \in [Handles -> Uses] /\ use[h] \in Uses
  BY DEF FileTypeOK
<1>1. Ended(h) \in {"act", "open", "closed"} /\ (use[h].op = "init" => Ended(h) = "closed")
  BY DEF Ended, UseInv
<1> DEFINE Small == \/ \E to \in Writing : Goto(h, to)
                    \/ \E r \in {"ok", "failed", "blocked"} : Finish(h, r)
                    \/ MakeTmp(h)
                    \/ use' = [use EXCEPT ![h].pc = "stale_lock", ![h].saw = tmp]
<1>2. Small /\ Saving(h)
  BY DEF Save, Create, StaleOpen, StaleLock, StaleRemove, Recreate, LockTmp, Write, WriteFails,
     UnlockTmp, Rename, SyncDirectory, StoreAnchor, Saving, At, Writing, Stale
<1>3. /\ \A g \in Handles \ {h} :
           /\ use'[g].pc = use[g].pc /\ use'[g].op = use[g].op
           /\ use'[g].repair = use[g].repair /\ use'[g].result = use[g].result
      /\ use'[h].op = use[h].op
      /\ \/ use'[h].pc \in Writing /\ use'[h].repair = use[h].repair
         \/ use'[h].pc = Ended(h) /\ ~use'[h].repair
  <2>1. CASE \E to \in Writing : Goto(h, to)
    BY <1>0, <2>1, GotoMoves DEF Moves, Pcs
  <2>2. CASE \E r \in {"ok", "failed", "blocked"} : Finish(h, r)
    BY <1>0, <2>2, FinishEnds DEF Ends
  <2>3. CASE MakeTmp(h)
    BY <1>0, <2>3, MakeTmpMoves DEF Writing
  <2>4. CASE use' = [use EXCEPT ![h].pc = "stale_lock", ![h].saw = tmp]
    BY <1>0, <2>4 DEF Uses, Writing, Stale
  <2> QED
    BY <1>2, <2>1, <2>2, <2>3, <2>4
<1>4. excuses \subseteq excuses' /\ UNCHANGED <<header, clock, backup>>
  BY DEF Save, Create, StaleOpen, StaleLock, StaleRemove, Recreate, LockTmp, Write, WriteFails,
     UnlockTmp, Rename, SyncDirectory, StoreAnchor, Unchanged
<1> QED
  BY <1>1, <1>2, <1>3, <1>4

\* A save keeps the places: what it takes from a writer, only a neighbour can.
LEMMA SavePlaces ==
  ASSUME FileTypeOK, Places, NEW h \in Handles, Save(h)
  PROVE  Places'
<1>0. /\ use \in [Handles -> Uses] /\ NoHandle \notin Handles /\ Debris \notin Handles
      /\ NoHandle # Debris /\ filled \subseteq Handles /\ locked \subseteq Handles
      /\ tmp \in Handles \cup {NoHandle, Debris}
      /\ TmpInv /\ AloneInv /\ UseInv
  BY FileAssumption DEF FileTypeOK, Places
<1>1. /\ \A g \in Handles \ {h} :
           /\ use'[g].pc = use[g].pc /\ use'[g].op = use[g].op
           /\ use'[g].repair = use[g].repair
      /\ ~At(h, {"closed"}) /\ excuses \subseteq excuses'
      /\ Ended(h) \in {"act", "open", "closed"}
  BY <1>0, SaveSteps DEF Saving, At, Writing, Stale
<1>2. UseInv'
  BY <1>0, SaveSteps DEF UseInv, Saving, At, Writing
<1>3. "overlap" \notin excuses' =>
        \A f, g \in Handles : ~At(f, {"closed"})' /\ ~At(g, {"closed"})' => f = g
  BY <1>0, <1>1, StillAlone
<1>4. "overlap" \notin excuses => \A g \in Handles \ {h} : At(g, {"closed"})
  BY <1>0, <1>1 DEF AloneInv
<1>5. \A g \in Handles : tmp = g => At(g, OwnTmp)
  BY <1>0 DEF TmpInv
<1>6. tmp \in Handles /\ tmp # h => "overlap" \in excuses
  BY <1>4, <1>5 DEF At, OwnTmp
<1> DEFINE Finished == \E r \in {"ok", "failed", "blocked"} : Finish(h, r)
<1>7. Finished => use'[h].pc \in {"act", "open", "closed"}
  BY <1>0, <1>1, FinishEnds DEF Ends
<1>8. \A to \in Writing : Goto(h, to) =>
        use'[h].pc = to /\ \A g \in Handles : use'[g].saw = use[g].saw
  BY <1>0, GotoMoves DEF Moves, Pcs
<1>9. {"stale_open", "stale_remove", "recreate", "write", "unlock", "rename", "sync", "anchor"}
        \subseteq Writing
  BY DEF Writing, Stale
<1>10. CASE Create(h) \/ Recreate(h)
  <2>1. CASE MakeTmp(h)
    <3>1. \A g \in Handles : use'[g].pc = IF g = h THEN "lock" ELSE use[g].pc
      BY <1>0, <2>1, MakeTmpMoves
    <3>2. tmp = NoHandle /\ tmp' = h /\ filled' = filled \ {h}
      BY <2>1 DEF MakeTmp
    <3>3. UNCHANGED <<inPlace, excuses>>
      BY <1>10 DEF Create, Recreate, Unchanged
    <3>4. TmpInv'
      BY <1>0, <3>1, <3>2, <3>3 DEF TmpInv, At, OwnTmp
    <3>5. AloneInv'
      BY <1>0, <1>3, <1>4, <3>1, <3>2, <3>3 DEF AloneInv, At
    <3> QED
      BY <1>2, <3>4, <3>5 DEF Places
  <2>2. CASE tmp # NoHandle /\ UNCHANGED <<tmp, filled>> /\ (Goto(h, "stale_open") \/ Finished)
    <3>1. use'[h].pc \in {"stale_open", "act", "open", "closed"}
      BY <1>7, <1>8, <1>9, <2>2
    <3>2. UNCHANGED <<inPlace, excuses, tmp, filled>> /\ At(h, {"create", "recreate"})
      BY <1>10, <2>2 DEF Create, Recreate, Unchanged, At
    <3>3. TmpInv'
      BY <1>0, <1>1, <3>1, <3>2 DEF TmpInv, At, OwnTmp
    <3>4. AloneInv'
      BY <1>0, <1>1, <1>3, <1>4, <2>2, <3>1, <3>2 DEF AloneInv, At
    <3> QED
      BY <1>2, <3>3, <3>4 DEF Places
  <2> QED
    BY <1>10, <2>1, <2>2 DEF Create, Recreate
<1>11. CASE StaleOpen(h)
  <2>1. UNCHANGED <<inPlace, excuses, tmp, filled>> /\ At(h, {"stale_open"})
    BY <1>11 DEF StaleOpen, Unchanged
  <2>2. \/ use'[h].pc \in {"act", "open", "closed"}
        \/ use'[h].pc = "stale_lock" /\ use'[h].saw = tmp /\ tmp # NoHandle
    <3>1. CASE tmp = NoHandle
      BY <1>7, <1>11, <3>1 DEF StaleOpen
    <3>2. CASE tmp # NoHandle
      <4>1. use' = [use EXCEPT ![h].pc = "stale_lock", ![h].saw = tmp]
        BY <1>11, <3>2 DEF StaleOpen
      <4> QED
        BY <1>0, <3>2, <4>1 DEF Uses
    <3> QED
      BY <3>1, <3>2
  <2>3. TmpInv'
    BY <1>0, <1>1, <2>1, <2>2 DEF TmpInv, At, OwnTmp
  <2>4. AloneInv'
    BY <1>0, <1>1, <1>3, <1>4, <1>6, <1>5, <2>1, <2>2 DEF AloneInv, At, OwnTmp
  <2> QED
    BY <1>2, <2>3, <2>4 DEF Places
<1>12. CASE StaleLock(h)
  <2>1. UNCHANGED <<inPlace, excuses, tmp, filled>> /\ At(h, {"stale_lock"})
    BY <1>12 DEF StaleLock, Unchanged
  <2>2. use'[h].pc \in {"act", "open", "closed", "stale_remove"}
    BY <1>7, <1>8, <1>9, <1>12 DEF StaleLock
  <2>3. TmpInv'
    BY <1>0, <1>1, <2>1, <2>2 DEF TmpInv, At, OwnTmp
  <2>4. AloneInv'
    BY <1>0, <1>1, <1>3, <1>4, <2>1, <2>2 DEF AloneInv, At
  <2> QED
    BY <1>2, <2>3, <2>4 DEF Places
<1>13. CASE StaleRemove(h)
  <2>1. /\ UNCHANGED <<inPlace, filled>> /\ At(h, {"stale_remove"}) /\ tmp' = NoHandle
        /\ excuses' = excuses \cup Taken(tmp)
    BY <1>13 DEF StaleRemove
  <2>2. use'[h].pc \in {"act", "open", "closed", "recreate"}
    BY <1>7, <1>8, <1>9, <1>13 DEF StaleRemove
  <2>3. TmpInv'
    BY <1>0, <1>1, <1>5, <1>6, <2>1, <2>2 DEF TmpInv, At, OwnTmp, Taken
  <2>4. AloneInv'
    BY <1>0, <1>1, <1>3, <1>4, <2>1, <2>2 DEF AloneInv, At
  <2> QED
    BY <1>2, <2>3, <2>4 DEF Places
<1>14. CASE LockTmp(h) \/ Write(h) \/ UnlockTmp(h)
  <2>1. /\ UNCHANGED <<excuses, tmp>> /\ At(h, {"lock", "write", "unlock"})
        /\ inPlace' \in {inPlace, NoHandle}
        /\ filled \subseteq filled'
        /\ \/ use'[h].pc = "write"
           \/ use'[h].pc \in {"unlock", "rename"} /\ (h \in filled' \/ At(h, {"unlock"}))
    BY <1>8, <1>9, <1>14 DEF LockTmp, Write, UnlockTmp, Unchanged, At
  <2>2. TmpInv'
    BY <1>0, <1>1, <2>1 DEF TmpInv, At, OwnTmp
  <2>3. AloneInv'
    BY <1>0, <1>1, <1>3, <1>4, <2>1 DEF AloneInv, At
  <2> QED
    BY <1>2, <2>2, <2>3 DEF Places
<1>15. CASE WriteFails(h)
  <2>1. /\ UNCHANGED <<inPlace, filled>> /\ At(h, {"write"}) /\ tmp' = NoHandle
        /\ excuses' = excuses \cup Taken(IF tmp = h THEN NoHandle ELSE tmp)
    BY <1>15 DEF WriteFails
  <2>2. use'[h].pc \in {"act", "open", "closed"}
    BY <1>7, <1>15 DEF WriteFails
  <2>3. TmpInv'
    BY <1>0, <1>1, <1>5, <1>6, <2>1, <2>2 DEF TmpInv, At, OwnTmp, Taken
  <2>4. AloneInv'
    BY <1>0, <1>1, <1>3, <1>4, <2>1, <2>2 DEF AloneInv, At
  <2> QED
    BY <1>2, <2>3, <2>4 DEF Places
<1>16. CASE Rename(h)
  <2>1. CASE tmp = NoHandle
    <3>1. UNCHANGED <<inPlace, excuses, tmp, filled>> /\ At(h, {"rename"})
      BY <1>16, <2>1 DEF Rename
    <3>2. use'[h].pc \in {"act", "open", "closed"}
      BY <1>7, <1>16, <2>1 DEF Rename
    <3>3. TmpInv'
      <4>1. \A g \in Handles : use'[g].pc \in OwnTmp => g # h /\ use[g].pc = use'[g].pc
        BY <1>1, <3>2 DEF OwnTmp
      <4>2. tmp' \notin Handles
        BY <1>0, <2>1, <3>1
      <4> QED
        BY <1>0, <3>1, <4>1, <4>2 DEF TmpInv, At, OwnTmp
    <3>4. AloneInv'
      BY <1>0, <1>1, <1>3, <1>4, <3>1, <3>2 DEF AloneInv, At
    <3> QED
      BY <1>2, <3>3, <3>4 DEF Places
  <2>2. CASE tmp # NoHandle
    <3>1. /\ UNCHANGED <<filled>> /\ At(h, {"rename"}) /\ tmp' = NoHandle
          /\ excuses' = excuses \cup Taken(IF tmp = h THEN NoHandle ELSE tmp)
          /\ inPlace' = IF tmp \in Handles \ filled THEN tmp ELSE NoHandle
          /\ use'[h].pc = "sync"
      BY <1>8, <1>9, <1>16, <2>2 DEF Rename
    <3>2. h \in filled
      BY <1>0, <3>1 DEF TmpInv, At
    <3>3. TmpInv'
      BY <1>0, <1>1, <1>5, <1>6, <3>1 DEF TmpInv, At, OwnTmp, Taken
    <3>4. AloneInv'
      BY <1>0, <1>1, <1>3, <1>4, <1>6, <3>1, <3>2 DEF AloneInv, At
    <3> QED
      BY <1>2, <3>3, <3>4 DEF Places
  <2> QED
    BY <2>1, <2>2
<1>17. CASE SyncDirectory(h) \/ StoreAnchor(h)
  <2>1. /\ UNCHANGED <<inPlace, tmp, filled>> /\ At(h, {"sync", "anchor"})
        /\ "taken" \in excuses' => "taken" \in excuses
    BY <1>17 DEF SyncDirectory, StoreAnchor, Unsynced, At
  <2>2. use'[h].pc \in {"act", "open", "closed", "anchor"}
    BY <1>7, <1>8, <1>9, <1>17 DEF SyncDirectory, StoreAnchor
  <2>3. TmpInv'
    BY <1>0, <1>1, <2>1, <2>2 DEF TmpInv, At, OwnTmp
  <2>4. AloneInv'
    BY <1>0, <1>1, <1>3, <1>4, <2>1, <2>2 DEF AloneInv, At
  <2> QED
    BY <1>2, <2>3, <2>4 DEF Places
<1> QED
  BY <1>10, <1>11, <1>12, <1>13, <1>14, <1>15, <1>16, <1>17 DEF Save

\* The outside closes handles, and opens none.
LEMMA OutsidePlaces ==
  ASSUME FileTypeOK, Places,
         \/ \E h \in Handles : Kill(h)
         \/ Delete \/ PowerCut \/ LoseKey \/ Tick \/ Restore
  PROVE  Places'
<1>0. /\ use \in [Handles -> Uses] /\ {NoHandle, Debris} \cap Handles = {}
      /\ NoHandle # Debris /\ \A h \in Handles : use[h] \in Uses
      /\ TmpInv /\ AloneInv /\ UseInv
  BY FileAssumption DEF FileTypeOK, Places
<1>1. ASSUME NEW h \in Handles, Kill(h) PROVE Places'
  <2>1. /\ \A g \in Handles \ {h} : use'[g] = use[g]
        /\ use'[h].pc = "closed" /\ ~use'[h].repair
        /\ tmp' = IF tmp = h THEN Debris ELSE tmp
        /\ filled' = filled \ {h} /\ inPlace' \in {inPlace, NoHandle}
        /\ excuses \subseteq excuses' /\ ("taken" \in excuses' => "taken" \in excuses)
        /\ ~At(h, {"closed"})
    BY <1>0, <1>1, KilledIsClosed DEF Kill, Unsynced
  <2>2. TmpInv'
    BY <1>0, <2>1 DEF TmpInv, At, OwnTmp
  <2>3. AloneInv'
    BY <1>0, <2>1 DEF AloneInv, At
  <2>4. UseInv'
    BY <1>0, <2>1 DEF UseInv, At, Saving
  <2> QED
    BY <2>2, <2>3, <2>4 DEF Places
<1>2. CASE PowerCut
  <2>1. \A g \in Handles : use'[g].pc = "closed" /\ ~use'[g].repair
    BY <1>0, <1>2, KilledIsClosed DEF PowerCut
  <2>2. tmp' \notin Handles /\ inPlace' = NoHandle /\ excuses' = excuses
    BY <1>0, <1>2 DEF PowerCut
  <2> QED
    BY <1>0, <2>1, <2>2 DEF Places, TmpInv, AloneInv, UseInv, At, OwnTmp, Saving
<1>3. CASE Delete \/ LoseKey \/ Tick \/ Restore
  <2>1. /\ UNCHANGED <<use, tmp, inPlace, filled, locked>> /\ excuses \subseteq excuses'
        /\ "taken" \in excuses' => "taken" \in excuses
    BY <1>3 DEF Delete, LoseKey, Tick, Restore, Elsewhere
  <2>2. TmpInv'
    BY <1>0, <2>1 DEF TmpInv, At
  <2>3. AloneInv'
    BY <1>0, <2>1 DEF AloneInv, At
  <2>4. UseInv'
    BY <1>0, <2>1 DEF UseInv, At, Saving
  <2> QED
    BY <2>2, <2>3, <2>4 DEF Places
<1> QED
  BY <1>1, <1>2, <1>3

---------------------------------------------------------------------------
\* What the file, the anchor and the handles hold.
Holdings == DataInv /\ TimeInv /\ AnchorInv

Quiet == excuses \cap {"overlap", "deleted"} = {}
Blameless == excuses \cap {"restored", "deleted", "unsynced", "overlap", "clock"} = {}

\* The numbers in them, and what is alone.
LEMMA FileFacts ==
  ASSUME FileTypeOK
  PROVE  /\ \A v \in Version : v.counter \in Nat /\ v.ts \in Nat /\ v.key \in Nat
         /\ \A h \in Handles : header[h] \in Version
         /\ anchor.counter \in Nat /\ anchor.ts \in Nat /\ anchor.there \in BOOLEAN
         /\ clock \in Nat /\ settled \in Nat /\ backup \in Version
         /\ use \in [Handles -> Uses] /\ \A h \in Handles : use[h] \in Uses
         /\ Absent \notin Version /\ Torn \notin Version
<1>1. /\ \A n \in 0..MaxCounter : n \in Nat
      /\ \A n \in 0..MaxClock : n \in Nat
      /\ \A n \in 0..MaxKeys : n \in Nat
  BY FileAssumption
<1>2. \A v \in Version : v.counter \in Nat /\ v.ts \in Nat /\ v.key \in Nat
  BY <1>1 DEF Version
<1>3. anchor.counter \in Nat /\ anchor.ts \in Nat /\ anchor.there \in BOOLEAN
      /\ clock \in Nat /\ settled \in Nat
  BY <1>1 DEF FileTypeOK
<1> QED
  BY <1>2, <1>3, FileAssumption DEF FileTypeOK

\* Nothing that is held changes: a handle stays, or leaves its check or its sync
\* for a place where less is known.
LEMMA HoldingsKept ==
  ASSUME FileTypeOK, FileTypeOK', Holdings,
         UNCHANGED <<file, durable, header, anchor, settled, backup>>,
         excuses \subseteq excuses',
         "clock" \in excuses' \/ clock <= clock',
         \A g \in Handles :
           \/ use'[g].pc = "closed"
           \/ use'[g].pc = use[g].pc /\ use'[g].op = use[g].op
           \/ /\ use'[g].pc \notin {"closed", "check", "repair", "sync", "anchor"}
              /\ ~At(g, {"closed", "check"}) /\ use'[g].op = use[g].op,
         \A g \in Handles :
           At(g, {"sync"}) /\ use'[g].pc # "sync" => "unsynced" \in excuses'
  PROVE  Holdings'
<1>1. \A g \in Handles : ~At(g, {"closed"}) /\ HandleData(g) /\ ~At(g, {"closed"})' => HandleData(g)'
  BY DEF HandleData, At
<1>2. DataInv'
  <2>1. \A g \in Handles : ~At(g, {"closed"})' => ~At(g, {"closed"})
    BY DEF At
  <2>2. \A g \in Handles : At(g, {"sync"}) => At(g, {"sync"})' \/ "unsynced" \in excuses'
    BY DEF At
  <2> QED
    BY <1>1, <2>1, <2>2 DEF Holdings, DataInv
<1>3. TimeInv'
  BY FileFacts DEF Holdings, TimeInv, FileTypeOK
<1>4. AnchorInv'
  BY DEF Holdings, AnchorInv, AnchorBelow, At
<1> QED
  BY <1>2, <1>3, <1>4 DEF Holdings

\* A handle reads the file.
LEMMA ReadStep ==
  ASSUME FileTypeOK, FileTypeOK', Places', Holdings, NEW h \in Handles,
         NEW op, op # "init", NEW arg, Read(h, op, arg)
  PROVE  Holdings'
<1>1. /\ UNCHANGED <<file, durable, anchor, settled, backup, clock>>
      /\ excuses \subseteq excuses' /\ file \in Version
      /\ header'[h] = file /\ \A g \in Handles \ {h} : header'[g] = header[g]
      /\ use'[h].pc = "check" /\ use'[h].op = op
      /\ \A g \in Handles \ {h} : use'[g] = use[g]
  <2>1. /\ UNCHANGED <<file, durable, anchor, settled, backup, clock>>
        /\ excuses \subseteq excuses' /\ file \in Version
        /\ header'[h] = file /\ \A g \in Handles \ {h} : header'[g] = header[g]
    BY DEF Read, Readable, FileTypeOK
  <2>2. use' = [use EXCEPT ![h].pc = "check", ![h].op = op, ![h].arg = arg,
                           ![h].result = "none"]
    BY DEF Read
  <2>3. /\ use'[h].pc = "check" /\ use'[h].op = op
        /\ \A g \in Handles \ {h} : use'[g] = use[g]
    BY <2>2, FileFacts DEF Uses
  <2> QED
    BY <2>1, <2>3
<1>2. "overlap" \notin excuses' => \A g \in Handles : ~At(g, {"closed"})' => g = h
  BY <1>1 DEF Places, AloneInv, At
<1>3. DataInv'
  <2> SUFFICES ASSUME Quiet' PROVE DataInv'
    BY DEF DataInv, Quiet
  <2>1. HandleData(h)'
    BY <1>1 DEF Quiet, HandleData, At, Holdings, DataInv
  <2>2. file # durable => "unsynced" \in excuses'
    <3>1. \A g \in Handles : At(g, {"sync"}) => g = h
      BY <1>1, <1>2 DEF Quiet, At
    <3>2. ~At(h, {"sync"})
      BY DEF Read, At
    <3> QED
      BY <1>1, <3>1, <3>2 DEF Quiet, Holdings, DataInv
  <2> QED
    BY <1>1, <1>2, <2>1, <2>2 DEF Quiet, Holdings, DataInv
<1>4. TimeInv'
  BY <1>1 DEF Holdings, TimeInv
<1>5. AnchorInv'
  BY <1>1 DEF Holdings, AnchorInv, AnchorBelow, At
<1> QED
  BY <1>3, <1>4, <1>5 DEF Holdings

\* A new vault is only made where the old one was removed.
LEMMA InitializeStep ==
  ASSUME FileTypeOK, FileTypeOK', Holdings, NEW h \in Handles,
         NEW m, NEW k, Initialize(h, m, k)
  PROVE  Holdings'
<1>1. /\ UNCHANGED <<file, durable, anchor, settled, backup, clock>>
      /\ excuses \subseteq excuses' /\ file = Absent
      /\ header'[h].ts = clock /\ \A g \in Handles \ {h} : header'[g] = header[g]
      /\ use'[h].op = "init"
      /\ \A g \in Handles \ {h} : use'[g] = use[g]
  <2>1. /\ UNCHANGED <<file, durable, anchor, settled, backup, clock>>
        /\ excuses \subseteq excuses' /\ file = Absent
        /\ header'[h].ts = clock /\ \A g \in Handles \ {h} : header'[g] = header[g]
    BY DEF Initialize, FileTypeOK
  <2>2. use' = [use EXCEPT ![h].pc = "create", ![h].op = "init", ![h].arg = m,
                           ![h].result = "none"]
    BY DEF Initialize
  <2>3. use'[h].op = "init" /\ \A g \in Handles \ {h} : use'[g] = use[g]
    BY <2>2, FileFacts DEF Uses
  <2> QED
    BY <2>1, <2>3
<1>2. ~Quiet /\ ~Quiet'
  BY <1>1, FileFacts DEF Quiet, Holdings, DataInv
<1>3. DataInv'
  BY <1>2 DEF DataInv, Quiet
<1>4. TimeInv'
  BY <1>1, FileFacts DEF Holdings, TimeInv
<1>5. AnchorInv'
  BY <1>1, <1>2 DEF Holdings, AnchorInv, At, Quiet
<1> QED
  BY <1>3, <1>4, <1>5 DEF Holdings

\* The counter is checked, and an absent anchor is adopted.
LEMMA CheckStep ==
  ASSUME FileTypeOK, FileTypeOK', Places, Holdings, NEW h \in Handles, CheckCounter(h)
  PROVE  Holdings'
<1>0. /\ UNCHANGED <<file, durable, header, settled, backup, clock>>
      /\ excuses \subseteq excuses' /\ At(h, {"check"})
  BY DEF CheckCounter
<1>1. CASE use' = [use EXCEPT ![h].pc = "closed", ![h].result = "rolled back"] /\ anchor' = anchor
  <2>1. use'[h].pc = "closed" /\ \A g \in Handles \ {h} : use'[g] = use[g]
    BY <1>1, FileFacts DEF Uses
  <2>2. \A g \in Handles : use'[g].pc = "closed" \/ use'[g] = use[g]
    BY <2>1
  <2>3. \A g \in Handles : At(g, {"sync"}) => use'[g].pc = "sync"
    BY <1>0, <2>1 DEF At
  <2>4. clock <= clock'
    BY <1>0, FileFacts
  <2> QED
    BY <1>0, <1>1, <2>2, <2>3, <2>4, HoldingsKept
<1>2. ASSUME NEW to, to = IF use[h].op # "touch" /\ Orphaned(header[h]) THEN "repair" ELSE "act",
             Goto(h, to),
             \/ ~Regressed(header[h]) /\ anchor' = anchor
             \/ ~anchor.there /\ anchor' = AnchorOf(header[h])
             \/ anchor' = anchor /\ "unread" \in excuses'
      PROVE  Holdings'
  <2>1. /\ use'[h].pc = to /\ use'[h].op = use[h].op
        /\ \A g \in Handles \ {h} : use'[g] = use[g]
        /\ to \in {"repair", "act"} /\ (to = "repair" => header[h].key # 0)
    <3>1. to \in {"repair", "act"} /\ (to = "repair" => header[h].key # 0)
      BY <1>2 DEF Orphaned
    <3> QED
      BY <1>2, <3>1, GotoMoves, FileFacts DEF Moves, Pcs
  <2>2. "overlap" \notin excuses' => \A g \in Handles : ~At(g, {"closed"}) => g = h
    BY <1>0 DEF Places, AloneInv, At
  <2>3. DataInv'
    <3>1. \A g \in Handles : HandleData(g) /\ ~At(g, {"closed"}) => HandleData(g)'
      BY <1>0, <2>1 DEF HandleData, At
    <3>2. \A g \in Handles : ~At(g, {"closed"})' <=> ~At(g, {"closed"})
      BY <1>0, <2>1 DEF At
    <3>3. \A g \in Handles : At(g, {"sync"})' <=> At(g, {"sync"})
      BY <1>0, <2>1 DEF At
    <3> QED
      BY <1>0, <3>1, <3>2, <3>3 DEF Holdings, DataInv
  <2>4. anchor' = anchor \/ (anchor'.counter = header[h].counter /\ anchor'.ts = header[h].ts
                             /\ anchor'.there)
    BY <1>2, AnchorTypes, FileFacts
  <2>5. TimeInv'
    BY <1>0, <2>4 DEF Holdings, TimeInv
  <2>6. /\ ~anchor'.there => anchor'.counter = 0 /\ anchor'.ts = 0
        /\ "unread" \notin excuses' => anchor'.counter <= header[h].counter
    <3>1. ~anchor.there => anchor.counter = 0 /\ anchor.ts = 0
      BY DEF Holdings, AnchorInv
    <3>2. ~Regressed(header[h]) => anchor.counter <= header[h].counter
      BY <3>1, FileFacts DEF Regressed
    <3>3. header[h].counter <= header[h].counter /\ 0 <= header[h].counter
      BY FileFacts
    <3> QED
      BY <1>2, <2>4, <3>1, <3>2, <3>3
  <2>7. Blameless' => /\ AnchorBelow(file)' /\ AnchorBelow(durable)'
                      /\ AnchorBelow(header[h])'
    <3> SUFFICES ASSUME Blameless' 
                 PROVE  /\ AnchorBelow(file)' /\ AnchorBelow(durable)'
                        /\ AnchorBelow(header[h])'
      OBVIOUS
    <3>1. Blameless /\ Quiet /\ "overlap" \notin excuses' /\ "unsynced" \notin excuses'
      BY <1>0 DEF Blameless, Quiet
    <3>2. file = header[h]
      BY <1>0, <3>1 DEF Holdings, DataInv, HandleData, At, Quiet
    <3>3. durable = file
      BY <1>0, <2>2, <3>1 DEF Holdings, DataInv, At, Quiet
    <3>4. AnchorBelow(header[h])
      BY <1>0, <3>1 DEF Holdings, AnchorInv, At, Blameless
    <3> QED
      BY <1>0, <2>4, <3>2, <3>3, <3>4, FileFacts DEF AnchorBelow
  <2>8. AnchorInv'
    <3>1. ASSUME excuses' \cap {"overlap", "unread"} = {}, NEW g \in Handles,
                 ~At(g, {"closed", "check"})' 
          PROVE  anchor'.counter <= header'[g].counter
      <4>1. g = h
        BY <2>1, <2>2, <3>1 DEF At
      <4> QED
        BY <1>0, <2>6, <3>1, <4>1
    <3>2. ASSUME Blameless', NEW g \in Handles, ~At(g, {"closed"})'
          PROVE  AnchorBelow(header[g])'
      <4>1. g = h
        BY <2>1, <2>2, <3>2 DEF At, Blameless
      <4> QED
        BY <2>7, <3>2, <4>1
    <3> QED
      BY <2>6, <2>7, <3>1, <3>2 DEF AnchorInv, Blameless
  <2> QED
    BY <2>3, <2>5, <2>8 DEF Holdings
<1> QED
  BY <1>1, <1>2 DEF CheckCounter

\* A save starts: the handle's version moves on.
LEMMA StartStep ==
  ASSUME FileTypeOK, FileTypeOK', Holdings, NEW h \in Handles,
         At(h, {"repair", "act", "open"}), use[h].op # "init",
         UNCHANGED <<file, durable, anchor, settled, backup, clock>>, excuses' = excuses,
         use'[h].pc = "create", use'[h].op = use[h].op,
         \A g \in Handles \ {h} : use'[g] = use[g] /\ header'[g] = header[g],
         header'[h].counter = header[h].counter + 1, header'[h].ts = clock,
         header'[h].key = header[h].key
           \/ (header'[h].key # 0 /\ (use[h].op = "rebind" \/ At(h, {"repair"})))
  PROVE  Holdings'
<1>1. DataInv'
  <2> SUFFICES ASSUME Quiet PROVE DataInv'
    BY DEF DataInv, Quiet
  <2>1. HandleData(h) /\ ~At(h, {"closed"})
    BY DEF Quiet, Holdings, DataInv, At
  <2>2. HandleData(h)'
    BY <2>1, FileFacts DEF HandleData, At
  <2>3. \A g \in Handles \ {h} : HandleData(g) => HandleData(g)'
    BY DEF HandleData, At
  <2>4. \A g \in Handles : At(g, {"sync"}) => At(g, {"sync"})'
    BY DEF At
  <2>5. \A g \in Handles : ~At(g, {"closed"})' => ~At(g, {"closed"})
    BY DEF At
  <2> QED
    BY <2>2, <2>3, <2>4, <2>5 DEF Quiet, Holdings, DataInv
<1>2. TimeInv'
  <2>1. clock <= clock
    BY FileFacts
  <2> QED
    BY <2>1 DEF Holdings, TimeInv
<1>3. AnchorInv'
  <2>1. anchor.counter <= header[h].counter => anchor.counter <= header'[h].counter
    BY FileFacts
  <2>2. Blameless => anchor.ts <= header'[h].ts
    BY DEF Holdings, TimeInv, Blameless
  <2>3. ~At(h, {"closed", "check"}) /\ ~At(h, {"closed"})
    BY DEF At
  <2>4. \A g \in Handles \ {h} :
          /\ ~At(g, {"closed", "check"})' => ~At(g, {"closed", "check"})
          /\ ~At(g, {"closed"})' => ~At(g, {"closed"})
          /\ AnchorBelow(header[g]) => AnchorBelow(header[g])'
    BY DEF At, AnchorBelow
  <2>5. Blameless' <=> Blameless
    BY DEF Blameless
  <2>6. Blameless => AnchorBelow(header[h])'
    BY <2>1, <2>2, <2>3 DEF Holdings, AnchorInv, Blameless, AnchorBelow
  <2> QED
    BY <2>1, <2>3, <2>4, <2>5, <2>6 DEF Holdings, AnchorInv, AnchorBelow, Blameless
<1> QED
  BY <1>1, <1>2, <1>3 DEF Holdings

\* All that an unlock is used for.
LEMMA UseHoldings ==
  ASSUME FileTypeOK, FileTypeOK', Places, Places', Holdings, NEW h \in Handles, UseVault(h)
  PROVE  Holdings'
<1>0. /\ UNCHANGED <<file, durable, settled, backup, clock>> /\ excuses \subseteq excuses'
      /\ \A g \in Handles \ {h} : use'[g] = use[g] 
      /\ clock <= clock' /\ header[h] \in Version /\ use[h].arg \in Masters
      /\ At(h, InMemory \ {"closed"}) => use[h].op # "init"
  <2>1. /\ UNCHANGED <<file, durable, settled, backup, clock>> /\ excuses \subseteq excuses'
        /\ \A g \in Handles \ {h} : use'[g] = use[g]
    BY UseSteps DEF Places
  <2>2. clock <= clock /\ header[h] \in Version /\ use[h].arg \in Masters
    <3>1. clock \in Nat /\ header[h] \in Version /\ use[h] \in Uses
      BY FileFacts
    <3>2. use[h].arg \in Masters
      BY <3>1 DEF Uses
    <3> QED
      BY <3>1, <3>2
  <2>3. At(h, InMemory \ {"closed"}) => use[h].op # "init"
    BY DEF Places, UseInv, At, InMemory, Saving, Writing, Stale
  <2> QED
    BY <2>1, <2>2, <2>3
<1>1. CASE \/ UnlockWithPassword(h) \/ UnlockBiometric(h) \/ RebindBiometric(h)
           \/ \E m \in Masters : ChangePassword(h, m)
  <2>1. PICK op, arg : op # "init" /\ Read(h, op, arg)
    BY <1>1 DEF UnlockWithPassword, UnlockBiometric, RebindBiometric, ChangePassword
  <2> QED
    BY <2>1, ReadStep
<1>2. CASE \E m \in Masters : \E k \in 0..MaxKeys : Initialize(h, m, k)
  BY <1>2, InitializeStep
<1>3. CASE CheckCounter(h)
  BY <1>3, CheckStep
<1>4. ASSUME At(h, {"repair", "act", "open"}), UNCHANGED <<header, anchor>>,
             NEW to \in {"act", "open", "closed"}, use'[h].pc = to, use'[h].op = use[h].op
      PROVE  Holdings'
  <2>1. \A g \in Handles : At(g, {"sync"}) => use'[g].pc = "sync"
    BY <1>0, <1>4 DEF At
  <2>2. \A g \in Handles :
          \/ use'[g].pc = "closed"
          \/ use'[g].pc = use[g].pc /\ use'[g].op = use[g].op
          \/ /\ use'[g].pc \notin {"closed", "check", "repair", "sync", "anchor"}
             /\ ~At(g, {"closed", "check"}) /\ use'[g].op = use[g].op
    BY <1>0, <1>4 DEF At
  <2> QED
    BY <1>0, <1>4, <2>1, <2>2, HoldingsKept
<1>5. \A to \in Pcs : Goto(h, to) => use'[h].pc = to /\ use'[h].op = use[h].op
  BY FileFacts, GotoMoves DEF Moves
<1>6. \A r : \A to \in {"closed", "open"} :
        use' = [use EXCEPT ![h].pc = to, ![h].result = r] =>
          use'[h].pc = to /\ use'[h].op = use[h].op
  BY FileFacts DEF Uses
<1>7. {"act", "create", "closed"} \subseteq Pcs
  BY DEF Pcs, Writing
<1>8. ASSUME NEW v \in Version, v.counter = header[h].counter, StartSave(h, v),
             At(h, {"repair", "act", "open"}), use'[h].pc = "create", use'[h].op = use[h].op,
             anchor' = anchor, excuses' = excuses,
             v.key = header[h].key
               \/ (v.key # 0 /\ (use[h].op = "rebind" \/ At(h, {"repair"})))
      PROVE  Holdings'
  <2>1. /\ header'[h].counter = header[h].counter + 1 /\ header'[h].ts = clock
        /\ header'[h].key = v.key
        /\ \A g \in Handles \ {h} : header'[g] = header[g]
    BY <1>8, StampedTypes
  <2>2. use[h].op # "init"
    BY <1>0, <1>8 DEF At, InMemory
  <2> QED
    BY <1>0, <1>8, <2>1, <2>2, StartStep
<1>9. CASE Repair(h)
  <2>1. At(h, {"repair"}) /\ UNCHANGED <<anchor, excuses>>
    BY <1>9 DEF Repair
  <2>2. CASE /\ MakeKey /\ StartSave(h, [header[h] EXCEPT !.key = SomeKey])
             /\ use' = [use EXCEPT ![h].pc = "create", ![h].repair = TRUE]
    <3>1. use'[h].pc = "create" /\ use'[h].op = use[h].op
      BY <2>2, FileFacts DEF Uses
    <3>2. PICK v \in Version : /\ v = [header[h] EXCEPT !.key = SomeKey]
                               /\ v.counter = header[h].counter /\ v.key # 0
      <4>1. PICK k \in 0..MaxKeys : k = SomeKey /\ k # 0
        BY <2>2, SomeKeyTypes
      <4>2. PICK v : v = [header[h] EXCEPT !.key = k]
        OBVIOUS
      <4>3. v \in Version /\ v.counter = header[h].counter /\ v.key = k
        BY <1>0, <4>2, ChangedVersions
      <4> QED
        BY <4>1, <4>2, <4>3
    <3> QED
      BY <1>8, <2>1, <2>2, <3>1, <3>2 DEF At
  <2>3. CASE Goto(h, "act") /\ UNCHANGED header
    BY <1>4, <1>5, <1>7, <2>1, <2>3 DEF At
  <2> QED
    BY <1>9, <2>2, <2>3 DEF Repair
<1>10. CASE Rotate(h)
  <2>1. /\ At(h, {"act"}) /\ UNCHANGED <<anchor, excuses>> /\ Goto(h, "create")
        /\ StartSave(h, [header[h] EXCEPT !.master = use[h].arg])
    BY <1>10 DEF Rotate
  <2>2. PICK v \in Version : /\ v = [header[h] EXCEPT !.master = use[h].arg]
                             /\ v.counter = header[h].counter /\ v.key = header[h].key
    BY <1>0, ChangedVersions
  <2> QED
    BY <1>5, <1>7, <1>8, <2>1, <2>2 DEF At
<1>11. CASE Rebind(h)
  <2>1. At(h, {"act"}) /\ UNCHANGED <<anchor, excuses>> /\ use[h].op = "rebind"
    BY <1>11 DEF Rebind
  <2>2. CASE /\ MakeKey /\ StartSave(h, [header[h] EXCEPT !.key = SomeKey])
             /\ Goto(h, "create")
    <3>1. PICK v \in Version : /\ v = [header[h] EXCEPT !.key = SomeKey]
                               /\ v.counter = header[h].counter /\ v.key # 0
      <4>1. PICK k \in 0..MaxKeys : k = SomeKey /\ k # 0
        BY <2>2, SomeKeyTypes
      <4>2. PICK v : v = [header[h] EXCEPT !.key = k]
        OBVIOUS
      <4>3. v \in Version /\ v.counter = header[h].counter /\ v.key = k
        BY <1>0, <4>2, ChangedVersions
      <4> QED
        BY <4>1, <4>2, <4>3
    <3> QED
      BY <1>5, <1>7, <1>8, <2>1, <2>2, <3>1 DEF At
  <2>3. CASE /\ use' = [use EXCEPT ![h].pc = "closed", ![h].result = "failed"]
             /\ UNCHANGED header
    BY <1>4, <1>6, <2>1, <2>3 DEF At
  <2> QED
    BY <1>11, <2>2, <2>3 DEF Rebind
<1>12. CASE Store(h)
  <2>1. /\ At(h, {"open"}) /\ UNCHANGED <<anchor, excuses>> /\ Goto(h, "create")
        /\ StartSave(h, header[h])
    BY <1>12 DEF Store
  <2> QED
    BY <1>0, <1>5, <1>7, <1>8, <2>1 DEF At
<1>13. CASE Open(h) \/ Lock(h)
  <2>1. At(h, {"act", "open"}) /\ UNCHANGED <<header, anchor>>
    BY <1>13 DEF Open, Lock, At
  <2>2. use'[h].pc \in {"open", "closed"} /\ use'[h].op = use[h].op
    BY <1>5, <1>6, <1>7, <1>13 DEF Open, Lock
  <2> QED
    BY <1>4, <2>1, <2>2 DEF At
<1> QED
  BY <1>1, <1>2, <1>3, <1>9, <1>10, <1>11, <1>12, <1>13 DEF UseVault

---------------------------------------------------------------------------
\* What is on disk and at the anchor, as a save moves on: a handle that is alone
\* finds its own file where it put it.
LEMMA SaveHoldings ==
  ASSUME FileTypeOK, FileTypeOK', Places, Places', Holdings, NEW h \in Handles, Save(h)
  PROVE  Holdings'
<1>0. /\ \A g \in Handles \ {h} : use'[g].pc = use[g].pc /\ use'[g].op = use[g].op
      /\ Saving(h) /\ ~At(h, {"closed"}) /\ use'[h].op = use[h].op
      /\ Ended(h) \in {"act", "open", "closed"} /\ (use[h].op = "init" => Ended(h) = "closed")
      /\ excuses \subseteq excuses' /\ UNCHANGED <<header, clock, backup>>
      /\ clock <= clock'
  <2>1. clock <= clock /\ (Saving(h) => ~At(h, {"closed"}))
    BY FileFacts DEF Saving, At, Writing, Stale
  <2> QED
    BY <2>1, SaveSteps DEF Places
<1>1. \A to \in Writing : Goto(h, to) => use'[h].pc = to
  BY FileFacts, GotoMoves DEF Moves, Pcs
<1>2. \A r \in {"ok", "failed", "blocked"} : Finish(h, r) => use'[h].pc = Ended(h)
  BY FileFacts, FinishEnds DEF Ends
<1>3. {"stale_open", "stale_lock", "stale_remove", "recreate", "lock", "write", "unlock",
       "rename", "sync", "anchor"} \subseteq Writing
  BY DEF Writing, Stale
<1>4. "overlap" \notin excuses' => \A g \in Handles \ {h} : At(g, {"closed"}) /\ ~At(g, {"sync"})
  BY <1>0 DEF Places, AloneInv, At
<1>5. ASSUME UNCHANGED <<file, durable, anchor, settled>>,
             use'[h].pc \notin {"check", "repair", "sync", "anchor"},
             At(h, {"sync"}) => "unsynced" \in excuses'
      PROVE  Holdings'
  <2>1. \A g \in Handles : At(g, {"sync"}) /\ use'[g].pc # "sync" => "unsynced" \in excuses'
    BY <1>0, <1>5 DEF At
  <2>2. ~At(h, {"closed", "check"})
    BY <1>0 DEF Saving, At, Writing, Stale
  <2>3. \A g \in Handles :
          \/ use'[g].pc = "closed"
          \/ use'[g].pc = use[g].pc /\ use'[g].op = use[g].op
          \/ /\ use'[g].pc \notin {"closed", "check", "repair", "sync", "anchor"}
             /\ ~At(g, {"closed", "check"}) /\ use'[g].op = use[g].op
    BY <1>0, <1>5, <2>2
  <2> QED
    BY <1>0, <1>5, <2>1, <2>3, HoldingsKept
<1>6. CASE Create(h) \/ StaleOpen(h) \/ StaleLock(h) \/ StaleRemove(h) \/ Recreate(h)
             \/ LockTmp(h) \/ WriteFails(h) \/ UnlockTmp(h)
  <2>1. UNCHANGED <<file, durable, anchor, settled>> /\ ~At(h, {"sync"})
    BY <1>6 DEF Create, StaleOpen, StaleLock, StaleRemove, Recreate, LockTmp, WriteFails, UnlockTmp,
       Unchanged, At
  <2>2. MakeTmp(h) => use'[h].pc = "lock"
    BY FileFacts, MakeTmpMoves
  <2>3. use' = [use EXCEPT ![h].pc = "stale_lock", ![h].saw = tmp] => use'[h].pc = "stale_lock"
    BY FileFacts DEF Uses
  <2>4. use'[h].pc \notin {"check", "repair", "sync", "anchor"}
    BY <1>0, <1>1, <1>2, <1>3, <1>6, <2>2, <2>3 DEF Create, StaleOpen, StaleLock, StaleRemove,
       Recreate, LockTmp, WriteFails, UnlockTmp
  <2> QED
    BY <1>5, <2>1, <2>4
<1>7. CASE Write(h)
  <2>1. UNCHANGED <<anchor, settled>> /\ ~At(h, {"sync"}) /\ use'[h].pc = "unlock"
    BY <1>1, <1>3, <1>7 DEF Write, Unchanged, At
  <2>2. CASE inPlace # h
    BY <1>5, <1>7, <2>1, <2>2 DEF Write
  <2>3. CASE inPlace = h
    <3>1. "overlap" \in excuses
      BY <2>3, FileAssumption DEF Places, AloneInv
    <3>2. DataInv'
      BY <1>0, <3>1 DEF DataInv
    <3>3. {file', durable'} \subseteq {header[h], durable}
      BY <1>7, <2>3 DEF Write
    <3>4. TimeInv'
      BY <1>0, <2>1, <3>3 DEF Holdings, TimeInv
    <3>5. AnchorInv'
      BY <1>0, <2>1, <3>1 DEF Holdings, AnchorInv
    <3> QED
      BY <3>2, <3>4, <3>5 DEF Holdings
  <2> QED
    BY <2>2, <2>3
<1>8. CASE Rename(h)
  <2>1. UNCHANGED <<anchor, settled, durable>> /\ At(h, {"rename"})
    BY <1>8 DEF Rename
  <2>2. CASE tmp = NoHandle
    <3>1. file' = file /\ use'[h].pc = Ended(h) /\ ~At(h, {"sync"})
      BY <1>2, <1>8, <2>1, <2>2 DEF Rename, At
    <3> QED
      BY <1>0, <1>5, <2>1, <3>1
  <2>3. CASE tmp # NoHandle
    <3>1. use'[h].pc = "sync" /\ file' = IF tmp \in filled THEN header[tmp] ELSE Torn
      BY <1>1, <1>3, <1>8, <2>3 DEF Rename
    <3>2. "overlap" \notin excuses' => file' = header[h]
      BY <1>0, <2>1, <3>1 DEF Places, TmpInv, At, OwnTmp
    <3>3. TimeInv'
      <4>1. file' \in Version => file'.ts <= clock \/ "clock" \in excuses
        <5>1. filled \subseteq Handles
          BY DEF FileTypeOK
        <5> QED
          BY <3>1, <5>1, FileFacts DEF Holdings, TimeInv
      <4> QED
        BY <1>0, <2>1, <4>1 DEF Holdings, TimeInv
    <3>4. DataInv'
      <4> SUFFICES ASSUME Quiet' PROVE DataInv'
        BY DEF DataInv, Quiet
      <4>1. /\ file' = header[h] /\ HandleData(h) /\ durable \in Version /\ file \in Version
            /\ file.key = 0 => durable.key = 0
            /\ durable.counter >= settled
            /\ \A g \in Handles \ {h} : At(g, {"closed"})'
        BY <1>0, <1>4, <3>2 DEF Quiet, Holdings, DataInv, At
      <4>2. HandleData(h)'
        BY <1>0, <2>1, <3>1, <4>1 DEF HandleData, At
      <4>3. At(h, {"sync"})'
        BY <3>1 DEF At
      <4>4. file'.key = 0 => durable'.key = 0
        BY <2>1, <4>1 DEF HandleData
      <4>5. file' \in Version /\ file'.counter >= settled' /\ durable'.counter >= settled'
        BY <2>1, <4>1, FileFacts DEF HandleData
      <4> QED
        BY <2>1, <4>1, <4>2, <4>3, <4>4, <4>5 DEF DataInv
    <3>5. AnchorInv'
      <4>1. Blameless' => AnchorBelow(header[h]) /\ file' = header[h] /\ AnchorBelow(durable)
        BY <1>0, <3>2 DEF Blameless, Holdings, AnchorInv
      <4>2. \A g \in Handles : 
              /\ ~At(g, {"closed"})' => ~At(g, {"closed"})
              /\ ~At(g, {"closed", "check"})' => ~At(g, {"closed", "check"})
        BY <1>0, <2>1 DEF At
      <4>3. \A g \in Handles : use'[g].op = use[g].op
        BY <1>0
      <4> QED
        BY <1>0, <2>1, <4>1, <4>2, <4>3 DEF Holdings, AnchorInv, AnchorBelow, Blameless
    <3> QED
      BY <3>3, <3>4, <3>5 DEF Holdings
  <2> QED
    BY <2>2, <2>3
<1>9. CASE SyncDirectory(h)
  <2>1. UNCHANGED <<anchor, settled, file>> /\ At(h, {"sync"})
    BY <1>9 DEF SyncDirectory
  <2>2. CASE Finish(h, "failed") /\ durable' = durable /\ excuses' = excuses \cup Unsynced(h)
    <3>1. use'[h].pc = Ended(h) /\ "unsynced" \in excuses'
      BY <1>2, <2>1, <2>2 DEF Unsynced
    <3> QED
      BY <1>0, <1>5, <2>1, <2>2, <3>1
  <2>3. CASE durable' = file /\ Goto(h, "anchor") /\ excuses' = excuses
    <3>1. use'[h].pc = "anchor"
      BY <1>1, <1>3, <2>3
    <3>2. TimeInv'
      BY <1>0, <2>1, <2>3 DEF Holdings, TimeInv
    <3>3. DataInv'
      <4> SUFFICES ASSUME Quiet PROVE DataInv'
        BY <2>3 DEF DataInv, Quiet
      <4>1. /\ HandleData(h) /\ file \in Version /\ file.counter >= settled
            /\ \A g \in Handles \ {h} : At(g, {"closed"})'
        BY <1>0, <1>4, <2>3 DEF Quiet, Holdings, DataInv, At
      <4>2. HandleData(h)'
        BY <1>0, <2>1, <2>3, <3>1, <4>1 DEF HandleData, At
      <4> QED
        BY <2>1, <2>3, <4>1, <4>2 DEF DataInv
    <3>4. AnchorInv'
      <4>1. \A g \in Handles : 
              /\ ~At(g, {"closed"})' => ~At(g, {"closed"})
              /\ ~At(g, {"closed", "check"})' => ~At(g, {"closed", "check"})
        BY <1>0, <2>1 DEF At
      <4>2. \A g \in Handles : use'[g].op = use[g].op
        BY <1>0
      <4> QED
        BY <1>0, <2>1, <2>3, <4>1, <4>2 DEF Holdings, AnchorInv, AnchorBelow
    <3> QED
      BY <3>2, <3>3, <3>4 DEF Holdings
  <2> QED
    BY <1>9, <2>2, <2>3 DEF SyncDirectory
<1>10. CASE StoreAnchor(h)
  <2>1. /\ UNCHANGED <<file, durable, excuses>> /\ At(h, {"anchor"})
        /\ settled' = header[h].counter /\ use'[h].pc = Ended(h)
    BY <1>2, <1>10 DEF StoreAnchor
  <2>2. /\ \/ anchor' = anchor
           \/ anchor'.counter = header[h].counter /\ anchor'.ts = header[h].ts /\ anchor'.there
        /\ use[h].op = "init" => anchor' = anchor
    BY <1>10, AnchorTypes, FileFacts DEF StoreAnchor
  <2>3. "overlap" \notin excuses => \A g \in Handles \ {h} : At(g, {"closed"})'
    BY <1>0, <1>4, <2>1 DEF At
  <2>4. TimeInv'
    BY <1>0, <2>1, <2>2 DEF Holdings, TimeInv
  <2>5. DataInv'
    <3> SUFFICES ASSUME Quiet PROVE DataInv'
      BY <2>1 DEF DataInv, Quiet
    <3>1. /\ HandleData(h) /\ file \in Version /\ file = header[h] /\ durable = file
          /\ \A g \in Handles \ {h} : At(g, {"closed"})'
      BY <1>0, <2>1, <2>3 DEF Quiet, Holdings, DataInv, At, HandleData
    <3>2. header[h].counter >= header[h].counter
      BY FileFacts
    <3>3. HandleData(h)'
      BY <1>0, <2>1, <3>1, <3>2 DEF HandleData, At
    <3> QED
      BY <2>1, <3>1, <3>2, <3>3 DEF DataInv
  <2>6. AnchorInv'
    <3>1. header[h].counter <= header[h].counter /\ header[h].ts <= header[h].ts
      BY FileFacts
    <3>2. ~anchor'.there => anchor'.counter = 0 /\ anchor'.ts = 0
      BY <2>2 DEF Holdings, AnchorInv
    <3>3. ASSUME excuses \cap {"overlap", "unread"} = {}, NEW g \in Handles,
                 ~At(g, {"closed", "check"})', use'[g].op # "init"
          PROVE  anchor'.counter <= header[g].counter
      <4>1. g = h /\ use[h].op # "init"
        BY <1>0, <2>3, <3>3 DEF At
      <4>2. anchor.counter <= header[h].counter
        BY <2>1, <3>3, <4>1 DEF Holdings, AnchorInv, At
      <4> QED
        BY <2>2, <3>1, <4>1, <4>2
    <3>4. ASSUME Blameless
          PROVE  /\ AnchorBelow(header[h])' /\ AnchorBelow(file)' /\ AnchorBelow(durable)'
                 /\ \A g \in Handles \ {h} : At(g, {"closed"})'
      <4>1. file = header[h] /\ durable = file /\ \A g \in Handles \ {h} : At(g, {"closed"})'
        BY <1>0, <2>1, <2>3, <3>4 DEF Blameless, Holdings, DataInv, At, HandleData
      <4>2. AnchorBelow(header[h])
        BY <1>0, <3>4 DEF Blameless, Holdings, AnchorInv
      <4> QED
        BY <1>0, <2>1, <2>2, <3>1, <4>1, <4>2 DEF AnchorBelow
    <3> QED
      BY <1>0, <2>1, <3>2, <3>3, <3>4 DEF AnchorInv, Blameless
  <2> QED
    BY <2>4, <2>5, <2>6 DEF Holdings
<1> QED
  BY <1>6, <1>7, <1>8, <1>9, <1>10 DEF Save

\* A kill forgets what a handle held; a power cut leaves one of two vaults.
LEMMA OutsideHoldings ==
  ASSUME FileTypeOK, FileTypeOK', Places, Holdings,
         \/ \E h \in Handles : Kill(h)
         \/ Delete \/ PowerCut \/ LoseKey \/ Tick \/ Restore
  PROVE  Holdings'
<1>0. /\ use \in [Handles -> Uses] /\ \A h \in Handles : use[h] \in Uses
      /\ clock \in Nat /\ clock <= clock /\ clock <= clock + 1 /\ backup \in Version
      /\ backup.counter \in Nat /\ backup.counter >= backup.counter
      /\ Absent \notin Version
  BY FileFacts
<1>1. ASSUME NEW h \in Handles, Kill(h) PROVE Holdings'
  <2>1. /\ UNCHANGED <<file, durable, header, anchor, settled, backup, clock>>
        /\ excuses' = excuses \cup Unsynced(h)
        /\ \A g \in Handles : use'[g].pc = "closed" \/ use'[g] = use[g]
        /\ \A g \in Handles \ {h} : use'[g] = use[g]
    BY <1>0, <1>1, KilledIsClosed DEF Kill
  <2>2. \A g \in Handles : At(g, {"sync"}) /\ use'[g].pc # "sync" => "unsynced" \in excuses'
    BY <2>1 DEF At, Unsynced
  <2>3. excuses \subseteq excuses' /\ clock <= clock'
    BY <1>0, <2>1
  <2> QED
    BY <2>1, <2>2, <2>3, HoldingsKept
<1>2. CASE LoseKey \/ Tick
  <2>1. /\ UNCHANGED <<file, durable, use, header, anchor, settled, backup>>
        /\ excuses \subseteq excuses' /\ ("clock" \in excuses' \/ clock <= clock')
    BY <1>0, <1>2 DEF LoseKey, Tick, Elsewhere
  <2>2. \A g \in Handles : At(g, {"sync"}) => use'[g].pc = "sync"
    BY <2>1 DEF At
  <2> QED
    BY <2>1, <2>2, HoldingsKept
<1>3. CASE Delete
  <2>1. /\ UNCHANGED <<durable, use, header, anchor, clock, backup>> /\ file' = Absent
        /\ "deleted" \in excuses' /\ excuses \subseteq excuses'
    BY <1>3 DEF Delete
  <2>2. DataInv'
    BY <2>1 DEF DataInv
  <2>3. TimeInv'
    BY <1>0, <2>1 DEF Holdings, TimeInv
  <2>4. AnchorInv'
    BY <2>1 DEF Holdings, AnchorInv, At
  <2> QED
    BY <2>2, <2>3, <2>4 DEF Holdings
<1>4. CASE PowerCut
  <2>1. \A h \in Handles : use'[h].pc = "closed"
    BY <1>0, <1>4, KilledIsClosed DEF PowerCut
  <2>2. /\ file' \in {file, durable} /\ durable' = file'
        /\ UNCHANGED <<header, anchor, clock, backup, settled, excuses>>
    BY <1>4 DEF PowerCut
  <2>3. DataInv'
    BY <2>1, <2>2 DEF Holdings, DataInv, At
  <2>4. TimeInv'
    BY <2>2 DEF Holdings, TimeInv
  <2>5. AnchorInv'
    BY <2>1, <2>2 DEF Holdings, AnchorInv, AnchorBelow, At
  <2> QED
    BY <2>3, <2>4, <2>5 DEF Holdings
<1>5. CASE Restore
  <2>1. /\ UNCHANGED <<use, header, anchor, clock, backup>>
        /\ file' = backup /\ durable' = backup /\ settled' = backup.counter
        /\ "restored" \in excuses' /\ excuses \subseteq excuses'
        /\ \A h \in Handles : At(h, {"closed"})'
    BY <1>5 DEF Restore, Elsewhere, At
  <2>2. DataInv'
    BY <1>0, <2>1 DEF DataInv, At
  <2>3. TimeInv'
    BY <1>0, <2>1 DEF Holdings, TimeInv
  <2>4. AnchorInv'
    BY <2>1 DEF Holdings, AnchorInv, At
  <2> QED
    BY <2>2, <2>3, <2>4 DEF Holdings
<1> QED
  BY <1>1, <1>2, <1>3, <1>4, <1>5

---------------------------------------------------------------------------
\* A vault at rest: everybody is closed and nothing has happened.
LEMMA FileInitially ==
  ASSUME FileInit
  PROVE  FileTypeOK /\ FileInv /\ VaultIsWhole
<1>1. PICK m \in Masters, k \in {0, 1} \cap 0..MaxKeys :
        /\ file = [counter |-> 0, ts |-> 0, master |-> m, key |-> k]
        /\ enclave = [key |-> k, made |-> k]
  BY DEF FileInit
<1>2. file \in Version /\ file.counter = 0 /\ file.ts = 0 /\ file.master = m
  BY <1>1, FileAssumption DEF Version
<1>3. /\ durable = file /\ backup = file /\ header = [h \in Handles |-> file]
      /\ inPlace = NoHandle /\ tmp = NoHandle /\ filled = {} /\ locked = {}
      /\ anchor = NoAnchor /\ clock = 0 /\ settled = 0 /\ told = m /\ excuses = {}
      /\ use = [h \in Handles |-> [pc |-> "closed", op |-> "none", arg |-> m,
                  saw |-> NoHandle, repair |-> FALSE, result |-> "ok"]]
  BY <1>2 DEF FileInit
<1>4. [pc |-> "closed", op |-> "none", arg |-> m, saw |-> NoHandle, repair |-> FALSE,
       result |-> "ok"] \in Uses
  BY DEF Uses
<1>5. use \in [Handles -> Uses] /\ header \in [Handles -> Version]
  BY <1>2, <1>3, <1>4
<1>6. /\ NoAnchor \in [counter : 0..MaxCounter, ts : 0..MaxClock, there : BOOLEAN]
      /\ 0 \in 0..MaxCounter /\ 0 \in 0..MaxClock
      /\ [key |-> k, made |-> k] \in [key : 0..MaxKeys, made : 0..MaxKeys]
  BY FileAssumption DEF NoAnchor
<1>7. FileTypeOK
  BY <1>1, <1>2, <1>3, <1>5, <1>6 DEF FileTypeOK
<1>8. \A h \in Handles :
        use[h].pc = "closed" /\ ~use[h].repair /\ use[h].op = "none" /\ header[h] = file
  BY <1>3
<1>9. Places
  BY <1>3, <1>8, FileAssumption DEF Places, TmpInv, AloneInv, UseInv, At, OwnTmp
<1>10. DataInv
  BY <1>2, <1>3, <1>8 DEF DataInv, At
<1>11. TimeInv
  BY <1>2, <1>3, <1>8 DEF TimeInv, NoAnchor
<1>12. AnchorInv
  BY <1>2, <1>3, <1>8 DEF AnchorInv, AnchorBelow, NoAnchor, At
<1>13. VaultIsWhole
  BY <1>2, <1>3, FileAssumption DEF VaultIsWhole
<1> QED
  BY <1>7, <1>9, <1>10, <1>11, <1>12, <1>13 DEF FileInv, Places

\* The strengthened invariant is inductive.
LEMMA FileInvStep ==
  ASSUME FileTypeOK, FileInv, [FileNext]_fileVars
  PROVE  FileInv'
<1>1. FileTypeOK' /\ Places /\ Holdings
  BY FileTypeStep DEF FileInv, Places, Holdings
<1>2. CASE \E h \in Handles : UseVault(h)
  BY <1>1, <1>2, UsePlaces, UseHoldings DEF FileInv, Places, Holdings
<1>3. CASE \E h \in Handles : Save(h)
  BY <1>1, <1>3, SavePlaces, SaveHoldings DEF FileInv, Places, Holdings
<1>4. CASE \/ \E h \in Handles : Kill(h)
           \/ Delete \/ PowerCut \/ LoseKey \/ Tick \/ Restore
  BY <1>1, <1>4, OutsidePlaces, OutsideHoldings DEF FileInv, Places, Holdings
<1>5. CASE UNCHANGED fileVars
  BY <1>5 DEF fileVars, FileInv, TmpInv, AloneInv, UseInv, DataInv, HandleData, TimeInv,
     AnchorInv, AnchorBelow, At, Saving
<1> QED
  BY <1>2, <1>3, <1>4, <1>5 DEF FileNext

\* Part of a file is only ever put at the vault's path by a rename of somebody
\* else's temporary file.
LEMMA WholeStep ==
  ASSUME FileTypeOK, FileInv, VaultIsWhole, [FileNext]_fileVars
  PROVE  VaultIsWhole'
<1>0. /\ Torn \notin Version /\ Torn # Absent /\ backup \in Version
      /\ \A h \in Handles : header[h] \in Version
      /\ TmpInv
  BY FileFacts, FileAssumption DEF FileInv
<1>1. ASSUME {file', durable'} \subseteq {file, durable}, excuses \subseteq excuses'
      PROVE  VaultIsWhole'
  BY <1>1 DEF VaultIsWhole
<1>2. CASE \E h \in Handles : UseVault(h)
  BY <1>1, <1>2, UseSteps DEF FileInv
<1>3. ASSUME NEW h \in Handles, Save(h) PROVE VaultIsWhole'
  <2>1. excuses \subseteq excuses'
    BY <1>3, SaveSteps DEF FileInv
  <2>2. CASE Write(h)
    BY <1>0, <2>1, <2>2 DEF Write, VaultIsWhole
  <2>3. CASE Rename(h)
    <3>1. durable' = durable /\ At(h, {"rename"})
      BY <2>3 DEF Rename
    <3>2. file' = file \/ file' \in Version \/ tmp \notin filled
      BY <1>0, <2>3 DEF Rename, FileTypeOK
    <3>3. tmp = h => tmp \in filled
      BY <1>0, <3>1 DEF TmpInv, At
    <3>4. tmp # h => {"taken", "overlap"} \subseteq excuses
      BY <1>0, <3>1 DEF TmpInv, At, OwnTmp
    <3> QED
      BY <1>0, <2>1, <3>1, <3>2, <3>3, <3>4 DEF VaultIsWhole
  <2>4. CASE ~Write(h) /\ ~Rename(h)
    <3>1. {file', durable'} \subseteq {file, durable}
      BY <1>3, <2>4 DEF Save, Create, StaleOpen, StaleLock, StaleRemove, Recreate, LockTmp,
         WriteFails, UnlockTmp, SyncDirectory, StoreAnchor
    <3> QED
      BY <1>1, <2>1, <3>1
  <2> QED
    BY <2>2, <2>3, <2>4
<1>4. CASE \/ \E h \in Handles : Kill(h)
           \/ PowerCut \/ LoseKey \/ Tick
  BY <1>1, <1>4 DEF Kill, PowerCut, LoseKey, Tick
<1>5. CASE Delete \/ Restore
  BY <1>0, <1>5 DEF Delete, Restore, VaultIsWhole
<1>6. CASE UNCHANGED fileVars
  BY <1>1, <1>6 DEF fileVars
<1> QED
  BY <1>2, <1>3, <1>4, <1>5, <1>6 DEF FileNext

---------------------------------------------------------------------------
\* Every variable keeps to its type.
THEOREM FileTypeCorrect == FileSpec => []FileTypeOK
<1>1. FileInit => FileTypeOK
  BY FileInitially
<1>2. FileTypeOK /\ [FileNext]_fileVars => FileTypeOK'
  BY FileTypeStep
<1> QED
  BY <1>1, <1>2, PTL DEF FileSpec

\* Whose the temporary file is, who is alone, and what the file, a handle, the
\* clock and the anchor have to do with each other.
THEOREM FileInvariant == FileSpec => []FileInv
<1>1. FileInit => FileInv
  BY FileInitially
<1>2. FileTypeOK /\ FileInv /\ [FileNext]_fileVars => FileInv'
  BY FileInvStep
<1> QED
  BY <1>1, <1>2, FileTypeCorrect, PTL DEF FileSpec

\* atomic_write_vault: whoever reads the vault after whatever kill or power cut
\* reads a whole one, unless a temporary file was taken from its writer.
THEOREM VaultStaysWhole == FileSpec => []VaultIsWhole
<1>1. FileInit => VaultIsWhole
  BY FileInitially
<1>2. FileTypeOK /\ FileInv /\ VaultIsWhole /\ [FileNext]_fileVars => VaultIsWhole'
  BY WholeStep
<1> QED
  BY <1>1, <1>2, FileTypeCorrect, FileInvariant, PTL DEF FileSpec

\* A save that was reported done is what every later reader gets, if not a later
\* one.
THEOREM SavedIsKept == FileSpec => []SavedStays
<1>1. FileInv => SavedStays
  BY DEF FileInv, DataInv, SavedStays
<1> QED
  BY <1>1, FileInvariant, PTL

\* What is open is never older than what the credential store has seen.
THEOREM OpenIsNeverOlder == FileSpec => []OpenIsCurrent
<1>1. FileTypeOK /\ FileInv => OpenIsCurrent
  <2> SUFFICES ASSUME FileTypeOK, FileInv, excuses \cap {"overlap", "clock", "unread"} = {},
                      NEW h \in Handles, At(h, {"open"})
               PROVE  header[h].counter >= anchor.counter
    BY DEF OpenIsCurrent
  <2>1. ~At(h, {"closed", "check"}) /\ use[h].op # "init"
    BY DEF FileInv, UseInv, At, Saving, Writing, Stale
  <2>2. anchor.counter <= header[h].counter
    BY <2>1 DEF FileInv, AnchorInv
  <2> QED
    BY <2>2, FileFacts
<1> QED
  BY <1>1, FileTypeCorrect, FileInvariant, PTL

\* Until it is checked, an unlock has no result.
Unchecked == \A h \in Handles : At(h, {"check"}) => use[h].result = "none"

\* The check refuses a version only if the anchor is ahead of it.
LEMMA CheckedSteps ==
  ASSUME FileTypeOK, FileInv, Unchecked, [FileNext]_fileVars
  PROVE  /\ Unchecked'
         /\ \A h \in Handles :
              At(h, {"check"}) /\ Blameless => use'[h].result # "rolled back"
<1>0. /\ use \in [Handles -> Uses] /\ \A g \in Handles : use[g] \in Uses
      /\ \A g \in Handles : At(g, {"check"}) /\ Blameless => ~Regressed(header[g])
  <2>1. ASSUME NEW g \in Handles, At(g, {"check"}), Blameless PROVE ~Regressed(header[g])
    <3>1. anchor.counter <= header[g].counter /\ anchor.ts <= header[g].ts
      BY <2>1 DEF FileInv, AnchorInv, AnchorBelow, At, Blameless
    <3>2. /\ anchor.counter \in Nat /\ anchor.ts \in Nat
          /\ header[g].counter \in Nat /\ header[g].ts \in Nat
      BY FileFacts
    <3> QED
      BY <3>1, <3>2 DEF Regressed
  <2> QED
    BY <2>1, FileFacts
<1>1. ASSUME NEW h \in Handles, 
             \A g \in Handles \ {h} : use'[g].pc = use[g].pc /\ use'[g].result = use[g].result,
             use'[h].pc = "check" => use'[h].result = "none",
             At(h, {"check"}) /\ Blameless => use'[h].result # "rolled back"
      PROVE  /\ Unchecked'
             /\ \A g \in Handles :
                  At(g, {"check"}) /\ Blameless => use'[g].result # "rolled back"
  BY <1>1 DEF Unchecked, At
<1>2. ASSUME NEW h \in Handles, UseVault(h)
      PROVE  /\ \A g \in Handles \ {h} : use'[g] = use[g]
             /\ use'[h].pc = "check" => use'[h].result = "none"
             /\ At(h, {"check"}) /\ Blameless => use'[h].result # "rolled back"
  <2>1. \A g \in Handles \ {h} : use'[g] = use[g]
    BY <1>2, UseSteps DEF FileInv
  <2>2. \A to \in Pcs : Goto(h, to) => use'[h].pc = to /\ use'[h].result = use[h].result
    BY <1>0 DEF Goto, Uses
  <2>3. \A r : \A to \in {"closed", "open"} :
          use' = [use EXCEPT ![h].pc = to, ![h].result = r] =>
            use'[h].pc = to
    BY <1>0 DEF Uses
  <2>4. use' = [use EXCEPT ![h].pc = "create", ![h].repair = TRUE] => use'[h].pc = "create"
    BY <1>0 DEF Uses
  <2>5. {"repair", "act", "create", "closed"} \subseteq Pcs
    BY DEF Pcs, Writing
  <2>6. ASSUME NEW op, NEW arg, Read(h, op, arg) 
        PROVE  At(h, {"closed"}) /\ use'[h].result = "none"
    BY <1>0, <2>6 DEF Read, Uses
  <2>7. CASE \/ UnlockWithPassword(h) \/ UnlockBiometric(h) \/ RebindBiometric(h)
             \/ \E m \in Masters : ChangePassword(h, m)
    <3>1. At(h, {"closed"}) /\ use'[h].result = "none"
      BY <2>6, <2>7 DEF UnlockWithPassword, UnlockBiometric, RebindBiometric, ChangePassword
    <3> QED
      BY <2>1, <3>1 DEF At
  <2>8. CASE \E m \in Masters : \E k \in 0..MaxKeys : Initialize(h, m, k)
    <3>1. At(h, {"closed"}) /\ use'[h].pc = "create"
      <4>1. PICK m, k : Initialize(h, m, k)
        BY <2>8
      <4>2. use' = [use EXCEPT ![h].pc = "create", ![h].op = "init", ![h].arg = m,
                               ![h].result = "none"]
        BY <4>1 DEF Initialize
      <4>3. At(h, {"closed"})
        BY <4>1 DEF Initialize
      <4> QED
        BY <1>0, <4>2, <4>3 DEF Uses
    <3> QED
      BY <2>1, <3>1 DEF At
  <2>9. CASE CheckCounter(h)
    <3>1. At(h, {"check"}) /\ use[h].result = "none"
      BY <2>9 DEF CheckCounter, Unchecked
    <3>2. CASE Regressed(header[h]) /\ use' = [use EXCEPT ![h].pc = "closed", ![h].result = "rolled back"]
      BY <1>0, <2>1, <2>3, <3>1, <3>2
    <3>3. CASE \E to \in {"repair", "act"} : Goto(h, to)
      BY <2>1, <2>2, <2>5, <3>1, <3>3
    <3> QED
      BY <2>9, <3>2, <3>3 DEF CheckCounter
  <2>10. CASE Repair(h) \/ Rotate(h) \/ Rebind(h) \/ Open(h) \/ Store(h) \/ Lock(h)
    <3>1. \/ \E to \in {"act", "create", "closed"} : Goto(h, to)
          \/ \E r : \E to \in {"closed", "open"} :
               use' = [use EXCEPT ![h].pc = to, ![h].result = r]
          \/ use' = [use EXCEPT ![h].pc = "create", ![h].repair = TRUE]
      BY <2>10 DEF Repair, Rotate, Rebind, Open, Store, Lock
    <3>2. ~At(h, {"check"})
      BY <2>10 DEF Repair, Rotate, Rebind, Open, Store, Lock, At
    <3>3. use'[h].pc # "check"
      BY <2>2, <2>3, <2>4, <2>5, <3>1
    <3> QED
      BY <2>1, <3>2, <3>3
  <2> QED
    BY <1>2, <2>7, <2>8, <2>9, <2>10 DEF UseVault
<1>3. ASSUME NEW h \in Handles, Save(h)
      PROVE  /\ \A g \in Handles \ {h} : use'[g].pc = use[g].pc /\ use'[g].result = use[g].result
             /\ use'[h].pc # "check" /\ ~At(h, {"check"})
  BY <1>3, SaveSteps DEF FileInv, Saving, At, Writing, Stale
<1>4. CASE \E h \in Handles : Kill(h) \/ PowerCut
  <2>1. \A g \in Handles : use'[g] = Killed(use[g]) \/ use'[g] = use[g]
    BY <1>0, <1>4 DEF Kill, PowerCut
  <2>2. \A g \in Handles : Killed(use[g]).pc = "closed" /\ Killed(use[g]).result = "killed"
    BY <1>0 DEF Killed, Uses
  <2> QED
    BY <2>1, <2>2 DEF Unchecked, At
<1>5. CASE Delete \/ LoseKey \/ Tick \/ Restore \/ UNCHANGED fileVars
  <2>1. use' = use
    BY <1>5 DEF Delete, LoseKey, Tick, Restore, Elsewhere, fileVars
  <2> QED
    BY <2>1 DEF Unchecked, At
<1>6. CASE PowerCut
  BY <1>4, <1>6 DEF PowerCut
<1> QED
  BY <1>1, <1>2, <1>3, <1>4, <1>5, <1>6 DEF FileNext

\* rollback.rs: a vault that nobody put back, made anew or wrote beside another
\* handle is never refused as rolled back.
THEOREM OnlyRestoredIsRefused == FileSpec => RefusedOnlyIfRestored
<1>1. FileInit => Unchecked
  <2> SUFFICES ASSUME FileInit PROVE Unchecked
    OBVIOUS
  <2>1. \A h \in Handles : use[h].pc = "closed"
    BY DEF FileInit
  <2> QED
    BY <2>1 DEF Unchecked, At
<1>2. FileTypeOK /\ FileInv /\ Unchecked /\ [FileNext]_fileVars => Unchecked'
  BY CheckedSteps
<1>3. FileTypeOK /\ FileInv /\ Unchecked /\ [FileNext]_fileVars =>
        [\A h \in Handles : At(h, {"check"}) /\ use'[h].result = "rolled back" =>
           excuses \cap {"restored", "deleted", "unsynced", "overlap", "clock"} # {}]_fileVars
  BY CheckedSteps DEF Blameless
<1> QED
  BY <1>1, <1>2, <1>3, FileTypeCorrect, FileInvariant, PTL DEF FileSpec, RefusedOnlyIfRestored

\* Only another handle ever blocks a save.
BlockedByOther == \A h \in Handles : use[h].result = "blocked" => "overlap" \in excuses

\* A handle that is alone finds nothing at the temporary path that it cannot
\* take away.
LEMMA BlockedSteps ==
  ASSUME FileTypeOK, FileInv, BlockedByOther, [FileNext]_fileVars
  PROVE  /\ BlockedByOther'
         /\ \A h \in Handles : use'[h].result = "blocked" => "overlap" \in excuses \/ ~At(h, Stale)
<1>0. /\ use \in [Handles -> Uses] /\ \A g \in Handles : use[g] \in Uses
      /\ locked \subseteq Handles /\ AloneInv
  BY FileFacts DEF FileTypeOK, FileInv
<1>1. ASSUME NEW h \in Handles, excuses \subseteq excuses',
             \A g \in Handles \ {h} : use'[g].result = use[g].result,
             use'[h].result = "blocked" => use[h].result = "blocked" \/ "overlap" \in excuses
      PROVE  /\ BlockedByOther'
             /\ \A g \in Handles :
                  use'[g].result = "blocked" => "overlap" \in excuses \/ ~At(g, Stale)
  BY <1>1 DEF BlockedByOther
<1>2. \A h \in Handles : \A to \in Pcs : Goto(h, to) => use'[h].result = use[h].result
  BY <1>0 DEF Goto, Uses
<1>3. ASSUME NEW h \in Handles, UseVault(h)
      PROVE  /\ \A g \in Handles \ {h} : use'[g] = use[g]
             /\ excuses \subseteq excuses'
             /\ use'[h].result = "blocked" => use[h].result = "blocked"
  <2>1. (\A g \in Handles \ {h} : use'[g] = use[g]) /\ excuses \subseteq excuses'
    BY <1>3, UseSteps DEF FileInv
  <2>2. \A r : \A to \in {"closed", "open"} :
          use' = [use EXCEPT ![h].pc = to, ![h].result = r] => use'[h].result = r
    BY <1>0 DEF Uses
  <2>3. use' = [use EXCEPT ![h].pc = "create", ![h].repair = TRUE] =>
          use'[h].result = use[h].result
    <3>1. use[h] \in Uses
      BY <1>0
    <3>2. [use[h] EXCEPT !.pc = "create", !.repair = TRUE].result = use[h].result
      BY <3>1 DEF Uses
    <3> QED
      BY <1>0, <3>2
  <2>4. ASSUME NEW op, NEW arg, NEW to \in {"check", "create"},
               use' = [use EXCEPT ![h].pc = to, ![h].op = op, ![h].arg = arg, ![h].result = "none"]
        PROVE  use'[h].result = "none"
    BY <1>0, <2>4 DEF Uses
  <2>5. {"repair", "act", "create", "closed"} \subseteq Pcs
    BY DEF Pcs, Writing
  <2>6. \/ \E to \in Pcs : Goto(h, to)
        \/ \E r \in {"rolled back", "failed", "ok"} : \E to \in {"closed", "open"} :
             use' = [use EXCEPT ![h].pc = to, ![h].result = r]
        \/ use' = [use EXCEPT ![h].pc = "create", ![h].repair = TRUE]
        \/ \E op, arg : \E to \in {"check", "create"} :
             use' = [use EXCEPT ![h].pc = to, ![h].op = op, ![h].arg = arg, ![h].result = "none"]
    <3>1. CASE CheckCounter(h) \/ Repair(h) \/ Rotate(h) \/ Rebind(h) \/ Open(h) \/ Store(h)
                 \/ Lock(h)
      BY <2>5, <3>1 DEF CheckCounter, Repair, Rotate, Rebind, Open, Store, Lock
    <3>2. CASE \/ UnlockWithPassword(h) \/ UnlockBiometric(h) \/ RebindBiometric(h)
               \/ \E m \in Masters : ChangePassword(h, m)
      <4>1. PICK op, arg : Read(h, op, arg)
        BY <3>2 DEF UnlockWithPassword, UnlockBiometric, RebindBiometric, ChangePassword
      <4> QED
        BY <4>1 DEF Read
    <3>3. CASE \E m \in Masters : \E k \in 0..MaxKeys : Initialize(h, m, k)
      <4>1. PICK m, k : Initialize(h, m, k)
        BY <3>3
      <4> QED
        BY <4>1 DEF Initialize
    <3> QED
      BY <1>3, <3>1, <3>2, <3>3 DEF UseVault
  <2>7. use'[h].result \in {use[h].result, "rolled back", "failed", "ok", "none"}
    <3>1. CASE \E to \in Pcs : Goto(h, to)
      BY <1>2, <3>1
    <3>2. CASE \E r \in {"rolled back", "failed", "ok"} : \E to \in {"closed", "open"} :
                 use' = [use EXCEPT ![h].pc = to, ![h].result = r]
      BY <2>2, <3>2
    <3>3. CASE \E op, arg : \E to \in {"check", "create"} :
                 use' = [use EXCEPT ![h].pc = to, ![h].op = op, ![h].arg = arg,
                                    ![h].result = "none"]
      BY <2>4, <3>3
    <3> QED
      BY <2>3, <2>6, <3>1, <3>2, <3>3
  <2> QED
    BY <2>1, <2>7
<1>4. ASSUME NEW h \in Handles, Save(h)
      PROVE  /\ \A g \in Handles \ {h} : use'[g].result = use[g].result
             /\ excuses \subseteq excuses'
             /\ use'[h].result = "blocked" => use[h].result = "blocked" \/ "overlap" \in excuses
  <2>1. (\A g \in Handles \ {h} : use'[g].result = use[g].result) /\ excuses \subseteq excuses'
    BY <1>4, SaveSteps DEF FileInv
  <2>2. ASSUME NEW r \in {"ok", "failed"}, Finish(h, r)
        PROVE  use'[h].result \in {"none", "ok", "failed"}
    <3>1. PICK res \in {"none", r} : res = IF use[h].repair THEN "none" ELSE r
      OBVIOUS
    <3>2. use' = [use EXCEPT ![h].pc = Ended(h), ![h].repair = FALSE, ![h].saw = NoHandle,
                             ![h].result = res]
      BY <2>2, <3>1 DEF Finish
    <3> QED
      BY <1>0, <3>2 DEF Uses
  <2>3. MakeTmp(h) => use'[h].result = use[h].result
    BY <1>0, MakeTmpMoves
  <2>4. use' = [use EXCEPT ![h].pc = "stale_lock", ![h].saw = tmp] =>
          use'[h].result = use[h].result
    <3>1. use[h] \in Uses
      BY <1>0
    <3>2. [use[h] EXCEPT !.pc = "stale_lock", !.saw = tmp].result = use[h].result
      BY <3>1 DEF Uses
    <3> QED
      BY <1>0, <3>2
  <2>5. {"stale_open", "stale_remove", "recreate", "write", "unlock", "rename", "sync", "anchor"}
          \subseteq Pcs
    BY DEF Pcs, Writing, Stale
  <2>6. \/ use'[h].result = use[h].result
        \/ use'[h].result \in {"none", "ok", "failed"}
        \/ "overlap" \in excuses
    <3>1. CASE StaleOpen(h) \/ StaleLock(h) \/ StaleRemove(h) \/ Create(h) \/ Recreate(h)
      <4>1. CASE \E to \in Pcs : Goto(h, to)
        BY <1>2, <4>1
      <4>2. CASE MakeTmp(h) \/ use' = [use EXCEPT ![h].pc = "stale_lock", ![h].saw = tmp]
        BY <2>3, <2>4, <4>2
      <4>3. CASE ~(\E to \in Pcs : Goto(h, to)) /\ ~MakeTmp(h)
                   /\ use' # [use EXCEPT ![h].pc = "stale_lock", ![h].saw = tmp]
        <5>1. \/ At(h, {"stale_open", "stale_remove"}) /\ tmp = NoHandle
              \/ At(h, {"stale_lock"}) /\ use[h].saw \in locked
              \/ At(h, {"recreate"}) /\ tmp # NoHandle
          BY <2>5, <3>1, <4>3 DEF StaleOpen, StaleLock, HeldByWriter, StaleRemove, Create,
             Recreate, At
        <5> QED
          BY <1>0, <5>1 DEF AloneInv, At
      <4> QED
        BY <4>1, <4>2, <4>3
    <3>2. CASE \/ LockTmp(h) \/ Write(h) \/ WriteFails(h) \/ UnlockTmp(h) \/ Rename(h)
               \/ SyncDirectory(h) \/ StoreAnchor(h)
      <4>1. (\E to \in Pcs : Goto(h, to)) \/ \E r \in {"ok", "failed"} : Finish(h, r)
        BY <2>5, <3>2 DEF LockTmp, Write, WriteFails, UnlockTmp, Rename, SyncDirectory, StoreAnchor
      <4> QED
        BY <1>2, <2>2, <4>1
    <3> QED
      BY <1>4, <3>1, <3>2 DEF Save
  <2> QED
    BY <2>1, <2>6
<1>5. CASE (\E h \in Handles : Kill(h)) \/ PowerCut
  <2>1. /\ \A g \in Handles : use'[g] = Killed(use[g]) \/ use'[g] = use[g]
        /\ excuses \subseteq excuses'
    BY <1>0, <1>5 DEF Kill, PowerCut
  <2>2. \A g \in Handles : Killed(use[g]).result = "killed"
    BY <1>0 DEF Killed, Uses
  <2> QED
    BY <2>1, <2>2 DEF BlockedByOther
<1>6. CASE Delete \/ LoseKey \/ Tick \/ Restore \/ UNCHANGED fileVars
  <2>1. use' = use /\ excuses \subseteq excuses'
    BY <1>6 DEF Delete, LoseKey, Tick, Restore, Elsewhere, fileVars
  <2> QED
    BY <2>1 DEF BlockedByOther
<1> QED
  BY <1>1, <1>3, <1>4, <1>5, <1>6 DEF FileNext

\* open_tmp_reclaiming_stale: what a killed writer left never blocks a later
\* save; only another writer does.
THEOREM DebrisBlocksNobody == FileSpec => DebrisNeverBlocks
<1>1. FileInit => BlockedByOther
  BY DEF FileInit, BlockedByOther
<1>2. FileTypeOK /\ FileInv /\ BlockedByOther /\ [FileNext]_fileVars => BlockedByOther'
  BY BlockedSteps
<1>3. FileTypeOK /\ FileInv /\ BlockedByOther /\ [FileNext]_fileVars =>
        [\A h \in Handles : At(h, Stale) /\ use'[h].result = "blocked" =>
           "overlap" \in excuses]_fileVars
  BY BlockedSteps
<1> QED
  BY <1>1, <1>2, <1>3, FileTypeCorrect, FileInvariant, PTL DEF FileSpec, DebrisNeverBlocks

\* biometric.rs: a vault without a wrapper of the enclave is given one only by a
\* rebind, never by the repair of a lost key.
THEOREM OnlyARebindEnrolls == FileSpec => EnrolledOnlyOnRequest
<1>1. ASSUME FileTypeOK, FileInv, [FileNext]_fileVars, Readable, Readable', file.key = 0,
             file' # backup, Quiet, file'.key # 0
      PROVE  \E h \in Handles : Saving(h) /\ use[h].op = "rebind"
  <2>1. /\ durable.key = 0 /\ inPlace = NoHandle /\ TmpInv /\ "overlap" \notin excuses
        /\ \A h \in Handles : ~At(h, {"closed"}) => HandleData(h)
        /\ NoHandle \notin Handles
    BY <1>1, FileAssumption DEF FileInv, DataInv, AloneInv, Quiet
  <2>2. CASE \E h \in Handles : Rename(h)
    <3>1. PICK h \in Handles : Rename(h)
      BY <2>2
    <3>2. At(h, {"rename"}) /\ h \in filled /\ tmp = h
      BY <2>1, <3>1 DEF Rename, TmpInv, At, OwnTmp
    <3>3. file' = header[h]
      BY <1>1, <2>1, <3>1, <3>2 DEF Rename
    <3>4. HandleData(h) /\ Saving(h)
      BY <2>1, <3>2 DEF At, Saving, Writing
    <3> QED
      BY <1>1, <3>3, <3>4 DEF HandleData
  <2>3. CASE ~\E h \in Handles : Rename(h)
    <3>1. file' \in {file, durable, backup, Absent}
      <4>1. CASE \E h \in Handles : UseVault(h)
        BY <4>1, <1>1, UseSteps DEF FileInv
      <4>2. CASE \E h \in Handles : Save(h)
        BY <2>1, <2>3, <4>2 DEF Save, Create, StaleOpen, StaleLock, StaleRemove, Recreate, LockTmp,
           Write, WriteFails, UnlockTmp, SyncDirectory, StoreAnchor
      <4>3. CASE \/ \E h \in Handles : Kill(h)
                 \/ Delete \/ PowerCut \/ LoseKey \/ Tick \/ Restore
        BY <4>3 DEF Kill, Delete, PowerCut, LoseKey, Tick, Restore
      <4> QED
        BY <1>1, <4>1, <4>2, <4>3 DEF FileNext, fileVars
    <3> QED
      BY <1>1, <2>1, <3>1 DEF Readable
  <2> QED
    BY <2>2, <2>3
<1>2. FileTypeOK /\ FileInv /\ [FileNext]_fileVars =>
        [Readable /\ Readable' /\ file.key = 0 /\ file' # backup
           /\ excuses \cap {"deleted", "overlap"} = {} =>
         file'.key = 0 \/ \E h \in Handles : Saving(h) /\ use[h].op = "rebind"]_fileVars
  BY <1>1 DEF Quiet
<1> QED
  BY <1>2, FileTypeCorrect, FileInvariant, PTL DEF FileSpec, EnrolledOnlyOnRequest
=============================================================================
