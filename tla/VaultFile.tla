------------------------------ MODULE VaultFile ------------------------------
(***************************************************************************)
(* The vault file on disk and everybody who holds it open: the vault crate *)
(* (crates/vault/src), api/ and format/write.rs and rollback.rs.           *)
(*                                                                         *)
(* A handle is one use of a vault: an unlock and what is done with the     *)
(* UnlockedVault it gives.  The app keeps one open for as long as it runs, *)
(* and a change of the master password is a second one beside it; another  *)
(* multitop is a third.  A save is a row of file system calls, interleaved *)
(* here one by one.                                                        *)
(***************************************************************************)
EXTENDS Naturals, FiniteSets

CONSTANTS
  Handles,        \* uses of the vault, one thread or process each
  NoHandle,       \* nobody
  Absent,         \* no file at the vault's path
  Torn,           \* part of a file there
  Masters,        \* master passwords
  MaxCounter,     \* bound of the header's counter
  MaxClock,       \* bound of the wall clock
  MaxKeys         \* bound of the enclave keys ever made

VARIABLES
  file,     \* what is at the vault's path
  durable,  \* what a power cut may leave there instead
  inPlace,  \* the handle whose unfinished file is at the vault's path
  tmp,      \* whose file is at the path of the temporary file
  filled,   \* the handles that have written their temporary file in full
  locked,   \* the handles that hold the lock of their temporary file
  use,      \* where each handle is and what it is there for
  header,   \* header and contents in each handle's memory
  anchor,   \* the counter and time in the OS credential store
  enclave,  \* the enclave key that loads, and how many were ever made
  clock,    \* the wall clock
  backup,   \* a copy of the vault kept elsewhere
  settled,  \* history: the counter of the last save that was reported done
  told,     \* history: the master password the operator was told is the vault's
  excuses   \* history: what has happened that a refusal can be blamed on

fileVars == <<file, durable, inPlace, tmp, filled, locked, use, header, anchor,
              enclave, clock, backup, settled, told, excuses>>

\* A vault: its counter and time, the password that opens it and the enclave
\* key it can also be opened with (0: none).  Its counter stands for what it
\* holds: every save has one of its own.
Version == [counter : 0..MaxCounter, ts : 0..MaxClock, master : Masters,
            key : 0..MaxKeys]

Debris == "debris"   \* a temporary file whose writer is gone
Nobody == "nobody"   \* no master password was told
NoAnchor == [counter |-> 0, ts |-> 0, there |-> FALSE]

ASSUME FileAssumption ==
  /\ {NoHandle, Debris} \cap Handles = {} /\ NoHandle # Debris /\ Nobody \notin Masters
  /\ {Absent, Torn} \cap Version = {} /\ Absent # Torn
  /\ MaxCounter \in Nat /\ MaxClock \in Nat /\ MaxKeys \in Nat

Readable == file \notin {Absent, Torn}

Stale   == {"stale_open", "stale_lock", "stale_remove", "recreate"}
Writing == {"create", "lock", "write", "unlock", "rename", "sync", "anchor"} \cup Stale
At(h, pcs) == use[h].pc \in pcs
Saving(h)  == At(h, Writing)
Goto(h, to) == use' = [use EXCEPT ![h].pc = to]

FileInit ==
  /\ \E m \in Masters, k \in {0, 1} \cap 0..MaxKeys :
       /\ file = [counter |-> 0, ts |-> 0, master |-> m, key |-> k]
       /\ enclave = [key |-> k, made |-> k]
  /\ durable = file /\ backup = file
  /\ header = [h \in Handles |-> file]
  /\ use = [h \in Handles |-> [pc |-> "closed", op |-> "none", arg |-> file.master,
                            saw |-> NoHandle, repair |-> FALSE, result |-> "ok"]]
  /\ inPlace = NoHandle /\ tmp = NoHandle /\ filled = {} /\ locked = {}
  /\ anchor = NoAnchor
  /\ clock = 0
  /\ settled = 0 /\ told = file.master
  /\ excuses = {}

---------------------------------------------------------------------------
\* A second handle beside one that is not closed.
Overlap(h) == IF \E g \in Handles \ {h} : ~At(g, {"closed"}) THEN {"overlap"} ELSE {}

\* The file is read and verified; the password's key derivation or the touch
\* takes seconds, and only then is the counter checked.
Read(h, op, arg) ==
  /\ At(h, {"closed"}) /\ Readable
  /\ header' = [header EXCEPT ![h] = file]
  /\ use' = [use EXCEPT ![h].pc = "check", ![h].op = op, ![h].arg = arg,
                         ![h].result = "none"]
  /\ excuses' = excuses \cup Overlap(h)
  /\ UNCHANGED <<file, durable, inPlace, tmp, filled, locked, anchor, enclave,
                 clock, backup, settled, told>>

\* unlock_with_password with the right password, for a session, for a change
\* of the password to m, and for binding it to the enclave.
UnlockWithPassword(h) == Read(h, "session", use[h].arg)
ChangePassword(h, m)  == Readable /\ file.master # m /\ Read(h, "rotate", m)
RebindBiometric(h)    == Read(h, "rebind", use[h].arg)

\* unlock_biometric: the wrapper must be of the key that loads now.
UnlockBiometric(h) ==
  /\ Readable /\ file.key # 0 /\ file.key = enclave.key
  /\ Read(h, "touch", use[h].arg)

\* Mutants: nothing is compared; the same counter is refused as well.
NeverRegressed(v) == FALSE
NotAdvanced(v) == anchor.there /\ (v.counter <= anchor.counter \/ v.ts < anchor.ts)

\* check_counter_in: an absent anchor is adopted, an unreadable one is skipped.
Regressed(v) == anchor.there /\ (v.counter < anchor.counter \/ v.ts < anchor.ts)

AnchorOf(v) == [counter |-> v.counter, ts |-> v.ts, there |-> TRUE]

\* save, the part in memory; the counter and the contents stay as they are
\* there even when the save fails.
Stamped(v) == [v EXCEPT !.counter = @ + 1, !.ts = clock]

StartSave(h, v) ==
  /\ header[h].counter < MaxCounter
  /\ header' = [header EXCEPT ![h] = Stamped(v)]

\* should_rebind_biometric: there is a wrapper and its key does not load.
Orphaned(v) == v.key # 0 /\ enclave.key = 0

\* get_secure_enclave: the key that loads, or a new one.
SomeKey == IF enclave.key # 0 THEN enclave.key ELSE enclave.made + 1
MakeKey ==
  /\ SomeKey <= MaxKeys
  /\ enclave' = IF enclave.key # 0 THEN enclave ELSE [key |-> SomeKey, made |-> SomeKey]

\* A refused handle closes; one that passed repairs the enclave's wrapper or
\* goes on.
CheckCounter(h) ==
  /\ At(h, {"check"})
  /\ LET v == header[h]
         pass == IF use[h].op # "touch" /\ Orphaned(v) THEN "repair" ELSE "act"
     IN \/ /\ Regressed(v)
           /\ use' = [use EXCEPT ![h].pc = "closed", ![h].result = "rolled back"]
           /\ UNCHANGED <<anchor, excuses>>
        \/ /\ ~Regressed(v) /\ Goto(h, pass)
           /\ anchor' \in {anchor, IF anchor.there THEN anchor ELSE AnchorOf(v)}
           /\ UNCHANGED excuses
        \/ /\ Regressed(v) /\ Goto(h, pass)
           /\ excuses' = excuses \cup {"unread"}
           /\ UNCHANGED anchor
  /\ UNCHANGED <<file, durable, inPlace, tmp, filled, locked, header, enclave,
                 clock, backup, settled, told>>

\* rebind_enclave_wrapper, whose failures are swallowed.
Repair(h) ==
  /\ At(h, {"repair"})
  /\ \/ /\ MakeKey
        /\ StartSave(h, [header[h] EXCEPT !.key = SomeKey])
        /\ use' = [use EXCEPT ![h].pc = "create", ![h].repair = TRUE]
     \/ Goto(h, "act") /\ UNCHANGED <<enclave, header>>
  /\ UNCHANGED <<file, durable, inPlace, tmp, filled, locked, anchor, clock,
                 backup, settled, told, excuses>>

\* change_password: a new salt and wrapper, put into the header and saved.
Rotate(h) ==
  /\ At(h, {"act"}) /\ use[h].op = "rotate"
  /\ StartSave(h, [header[h] EXCEPT !.master = use[h].arg])
  /\ Goto(h, "create")
  /\ told' = Nobody
  /\ UNCHANGED <<file, durable, inPlace, tmp, filled, locked, anchor, enclave,
                 clock, backup, settled, excuses>>

\* rebind_biometric: add_wrapper and save, or no hardware.
Rebind(h) ==
  /\ At(h, {"act"}) /\ use[h].op = "rebind"
  /\ \/ /\ MakeKey
        /\ StartSave(h, [header[h] EXCEPT !.key = SomeKey])
        /\ Goto(h, "create")
     \/ /\ use' = [use EXCEPT ![h].pc = "closed", ![h].result = "failed"]
        /\ UNCHANGED <<enclave, header>>
  /\ UNCHANGED <<file, durable, inPlace, tmp, filled, locked, anchor, clock,
                 backup, settled, told, excuses>>

Open(h) ==
  /\ At(h, {"act"}) /\ use[h].op \in {"session", "touch"}
  /\ use' = [use EXCEPT ![h].pc = "open", ![h].result = "ok"]
  /\ UNCHANGED <<file, durable, inPlace, tmp, filled, locked, header, anchor,
                 enclave, clock, backup, settled, told, excuses>>

---------------------------------------------------------------------------
\* set_password and remove_password of a session: the contents change in
\* memory, and are saved.
Store(h) ==
  /\ At(h, {"open"})
  /\ StartSave(h, header[h])
  /\ Goto(h, "create")
  /\ UNCHANGED <<file, durable, inPlace, tmp, filled, locked, anchor, enclave,
                 clock, backup, settled, told, excuses>>

Lock(h) ==
  /\ At(h, {"open"})
  /\ Goto(h, "closed")
  /\ UNCHANGED <<file, durable, inPlace, tmp, filled, locked, header, anchor,
                 enclave, clock, backup, settled, told, excuses>>

\* initialize: refused when there is a vault; the counter starts at 0, and no
\* anchor is written.
Initialize(h, m, k) ==
  /\ At(h, {"closed"}) /\ file = Absent
  /\ k \in {0, enclave.key}
  /\ LET v == [counter |-> 0, ts |-> clock, master |-> m, key |-> k]
     IN header' = [header EXCEPT ![h] = v]
  /\ use' = [use EXCEPT ![h].pc = "create", ![h].op = "init", ![h].arg = m,
                         ![h].result = "none"]
  /\ excuses' = excuses \cup Overlap(h)
  /\ told' = Nobody
  /\ UNCHANGED <<file, durable, inPlace, tmp, filled, locked, anchor, enclave,
                 clock, backup, settled>>

\* delete: the directory is not synced, and the anchor stays.
Delete ==
  /\ file # Absent /\ \A h \in Handles : At(h, {"closed"})
  /\ file' = Absent
  /\ excuses' = excuses \cup {"deleted"}
  /\ UNCHANGED <<durable, inPlace, tmp, filled, locked, use, header, anchor,
                 enclave, clock, backup, settled, told>>

---------------------------------------------------------------------------
\* atomic_write_vault.  How a save ends: a session stays open, the rest close;
\* a repair goes on with what the unlock was for.
Ended(h) == IF use[h].repair THEN "act"
            ELSE IF use[h].op \in {"session", "touch"} THEN "open" ELSE "closed"

Finish(h, result) ==
  use' = [use EXCEPT ![h].pc = Ended(h), ![h].repair = FALSE, ![h].saw = NoHandle,
                     ![h].result = IF use[h].repair THEN "none" ELSE result]

Unchanged == UNCHANGED <<anchor, enclave, clock, backup, told, excuses, header>>

\* create_new: a file of ours, which is not the one a neighbour opened before.
MakeTmp(h) ==
  /\ tmp = NoHandle /\ tmp' = h
  /\ filled' = filled \ {h}
  /\ use' = [g \in Handles |->
       IF g = h THEN [use[g] EXCEPT !.pc = "lock"]
       ELSE IF use[g].saw = h THEN [use[g] EXCEPT !.saw = NoHandle] ELSE use[g]]

Create(h) ==
  /\ At(h, {"create"})
  /\ MakeTmp(h) \/ (tmp # NoHandle /\ Goto(h, "stale_open") /\ UNCHANGED <<tmp, filled>>)
  /\ UNCHANGED <<file, durable, inPlace, locked, settled>> /\ Unchanged

StaleOpen(h) ==
  /\ At(h, {"stale_open"})
  /\ IF tmp = NoHandle
       THEN Finish(h, "blocked")
       ELSE use' = [use EXCEPT ![h].pc = "stale_lock", ![h].saw = tmp]
  /\ UNCHANGED <<file, durable, inPlace, tmp, filled, locked, settled>> /\ Unchanged

\* try_lock_exclusive tells a live writer's file from debris.
HeldByWriter(h) == use[h].saw \in locked

StaleLock(h) ==
  /\ At(h, {"stale_lock"})
  /\ IF HeldByWriter(h) THEN Finish(h, "blocked") ELSE Goto(h, "stale_remove")
  /\ UNCHANGED <<file, durable, inPlace, tmp, filled, locked, settled>> /\ Unchanged

\* What happens to a file that its writer still uses.
Taken(g) == IF g \in Handles THEN {"taken"} ELSE {}

\* remove_file takes whatever is at the path now.
StaleRemove(h) ==
  /\ At(h, {"stale_remove"})
  /\ IF tmp = NoHandle THEN Finish(h, "blocked") ELSE Goto(h, "recreate")
  /\ tmp' = NoHandle
  /\ excuses' = excuses \cup Taken(tmp)
  /\ UNCHANGED <<file, durable, inPlace, filled, locked, settled, anchor, enclave,
                 clock, backup, told, header>>

Recreate(h) ==
  /\ At(h, {"recreate"})
  /\ MakeTmp(h) \/ (tmp # NoHandle /\ Finish(h, "blocked") /\ UNCHANGED <<tmp, filled>>)
  /\ UNCHANGED <<file, durable, inPlace, locked, settled>> /\ Unchanged

LockTmp(h) ==
  /\ At(h, {"lock"})
  /\ locked' = locked \cup {h}
  /\ Goto(h, "write")
  /\ UNCHANGED <<file, durable, inPlace, tmp, filled, settled>> /\ Unchanged

\* Mutant: the file is renamed before it is written.
RenameEarly(h) ==
  /\ At(h, {"write"}) /\ Goto(h, "rename")
  /\ UNCHANGED <<file, durable, inPlace, tmp, filled, locked, settled>> /\ Unchanged

\* Header, ciphertext and sync_all; the file may have been moved to the
\* vault's path in the meantime.
Write(h) ==
  /\ At(h, {"write"})
  /\ filled' = filled \cup {h}
  /\ IF inPlace = h
       THEN /\ file' = header[h] /\ inPlace' = NoHandle
            /\ durable' = IF durable = Torn THEN header[h] ELSE durable
       ELSE UNCHANGED <<file, inPlace, durable>>
  /\ Goto(h, "unlock")
  /\ UNCHANGED <<tmp, locked, settled>> /\ Unchanged

\* A full disk: the guard takes the temporary file away again.
WriteFails(h) ==
  /\ At(h, {"write"})
  /\ tmp' = NoHandle /\ locked' = locked \ {h}
  /\ Finish(h, "failed")
  /\ excuses' = excuses \cup Taken(IF tmp = h THEN NoHandle ELSE tmp)
  /\ UNCHANGED <<file, durable, inPlace, filled, settled, anchor, enclave, clock,
                 backup, told, header>>

UnlockTmp(h) ==
  /\ At(h, {"unlock"})
  /\ locked' = locked \ {h}
  /\ Goto(h, "rename")
  /\ UNCHANGED <<file, durable, inPlace, tmp, filled, settled>> /\ Unchanged

\* rename moves whatever is at the temporary path now.
Rename(h) ==
  /\ At(h, {"rename"})
  /\ \/ /\ tmp = NoHandle
        /\ Finish(h, "failed")
        /\ UNCHANGED <<file, inPlace, tmp, excuses>>
     \/ /\ tmp # NoHandle
        /\ file' = IF tmp \in filled THEN header[tmp] ELSE Torn
        /\ inPlace' = IF tmp \in Handles \ filled THEN tmp ELSE NoHandle
        /\ excuses' = excuses \cup Taken(IF tmp = h THEN NoHandle ELSE tmp)
        /\ tmp' = NoHandle
        /\ Goto(h, "sync")
  /\ UNCHANGED <<durable, filled, locked, settled, anchor, enclave, clock,
                 backup, told, header>>

\* A rename that is left without its sync.
Unsynced(h) == IF At(h, {"sync"}) THEN {"unsynced"} ELSE {}

\* Mutant: the directory is not synced.
SkipSync(h) ==
  /\ At(h, {"sync"}) /\ Goto(h, "anchor")
  /\ UNCHANGED <<file, durable, inPlace, tmp, filled, locked, settled>> /\ Unchanged

SyncDirectory(h) ==
  /\ At(h, {"sync"})
  /\ \/ durable' = file /\ Goto(h, "anchor") /\ UNCHANGED excuses
     \/ /\ Finish(h, "failed") /\ UNCHANGED durable
        /\ excuses' = excuses \cup Unsynced(h)
  /\ UNCHANGED <<file, inPlace, tmp, filled, locked, settled, anchor, enclave, clock,
                 backup, told, header>>

\* store_counter, whose failure is swallowed; not called by initialize.  The
\* save is over: nobody may be given anything older from here on.
StoreAnchor(h) ==
  /\ At(h, {"anchor"})
  /\ anchor' \in IF use[h].op = "init" THEN {anchor} ELSE {anchor, AnchorOf(header[h])}
  /\ settled' = header[h].counter
  /\ told' = IF use[h].op \in {"init", "rotate"} /\ ~use[h].repair
               THEN header[h].master ELSE told
  /\ Finish(h, "ok")
  /\ UNCHANGED <<file, durable, inPlace, tmp, filled, locked, enclave, clock,
                 backup, excuses, header>>

---------------------------------------------------------------------------
\* The environment.  A killed process leaves its temporary file, unlocked.
Killed(r) == [r EXCEPT !.pc = "closed", !.saw = NoHandle, !.repair = FALSE, !.result = "killed"]

Kill(h) ==
  /\ ~At(h, {"closed"})
  /\ use' = [use EXCEPT ![h] = Killed(@)]
  /\ locked' = locked \ {h} /\ filled' = filled \ {h}
  /\ tmp' = IF tmp = h THEN Debris ELSE tmp
  /\ inPlace' = IF inPlace = h THEN NoHandle ELSE inPlace
  /\ excuses' = excuses \cup Unsynced(h)
  /\ UNCHANGED <<file, durable, header, anchor, enclave, clock, backup, settled, told>>

PowerCut ==
  /\ \E h \in Handles : ~At(h, {"closed"})
  /\ file' \in {file, durable}
  /\ durable' = file'
  /\ tmp' \in IF tmp = NoHandle THEN {NoHandle} ELSE {NoHandle, Debris}
  /\ use' = [h \in Handles |-> Killed(use[h])]
  /\ inPlace' = NoHandle /\ filled' = {} /\ locked' = {}
  /\ UNCHANGED <<header, anchor, enclave, clock, backup, settled, told, excuses>>

\* What else the outside does leaves the program where it is.
Elsewhere == UNCHANGED <<inPlace, tmp, filled, locked, use, header, anchor>>

\* The enclave key goes when a finger is enrolled.
LoseKey ==
  /\ enclave.key # 0
  /\ enclave' = [enclave EXCEPT !.key = 0]
  /\ UNCHANGED <<file, durable, clock, backup, settled, told, excuses>> /\ Elsewhere

\* The wall clock, which may be set back.
Tick ==
  /\ \/ clock < MaxClock /\ clock' = clock + 1 /\ UNCHANGED excuses
     \/ clock > 0 /\ clock' = clock - 1 /\ excuses' = excuses \cup {"clock"}
  /\ UNCHANGED <<file, durable, enclave, backup, settled, told>> /\ Elsewhere

\* The copy of the first vault is put back.
Restore ==
  /\ backup # file /\ \A h \in Handles : At(h, {"closed"})
  /\ file' = backup /\ durable' = backup
  /\ settled' = backup.counter /\ told' = backup.master
  /\ excuses' = excuses \cup {"restored"}
  /\ UNCHANGED <<enclave, clock, backup>> /\ Elsewhere

UseVault(h) ==
  \/ UnlockWithPassword(h) \/ UnlockBiometric(h) \/ RebindBiometric(h)
  \/ \E m \in Masters : ChangePassword(h, m) \/ \E k \in 0..MaxKeys : Initialize(h, m, k)
  \/ CheckCounter(h) \/ Repair(h) \/ Rotate(h) \/ Rebind(h) \/ Open(h) \/ Store(h) \/ Lock(h)

Save(h) ==
  \/ Create(h) \/ StaleOpen(h) \/ StaleLock(h) \/ StaleRemove(h) \/ Recreate(h)
  \/ LockTmp(h) \/ Write(h) \/ WriteFails(h) \/ UnlockTmp(h) \/ Rename(h)
  \/ SyncDirectory(h) \/ StoreAnchor(h)

FileNext ==
  \/ \E h \in Handles : UseVault(h) \/ Save(h) \/ Kill(h)
  \/ Delete \/ PowerCut \/ LoseKey \/ Tick \/ Restore

FileSpec == FileInit /\ [][FileNext]_fileVars

---------------------------------------------------------------------------
Uses == [pc : {"closed", "check", "repair", "act", "open"} \cup Writing,
         op : {"none", "session", "rotate", "rebind", "touch", "init"},
         arg : Masters, saw : Handles \cup {NoHandle, Debris}, repair : BOOLEAN,
         result : {"ok", "none", "rolled back", "failed", "blocked", "killed"}]

Blames == {"overlap", "taken", "deleted", "restored", "unsynced", "unread", "clock"}

\* The values of the vault's variables.
FileTypeOK ==
  /\ {file, durable} \subseteq Version \cup {Absent, Torn} /\ backup \in Version
  /\ tmp \in Handles \cup {NoHandle, Debris} /\ inPlace \in Handles \cup {NoHandle}
  /\ filled \subseteq Handles /\ locked \subseteq Handles
  /\ use \in [Handles -> Uses] /\ header \in [Handles -> Version]
  /\ anchor \in [counter : 0..MaxCounter, ts : 0..MaxClock, there : BOOLEAN]
  /\ enclave \in [key : 0..MaxKeys, made : 0..MaxKeys]
  /\ clock \in 0..MaxClock /\ settled \in 0..MaxCounter
  /\ told \in Masters \cup {Nobody} /\ excuses \subseteq Blames

\* atomic_write_vault: whoever reads the vault, after whatever kill or power
\* cut, reads a whole one, unless a temporary file was taken from its writer,
\* which takes two writers.
VaultIsWhole == Torn \in {file, durable} => {"taken", "overlap"} \subseteq excuses

\* A save that was reported done is what every later reader gets, if not a
\* later one, whatever save failed or was killed since; as long as no two
\* handles are open together.
SavedStays ==
  Readable /\ excuses \cap {"overlap", "deleted"} = {} => file.counter >= settled

\* open_tmp_reclaiming_stale: what a killed writer left never blocks a later
\* save; only another writer does.
DebrisNeverBlocks ==
  [][\A h \in Handles : At(h, Stale) /\ use'[h].result = "blocked" => "overlap" \in excuses]_fileVars

\* rollback.rs: a vault that was not restored, made anew after a removal or
\* written beside another handle is never refused as rolled back, although the
\* anchor is written after the file and may not be written at all.
RefusedOnlyIfRestored ==
  [][\A h \in Handles : At(h, {"check"}) /\ use'[h].result = "rolled back" =>
       excuses \cap {"restored", "deleted", "unsynced", "overlap", "clock"} # {}]_fileVars

\* What is open is never older than what the credential store has seen, also
\* when an old file was put back.
OpenIsCurrent ==
  excuses \cap {"overlap", "clock", "unread"} = {} =>
    \A h \in Handles : At(h, {"open"}) => header[h].counter >= anchor.counter

\* biometric.rs: a vault that had no wrapper of the enclave is given one only
\* by a rebind the operator asked for, never by the repair of a lost key.
EnrolledOnlyOnRequest ==
  [][Readable /\ Readable' /\ file.key = 0 /\ file' # backup /\ excuses \cap {"deleted", "overlap"} = {} =>
       file'.key = 0 \/ \E h \in Handles : Saving(h) /\ use[h].op = "rebind"]_fileVars

\* rotate: once the operator was told that the master password changed, it is
\* the one that opens the vault; "an unlocked handle stays valid".
RotationStays == Readable /\ told # Nobody => file.master = told
==============================================================================
