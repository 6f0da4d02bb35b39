-------------------------------- MODULE Files --------------------------------
(***************************************************************************)
(* The files multitop keeps in its own directory, and what a kill, a power *)
(* cut or a second multitop between two of its file system calls leaves of *)
(* them: state.toml and config.toml (state.rs, config/save.rs), and the    *)
(* token of --serve                                                        *)
(* (owner_file.rs, serve_token.rs).                                        *)
(***************************************************************************)
EXTENDS Naturals, FiniteSets

CONSTANTS
  Instances,   \* multitops with a screen, on one configuration
  Heads,       \* starts of multitop --serve, on the same one
  Accounts,    \* servers of the configuration: host, port and user
  Plain,       \* those with a password in config.toml
  HostOf,      \* the host and port of an account
  ReadErrors,  \* whether a file that is there may fail to be read
  MaxRuns,     \* bound of the upgrades ever recorded
  MaxEdits,    \* bound of the changes of the configuration
  MaxTokens,   \* bound of the tokens ever generated
  MaxCuts      \* bound of power cuts and of files spoilt from outside

ASSUME FilesAssumption ==
  /\ ReadErrors \in BOOLEAN /\ Plain \subseteq Accounts
  /\ {MaxRuns, MaxEdits, MaxTokens, MaxCuts} \subseteq Nat

VARIABLES
  dir,      \* the directory as processes see it
  disk,     \* the directories a power cut may leave
  unsynced, \* the names whose data may not be on disk yet
  scratch,  \* the temporary file of each instance
  app,      \* where each instance is, and what it writes
  knows,    \* the record of upgrades in each instance's memory
  given,    \* whose password the panel of an account holds
  store,    \* the accounts in the OS credential store
  head,     \* where each start of --serve is, and the token it serves
  made,     \* what was made so far: runs, edits, tokens; and cuts
  promised, \* history: what was reported saved, by file
  together, \* history: two instances ran at a time
  spoilt,   \* history: state.toml was spoilt, and nobody told that it is lost
  unsaved   \* history: the accounts the credential store refused

filesVars == <<dir, disk, unsynced, scratch, app, knows, given, store, head, made,
              promised, together, spoilt, unsaved>>

FileNames == {"state", "aside", "config", "token"}

\* What is at a name: nothing, part of a file, text that does not parse, a
\* token, or a file that says a set of things.
Missing == <<"absent">>
Partial == <<"torn">>
Bad     == <<"bad">>
TokenText(n) == <<"token", n>>
Saying(s) == <<"whole", s>>
Says(c)   == IF c[1] = "whole" THEN c[2] ELSE {}

RunNo(n) == <<"run", n>>
Edit(n)  == <<"edit", n>>
Secret(a) == <<"secret", a>>

Nobodys == <<"nobody">>
Off == [pc |-> "off", name |-> "state", text |-> Missing, synced |-> FALSE,
        then |-> "idle"]
OffHead == [pc |-> "off", token |-> 0]
NoneHeld == [a \in Accounts |-> Nobodys]
Clean == [i \in Instances |-> Missing]

FilesInit ==
  /\ dir = [n \in FileNames |->
              IF n = "config" THEN Saying({Secret(a) : a \in Plain}) ELSE Missing]
  /\ promised = [n \in {"state", "config"} |-> {}]
  /\ disk = {dir} /\ unsynced = {} /\ scratch = Clean
  /\ app = [i \in Instances |-> Off]
  /\ knows = [i \in Instances |-> {}]
  /\ given = [i \in Instances |-> NoneHeld]
  /\ store = {}
  /\ head = [h \in Heads |-> OffHead]
  /\ made = [runs |-> 0, edits |-> 0, tokens |-> 0, cuts |-> 0]
  /\ together = FALSE /\ spoilt = FALSE /\ unsaved = {}

---------------------------------------------------------------------------
\* What a power cut may make of a directory while data is not synced.
Cuts(d, names) ==
  {[n \in FileNames |-> IF n \in t /\ d[n] # Missing THEN Partial ELSE d[n]] : t \in SUBSET names}

\* The directory changes in memory; a power cut leaves it, or an earlier one.
DirBecomes(d, names) ==
  /\ dir' = d
  /\ unsynced' = names
  /\ disk' = disk \cup Cuts(d, names)

InPc(i, pcs) == app[i].pc \in pcs
Step(i, to) == app' = [app EXCEPT ![i].pc = to]

Secrets == {Secret(a) : a \in Accounts}
Plaintext == {a \in Accounts : Secret(a) \in Says(dir["config"])}

\* write_atomic is called, and where the instance goes on after it.
StartWrite(i, name, text, then) ==
  app' = [app EXCEPT ![i] = [pc |-> "write", name |-> name, text |-> text,
                             synced |-> FALSE, then |-> then]]

\* An instance starts: apply_config ports the plaintext passwords it read, and
\* restore_state reads the record of upgrades.
Boot(i) ==
  /\ InPc(i, {"off"})
  /\ app' = [app EXCEPT ![i] = [Off EXCEPT !.pc = IF Plaintext = {} THEN "load" ELSE "port",
                                            !.text = Saying({Secret(a) : a \in Plaintext})]]
  /\ together' = (together \/ \E j \in Instances \ {i} : ~InPc(j, {"off"}))
  /\ UNCHANGED <<dir, disk, unsynced, scratch, knows, given, store, head, made,
                 promised, spoilt, unsaved>>

\* strip_plaintext_passwords: the file as it is now, without any of them.
Strip(i) ==
  IF Plaintext = {} THEN Step(i, "load")
  ELSE StartWrite(i, "config", Saying(Says(dir["config"]) \ Secrets), "load")

\* port_plaintext_passwords: every password read at the start goes to the
\* credential store, which may refuse some, and to the panels of its host and
\* port, of which the last entry's stays; then the file is stripped.
Port(i) ==
  /\ InPc(i, {"port"})
  /\ LET entries == {a \in Accounts : Secret(a) \in Says(app[i].text)} IN
     \E ok \in SUBSET entries, last \in [Accounts -> Accounts \cup {Nobodys}] :
       /\ \A a \in Accounts :
            LET same == {b \in ok : HostOf[b] = HostOf[a]} IN
            /\ IF same = {} THEN last[a] = Nobodys ELSE last[a] \in same
            /\ \A b \in Accounts : HostOf[b] = HostOf[a] => last[b] = last[a]
       /\ store' = store \cup ok
       /\ unsaved' = unsaved \cup (entries \ ok)
       /\ given' = [given EXCEPT ![i] = last]
  /\ Strip(i)
  /\ UNCHANGED <<dir, disk, unsynced, scratch, knows, head, made, promised, together,
                 spoilt>>

\* load_state: what the file says; nothing when it is absent, empty or cannot be
\* read.  Text that does not parse is to be moved aside.
Load(i) ==
  /\ InPc(i, {"load"})
  /\ \/ /\ dir["state"] # Bad
        /\ knows' = [knows EXCEPT ![i] = Says(dir["state"])]
        /\ Step(i, "idle")
     \/ /\ ReadErrors /\ dir["state"] # Missing
        /\ knows' = [knows EXCEPT ![i] = {}]
        /\ Step(i, "idle")
     \/ /\ dir["state"] \in {Partial, Bad}
        /\ knows' = [knows EXCEPT ![i] = {}]
        /\ Step(i, "aside")
  /\ UNCHANGED <<dir, disk, unsynced, scratch, given, store, head, made, promised,
                 together, spoilt, unsaved>>

\* The rename to state.toml.unreadable, or the notice that the file will be
\* overwritten.
MoveAside(i) ==
  /\ InPc(i, {"aside"})
  /\ Step(i, "idle")
  /\ \/ /\ dir["state"] # Missing
        /\ DirBecomes([dir EXCEPT !["state"] = Missing, !["aside"] = dir["state"]], unsynced)
        /\ UNCHANGED spoilt
     \/ spoilt' = FALSE /\ UNCHANGED <<dir, disk, unsynced>>
  /\ UNCHANGED <<scratch, knows, given, store, head, made, promised, together, unsaved>>

---------------------------------------------------------------------------
\* persist_state after a run was recorded: all the instance knows.
SaveState(i) ==
  /\ InPc(i, {"idle"}) /\ made.runs < MaxRuns
  /\ made' = [made EXCEPT !.runs = @ + 1]
  /\ knows' = [knows EXCEPT ![i] = @ \cup {RunNo(made'.runs)}]
  /\ StartWrite(i, "state", Saying(knows'[i]), "idle")
  /\ UNCHANGED <<dir, disk, unsynced, scratch, given, store, head, promised, together,
                 spoilt, unsaved>>

\* save_servers, save_theme and save_banner_style: the file is read and written
\* again with the change.  Only save_servers makes one where there is none, and
\* takes one it cannot read for that.
SaveConfig(i) ==
  /\ InPc(i, {"idle"}) /\ made.edits < MaxEdits
  /\ made' = [made EXCEPT !.edits = @ + 1]
  /\ \E read \in {Says(dir["config"])} \cup IF ReadErrors THEN {{}} ELSE {} :
       StartWrite(i, "config", Saying(read \cup {Edit(made'.edits)}), "idle")
  /\ UNCHANGED <<dir, disk, unsynced, scratch, knows, given, store, head, promised,
                 together, spoilt, unsaved>>

\* The temporary file carries the process id.
ScratchOf(i) == i

\* Any of the calls may fail; the temporary file is removed.
Fail(i) ==
  /\ InPc(i, {"write", "fill", "sync", "rename"})
  /\ scratch' = [scratch EXCEPT ![ScratchOf(i)] = Missing]
  /\ Step(i, app[i].then)
  /\ UNCHANGED <<dir, disk, unsynced, knows, given, store, head, made, promised, together,
                 spoilt, unsaved>>

\* File::create truncates, write_all fills.
Truncate(i) ==
  /\ InPc(i, {"write"})
  /\ scratch' = [scratch EXCEPT ![ScratchOf(i)] = Partial]
  /\ Step(i, "fill")
  /\ UNCHANGED <<dir, disk, unsynced, knows, given, store, head, made, promised, together,
                 spoilt, unsaved>>

Fill(i) ==
  /\ InPc(i, {"fill"})
  /\ scratch' = [scratch EXCEPT ![ScratchOf(i)] = app[i].text]
  /\ Step(i, "sync")
  /\ UNCHANGED <<dir, disk, unsynced, knows, given, store, head, made, promised, together,
                 spoilt, unsaved>>

Sync(i) ==
  /\ InPc(i, {"sync"})
  /\ app' = [app EXCEPT ![i].pc = "rename", ![i].synced = TRUE]
  /\ UNCHANGED <<dir, disk, unsynced, scratch, knows, given, store, head, made, promised,
                 together, spoilt, unsaved>>

Publish(i) ==
  /\ InPc(i, {"rename"}) /\ scratch[ScratchOf(i)] # Missing
  /\ LET n == app[i].name IN
     DirBecomes([dir EXCEPT ![n] = scratch[ScratchOf(i)]],
             IF app[i].synced THEN unsynced \ {n} ELSE unsynced \cup {n})
  /\ scratch' = [scratch EXCEPT ![ScratchOf(i)] = Missing]
  /\ Step(i, "settle")
  /\ UNCHANGED <<knows, given, store, head, made, promised, together, spoilt, unsaved>>

\* Mutant: the rename is left to the system to flush.
SyncDirLater(i) ==
  /\ InPc(i, {"settle"})
  /\ promised' = [promised EXCEPT ![app[i].name] = app[i].text[2]]
  /\ Step(i, app[i].then)
  /\ UNCHANGED <<dir, disk, unsynced, scratch, knows, given, store, head, made, together,
                 spoilt, unsaved>>

\* The directory is synced, and the save reported done; it is also when that
\* fails, but then nothing is promised here.
SyncDir(i) ==
  /\ InPc(i, {"settle"})
  /\ \/ /\ disk' = Cuts(dir, unsynced)
        /\ promised' = [promised EXCEPT ![app[i].name] = app[i].text[2]]
     \/ UNCHANGED <<disk, promised>>
  /\ Step(i, app[i].then)
  /\ UNCHANGED <<dir, unsynced, scratch, knows, given, store, head, made, together, spoilt,
                 unsaved>>

---------------------------------------------------------------------------
HeadIn(h, pcs) == head[h].pc \in pcs
HeadTo(h, to) == head' = [head EXCEPT ![h].pc = to]

\* read_or_create: is there a file at all?
Probe(h) ==
  /\ HeadIn(h, {"off"})
  /\ HeadTo(h, IF dir["token"] = Missing THEN "absent" ELSE "read")
  /\ UNCHANGED <<dir, disk, unsynced, scratch, app, knows, given, store, made, promised,
                 together, spoilt, unsaved>>

\* Mutant: what is there is truncated.
CreateAnyway(h) ==
  /\ HeadIn(h, {"absent"}) /\ made.tokens < MaxTokens
  /\ made' = [made EXCEPT !.tokens = @ + 1]
  /\ head' = [head EXCEPT ![h] = [pc |-> "created", token |-> made'.tokens]]
  /\ DirBecomes([dir EXCEPT !["token"] = Partial], unsynced \cup {"token"})
  /\ UNCHANGED <<scratch, app, knows, given, store, promised, together, spoilt, unsaved>>

\* A fresh token; create_new makes an empty file, or there is one by now.
CreateToken(h) ==
  /\ HeadIn(h, {"absent"}) /\ made.tokens < MaxTokens
  /\ made' = [made EXCEPT !.tokens = @ + 1]
  /\ \/ /\ dir["token"] = Missing
        /\ head' = [head EXCEPT ![h] = [pc |-> "created", token |-> made'.tokens]]
        /\ DirBecomes([dir EXCEPT !["token"] = Partial], unsynced \cup {"token"})
     \/ /\ dir["token"] # Missing
        /\ HeadTo(h, "read")
        /\ UNCHANGED <<dir, disk, unsynced>>
  /\ UNCHANGED <<scratch, app, knows, given, store, promised, together, spoilt, unsaved>>

\* The write, or its error, which leaves the empty file.
WriteToken(h) ==
  /\ HeadIn(h, {"created"})
  /\ \/ /\ dir' = [dir EXCEPT !["token"] = TokenText(head[h].token)]
        /\ HeadTo(h, "written")
     \/ HeadTo(h, "off") /\ UNCHANGED dir
  /\ UNCHANGED <<disk, unsynced, scratch, app, knows, given, store, made, promised,
                 together, spoilt, unsaved>>

\* sync_all of the file, not of its directory.
SyncToken(h) ==
  /\ HeadIn(h, {"written"})
  /\ HeadTo(h, "serves")
  /\ unsynced' = unsynced \ {"token"}
  /\ disk' = {IF d["token"] = Partial THEN [d EXCEPT !["token"] = dir["token"]] ELSE d : d \in disk}
  /\ UNCHANGED <<dir, scratch, app, knows, given, store, made, promised, together, spoilt,
                 unsaved>>

\* read_existing and load_or_create: a file without a token is refused.
ReadToken(h) ==
  /\ HeadIn(h, {"read"})
  /\ head' = [head EXCEPT ![h] =
       IF dir["token"][1] = "token" THEN [pc |-> "serves", token |-> dir["token"][2]]
       ELSE [pc |-> IF dir["token"] = Missing THEN "off" ELSE "refused", token |-> 0]]
  /\ UNCHANGED <<dir, disk, unsynced, scratch, app, knows, given, store, made, promised,
                 together, spoilt, unsaved>>

\* The owner does what the refusal says: deletes the file, with nothing running
\* that serves it.
OwnerDeletes ==
  /\ \E h \in Heads : HeadIn(h, {"refused"})
  /\ \A h \in Heads : HeadIn(h, {"refused", "off"})
  /\ dir["token"] = Partial
  /\ DirBecomes([dir EXCEPT !["token"] = Missing], unsynced \ {"token"})
  /\ UNCHANGED <<scratch, app, knows, given, store, head, made, promised, together, spoilt,
                 unsaved>>

StopHead(h) ==
  /\ ~HeadIn(h, {"off"})
  /\ head' = [head EXCEPT ![h] = OffHead]
  /\ UNCHANGED <<dir, disk, unsynced, scratch, app, knows, given, store, made, promised,
                 together, spoilt, unsaved>>

---------------------------------------------------------------------------
\* The user quits, or the process is killed anywhere; a temporary file stays,
\* and the next process has another id.
StopInstance(i) ==
  /\ ~InPc(i, {"off"})
  /\ app' = [app EXCEPT ![i] = Off]
  /\ scratch' = [scratch EXCEPT ![i] = Missing]
  /\ knows' = [knows EXCEPT ![i] = {}] /\ given' = [given EXCEPT ![i] = NoneHeld]
  /\ UNCHANGED <<dir, disk, unsynced, store, head, made, promised, together, spoilt,
                 unsaved>>

\* The system flushes on its own.
Writeback ==
  /\ disk # {dir} \/ unsynced # {}
  /\ disk' = {dir} /\ unsynced' = {}
  /\ UNCHANGED <<dir, scratch, app, knows, given, store, head, made, promised, together,
                 spoilt, unsaved>>

Outage == made.cuts < MaxCuts /\ made' = [made EXCEPT !.cuts = @ + 1]

FilesPowerCut ==
  /\ Outage
  /\ \E d \in disk : dir' = d /\ disk' = {d}
  /\ unsynced' = {} /\ scratch' = Clean
  /\ app' = [i \in Instances |-> Off] /\ knows' = [i \in Instances |-> {}]
  /\ given' = [i \in Instances |-> NoneHeld]
  /\ head' = [h \in Heads |-> OffHead]
  /\ UNCHANGED <<store, promised, together, spoilt, unsaved>>

\* state.toml is edited by hand, or its disk fails, while nothing runs.
Spoil ==
  /\ Outage
  /\ \A i \in Instances : InPc(i, {"off"})
  /\ dir["state"] # Missing
  /\ dir' = [dir EXCEPT !["state"] = Bad] /\ disk' = {dir'} /\ unsynced' = {}
  /\ spoilt' = TRUE
  /\ promised' = [promised EXCEPT !["state"] = {}]
  /\ UNCHANGED <<scratch, app, knows, given, store, head, together, unsaved>>

AppNext == \E i \in Instances :
  \/ Boot(i) \/ Port(i) \/ Load(i) \/ MoveAside(i)
  \/ SaveState(i) \/ SaveConfig(i)
  \/ Truncate(i) \/ Fill(i) \/ Sync(i) \/ Publish(i) \/ SyncDir(i) \/ Fail(i)
  \/ StopInstance(i)

HeadNext ==
  \/ \E h \in Heads : Probe(h) \/ CreateToken(h) \/ WriteToken(h) \/ SyncToken(h)
                        \/ ReadToken(h) \/ StopHead(h)
  \/ OwnerDeletes

FilesNext == AppNext \/ HeadNext \/ Writeback \/ FilesPowerCut \/ Spoil

FilesSpec == FilesInit /\ [][FilesNext]_filesVars

---------------------------------------------------------------------------
OnDisk == {dir} \cup disk

\* Whatever is cut, killed or run at the same time, neither state.toml nor
\* config.toml is ever a part of what was written: "the destination is only ever
\* the old contents or the new ones" (write_atomic, two instances included).
WritesAreWhole == \A d \in OnDisk : d["state"] # Partial /\ d["config"] # Partial

\* What one multitop at a time reported saved -- a run that started, a change of
\* the configuration -- is there after any number of kills, power cuts, failed
\* writes and restarts.
SavedIsThere ==
  ~together => \A d \in OnDisk, f \in {"state", "config"} :
               promised[f] \ Secrets \subseteq Says(d[f])

\* A state.toml that does not parse is never lost without a word, with one
\* multitop at a time: it is still there, or beside it under its other name, also
\* after a power cut, until a start could not move it aside and said that it will
\* be overwritten (load_state; spoilt ends there).
SpoiltIsKept ==
  spoilt /\ ~together => \A d \in OnDisk : Bad \in {d["state"], d["aside"]}

\* A password found in config.toml is never nowhere, wherever the port is cut
\* off: it is in the credential store, or still in the file.  But one that the
\* store refused is stripped all the same, with a notice
\* (port_plaintext_passwords; unsaved).
PasswordIsSomewhere ==
  \A a \in Plain \ (store \cup unsaved) : \A d \in OnDisk : Secret(a) \in Says(d["config"])

\* The panels that got a password from config.toml got that of their own
\* account.
OwnPassword ==
  \A i \in Instances : \A a \in Accounts : given[i][a] \in {Nobodys, a}

\* However many starts race for the token's file, all that serve serve the one
\* that is in it (read_or_create's create_new).
OneToken ==
  \A h \in Heads : HeadIn(h, {"serves"}) => dir["token"] = TokenText(head[h].token)
=============================================================================
