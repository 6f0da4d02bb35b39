---------------------------- MODULE FilesProofs ----------------------------
(***************************************************************************)
(* Proofs about the client's files for any instances, servers and accounts,*)
(* and any kills and power cuts: one token for all that serve, no file in  *)
(* part, and nothing that was reported saved, or was there, is lost.       *)
(***************************************************************************)
EXTENDS Files, TLAPS

---------------------------------------------------------------------------
\* What a file may say, and what may be at a name.
Things == {RunNo(n) : n \in Nat} \cup {Edit(n) : n \in Nat} \cup Secrets
Contents == {Missing, Partial, Bad} \cup {TokenText(n) : n \in Nat}
            \cup {Saying(s) : s \in SUBSET Things}
Directories == [FileNames -> Contents]

\* The values of the files' variables.
FilesTypeOK ==
  /\ dir \in Directories /\ disk \subseteq Directories /\ unsynced \subseteq FileNames
  /\ scratch \in [Instances -> Contents]
  /\ app \in [Instances ->
       [pc : {"off", "port", "load", "aside", "idle", "write", "fill", "sync", "rename", "settle"},
        name : {"state", "config"}, text : Contents, synced : BOOLEAN, then : {"load", "idle"}]]
  /\ knows \in [Instances -> SUBSET Things]
  /\ given \in [Instances -> [Accounts -> Accounts \cup {Nobodys}]]
  /\ store \subseteq Accounts /\ unsaved \subseteq Accounts
  /\ head \in [Heads -> [pc : {"off", "absent", "read", "created", "written", "serves", "refused"},
                         token : Nat]]
  /\ made \in [runs : Nat, edits : Nat, tokens : Nat, cuts : Nat]
  /\ promised \in [{"state", "config"} -> SUBSET Things]
  /\ together \in BOOLEAN /\ spoilt \in BOOLEAN

\* create_new makes one file, and whoever made it is alone with it until its
\* token is in it.
TokenInv ==
  /\ \A h \in Heads : HeadIn(h, {"created"}) => dir["token"] = Partial
  /\ \A h, g \in Heads : HeadIn(h, {"created"}) /\ HeadIn(g, {"created"}) => h = g
  /\ \A h \in Heads : HeadIn(h, {"written", "serves"}) => dir["token"] = TokenText(head[h].token)

\* An instance in write_atomic, and one that has read state.toml.
Writing(i) == InPc(i, {"write", "fill", "sync", "rename", "settle"})
Loaded(i) == InPc(i, {"idle"}) \/ (Writing(i) /\ app[i].then = "idle")

\* What is renamed was filled and synced before: a power cut tears the token at
\* most.
WholeInv ==
  /\ unsynced \subseteq {"token"}
  /\ WritesAreWhole
  /\ \A i \in Instances : /\ Writing(i) => app[i].text = Saying(Says(app[i].text))
                          /\ InPc(i, {"sync", "rename"}) => scratch[i] = app[i].text
                          /\ InPc(i, {"rename"}) => app[i].synced

\* One instance at a time: it knows what was promised before it writes.
SavedInv ==
  ~together =>
    /\ \A i, j \in Instances : ~InPc(i, {"off"}) /\ ~InPc(j, {"off"}) => i = j
    /\ \A d \in OnDisk, f \in {"state", "config"} : promised[f] \ Secrets \subseteq Says(d[f])
    /\ \A i \in Instances :
         /\ Loaded(i) => promised["state"] \ Secrets \subseteq knows[i]
         /\ InPc(i, {"aside"}) => dir["state"] = Bad
         /\ Writing(i) => promised[app[i].name] \ Secrets \subseteq Says(app[i].text)
         /\ Writing(i) /\ app[i].name = "state" =>
              Says(app[i].text) = knows[i] /\ app[i].then = "idle"
         /\ InPc(i, {"settle"}) => dir[app[i].name] = app[i].text

\* What could not be parsed was moved aside before anything is written.
KeptInv ==
  spoilt /\ ~together =>
    /\ \A d \in OnDisk : Bad \in {d["state"], d["aside"]}
    /\ \A i \in Instances : Loaded(i) => dir["aside"] = Bad

\* A password that neither the store took nor refused is in config.toml, and in
\* whatever is about to take its place.
SomewhereInv ==
  \A a \in Plain \ (store \cup unsaved) :
    /\ \A d \in OnDisk : Secret(a) \in Says(d["config"])
    /\ \A i \in Instances :
         InPc(i, {"port"}) \/ (Writing(i) /\ app[i].name = "config") =>
           Secret(a) \in Says(app[i].text)

---------------------------------------------------------------------------
\* What is at a name is one of five kinds of things.
LEMMA ContentsFacts ==
  /\ {Missing, Partial, Bad} \subseteq Contents
  /\ \A n \in Nat : TokenText(n) \in Contents /\ TokenText(n)[1] = "token" /\ TokenText(n)[2] = n
  /\ \A s \in SUBSET Things : Saying(s) \in Contents
  /\ \A s : Says(Saying(s)) = s /\ Saying(s)[2] = s /\ Saying(s) \notin {Missing, Partial, Bad}
  /\ Says(Missing) = {} /\ Says(Partial) = {} /\ Says(Bad) = {}
  /\ Missing # Partial /\ Missing # Bad /\ Partial # Bad
  /\ \A n : TokenText(n) \notin {Missing, Partial, Bad}
<1>1. \A s : Saying(s)[1] = "whole" /\ Saying(s)[2] = s
  BY DEF Saying
<1>2. \A n : TokenText(n)[1] = "token" /\ TokenText(n)[2] = n
  BY DEF TokenText
<1>3. Missing[1] = "absent" /\ Partial[1] = "torn" /\ Bad[1] = "bad"
  BY DEF Missing, Partial, Bad
<1>4. \A s : Saying(s) \notin {Missing, Partial, Bad}
  BY <1>1, <1>3
<1>5. \A n : TokenText(n) \notin {Missing, Partial, Bad}
  BY <1>2, <1>3
<1>6. \A s : Says(Saying(s)) = s
  BY <1>1 DEF Says
<1>7. Says(Missing) = {} /\ Says(Partial) = {} /\ Says(Bad) = {}
      /\ Missing # Partial /\ Missing # Bad /\ Partial # Bad
  BY <1>3 DEF Says
<1>8. /\ {Missing, Partial, Bad} \subseteq Contents
      /\ \A n \in Nat : TokenText(n) \in Contents
      /\ \A s \in SUBSET Things : Saying(s) \in Contents
  BY DEF Contents
<1> QED
  BY <1>1, <1>2, <1>4, <1>5, <1>6, <1>7, <1>8

\* What a file says are things that a file may say.
LEMMA SaysThings ==
  ASSUME NEW c \in Contents
  PROVE  Says(c) \subseteq Things
<1>1. CASE c \in {Missing, Partial, Bad}
  BY <1>1, ContentsFacts
<1>2. ASSUME NEW n \in Nat, c = TokenText(n) PROVE Says(c) = {}
  BY <1>2, ContentsFacts DEF Says
<1>3. ASSUME NEW s \in SUBSET Things, c = Saying(s) PROVE Says(c) \subseteq Things
  BY <1>3, ContentsFacts
<1> QED
  BY <1>1, <1>2, <1>3 DEF Contents

\* A power cut makes directories of directories.
LEMMA CutDirectories ==
  ASSUME NEW d \in Directories, NEW names
  PROVE  Cuts(d, names) \subseteq Directories
BY ContentsFacts DEF Cuts, Directories

\* A directory that changes stays one, and so does what a power cut may leave.
LEMMA BecomesDirectory ==
  ASSUME disk \subseteq Directories, NEW d \in Directories, NEW names \in SUBSET FileNames,
         DirBecomes(d, names)
  PROVE  dir' \in Directories /\ disk' \subseteq Directories /\ unsynced' \subseteq FileNames
BY CutDirectories DEF DirBecomes

\* An instance that calls write_atomic.
LEMMA StartWriteTypes ==
  ASSUME FilesTypeOK, NEW i \in Instances, NEW n \in {"state", "config"}, NEW c \in Contents,
         NEW t \in {"load", "idle"}, StartWrite(i, n, c, t)
  PROVE  app' \in [Instances ->
       [pc : {"off", "port", "load", "aside", "idle", "write", "fill", "sync", "rename", "settle"},
        name : {"state", "config"}, text : Contents, synced : BOOLEAN, then : {"load", "idle"}]]
BY DEF FilesTypeOK, StartWrite

\* Every step of an instance keeps the types.
LEMMA AppTypes ==
  ASSUME FilesTypeOK, WholeInv, NEW i \in Instances,
         \/ Boot(i) \/ Port(i) \/ Load(i) \/ MoveAside(i) \/ SaveState(i) \/ SaveConfig(i)
         \/ Truncate(i) \/ Fill(i) \/ Sync(i) \/ Publish(i) \/ SyncDir(i) \/ Fail(i)
         \/ StopInstance(i)
  PROVE  FilesTypeOK'
<1> DEFINE Apps == [Instances ->
       [pc : {"off", "port", "load", "aside", "idle", "write", "fill", "sync", "rename", "settle"},
        name : {"state", "config"}, text : Contents, synced : BOOLEAN, then : {"load", "idle"}]]
<1>0. /\ dir \in Directories /\ disk \subseteq Directories /\ unsynced \subseteq FileNames
      /\ app \in Apps /\ app[i].name \in {"state", "config"} /\ app[i].then \in {"load", "idle"}
      /\ app[i].text \in Contents /\ scratch[i] \in Contents
      /\ \A n \in FileNames : dir[n] \in Contents
  BY DEF FilesTypeOK, Directories
<1>a. ASSUME NEW pc \in {"off", "port", "load", "aside", "idle", "write", "fill", "sync", "rename", "settle"},
             Step(i, pc)
      PROVE  app' \in Apps
  BY <1>0, <1>a DEF Step
<1>b. {"load", "idle"} \subseteq {"off", "port", "load", "aside", "idle", "write", "fill", "sync", "rename", "settle"}
  OBVIOUS
<1>c. Secrets \subseteq Things /\ Off \in [pc : {"off"}, name : {"state"}, text : {Missing}, synced : {FALSE}, then : {"idle"}]
  BY DEF Things, Off
<1>1. CASE Boot(i)
  <2>1. Saying({Secret(a) : a \in Plaintext}) \in Contents
    BY ContentsFacts DEF Things, Secrets, Plaintext
  <2>2. app' \in Apps
    BY <1>0, <1>1, <2>1 DEF Boot, Off
  <2>3. together' \in BOOLEAN
    BY <1>1 DEF Boot, FilesTypeOK
  <2> QED
    BY <1>1, <2>2, <2>3 DEF Boot, FilesTypeOK
<1>2. CASE Port(i)
  <2>1. PICK entries \in SUBSET Accounts, ok \in SUBSET Accounts,
             last \in [Accounts -> Accounts \cup {Nobodys}] :
          /\ store' = store \cup ok /\ unsaved' = unsaved \cup (entries \ ok)
          /\ given' = [given EXCEPT ![i] = last]
    BY <1>2 DEF Port
  <2>2. app' \in Apps
    <3>1. Saying(Says(dir["config"]) \ Secrets) \in Contents
      BY <1>0, SaysThings, ContentsFacts DEF FileNames
    <3> QED
      BY <1>2, <1>a, <3>1, StartWriteTypes DEF Port, Strip
  <2>3. given' \in [Instances -> [Accounts -> Accounts \cup {Nobodys}]]
        /\ store' \subseteq Accounts /\ unsaved' \subseteq Accounts
    BY <2>1 DEF FilesTypeOK
  <2> QED
    BY <1>2, <2>2, <2>3 DEF Port, FilesTypeOK
<1>3. CASE Load(i)
  <2>1. app' \in Apps
    BY <1>3, <1>a DEF Load
  <2>2. knows' \in [Instances -> SUBSET Things]
    <3>1. Says(dir["state"]) \subseteq Things
      BY <1>0, SaysThings DEF FileNames
    <3> QED
      BY <1>3, <3>1 DEF Load, FilesTypeOK
  <2> QED
    BY <1>3, <2>1, <2>2 DEF Load, FilesTypeOK
<1>4. CASE MoveAside(i)
  <2>1. app' \in Apps
    BY <1>4, <1>a DEF MoveAside
  <2>2. dir' \in Directories /\ disk' \subseteq Directories /\ unsynced' \subseteq FileNames
    <3>1. [dir EXCEPT !["state"] = Missing, !["aside"] = dir["state"]] \in Directories
      BY <1>0, ContentsFacts DEF Directories, FileNames
    <3> QED
      BY <1>0, <1>4, <3>1, BecomesDirectory DEF MoveAside
  <2>3. spoilt' \in BOOLEAN
    BY <1>4 DEF MoveAside, FilesTypeOK
  <2> QED
    BY <1>4, <2>1, <2>2, <2>3 DEF MoveAside, FilesTypeOK
<1>5. CASE SaveState(i)
  <2>1. made' \in [runs : Nat, edits : Nat, tokens : Nat, cuts : Nat] /\ made'.runs \in Nat
    BY <1>5 DEF SaveState, FilesTypeOK
  <2>2. RunNo(made'.runs) \in Things
    BY <2>1 DEF Things
  <2>3. knows' \in [Instances -> SUBSET Things] /\ knows'[i] \subseteq Things
    BY <1>5, <2>2 DEF SaveState, FilesTypeOK
  <2>4. app' \in Apps
    BY <1>5, <2>3, ContentsFacts, StartWriteTypes DEF SaveState
  <2> QED
    BY <1>5, <2>1, <2>3, <2>4 DEF SaveState, FilesTypeOK
<1>6. CASE SaveConfig(i)
  <2>1. made' \in [runs : Nat, edits : Nat, tokens : Nat, cuts : Nat] /\ made'.edits \in Nat
    BY <1>6 DEF SaveConfig, FilesTypeOK
  <2>2. Edit(made'.edits) \in Things
    BY <2>1 DEF Things
  <2>3. PICK read \in SUBSET Things : StartWrite(i, "config", Saying(read \cup {Edit(made'.edits)}), "idle")
    <3>1. Says(dir["config"]) \subseteq Things
      BY <1>0, SaysThings DEF FileNames
    <3> QED
      BY <1>6, <3>1 DEF SaveConfig
  <2>4. app' \in Apps
    BY <2>2, <2>3, ContentsFacts, StartWriteTypes
  <2> QED
    BY <1>6, <2>1, <2>4 DEF SaveConfig, FilesTypeOK
<1>7. CASE Truncate(i)
  <2>1. app' \in Apps /\ scratch' \in [Instances -> Contents]
    BY <1>7, <1>a, ContentsFacts DEF Truncate, FilesTypeOK
  <2> QED
    BY <1>7, <2>1 DEF Truncate, FilesTypeOK
<1>8. CASE Fill(i)
  <2>1. app' \in Apps /\ scratch' \in [Instances -> Contents]
    BY <1>0, <1>8, <1>a DEF Fill, FilesTypeOK
  <2> QED
    BY <1>8, <2>1 DEF Fill, FilesTypeOK
<1>9. CASE Sync(i)
  <2>1. app' \in Apps
    BY ZenonT(40), <1>0, <1>9 DEF Sync
  <2> QED
    BY <1>9, <2>1 DEF Sync, FilesTypeOK
<1>10. CASE Publish(i)
  <2>1. app' \in Apps /\ scratch' \in [Instances -> Contents]
    BY <1>10, <1>a, ContentsFacts DEF Publish, FilesTypeOK
  <2>2. dir' \in Directories /\ disk' \subseteq Directories /\ unsynced' \subseteq FileNames
    <3>1. scratch[ScratchOf(i)] \in Contents /\ app[i].name \in FileNames
      BY <1>0 DEF ScratchOf, FileNames
    <3>2. [dir EXCEPT ![app[i].name] = scratch[ScratchOf(i)]] \in Directories
      BY <1>0, <3>1 DEF Directories
    <3> QED
      BY <1>0, <1>10, <3>1, <3>2, BecomesDirectory DEF Publish
  <2> QED
    BY <1>10, <2>1, <2>2 DEF Publish, FilesTypeOK
<1>11. CASE SyncDir(i)
  <2>1. app' \in Apps
    BY <1>0, <1>11, <1>a DEF SyncDir
  <2>2. disk' \subseteq Directories
    BY <1>0, <1>11, CutDirectories DEF SyncDir
  <2>3. promised' \in [{"state", "config"} -> SUBSET Things]
    <3>1. app[i].text[2] \subseteq Things
      <4>1. app[i].text = Saying(Says(app[i].text))
        BY <1>11 DEF WholeInv, SyncDir, Writing, InPc
      <4> QED
        BY <1>0, <4>1, SaysThings, ContentsFacts
    <3> QED
      BY <1>0, <1>11, <3>1 DEF SyncDir, FilesTypeOK
  <2> QED
    BY <1>11, <2>1, <2>2, <2>3 DEF SyncDir, FilesTypeOK
<1>12. CASE Fail(i)
  <2>1. app' \in Apps /\ scratch' \in [Instances -> Contents]
    BY ZenonT(40), <1>0, <1>12, <1>a, ContentsFacts DEF Fail, FilesTypeOK
  <2> QED
    BY <1>12, <2>1 DEF Fail, FilesTypeOK
<1>13. CASE StopInstance(i)
  <2>1. app' \in Apps /\ scratch' \in [Instances -> Contents]
    BY <1>0, <1>13, ContentsFacts DEF StopInstance, Off, FilesTypeOK
  <2>2. knows' \in [Instances -> SUBSET Things]
        /\ given' \in [Instances -> [Accounts -> Accounts \cup {Nobodys}]]
    BY <1>13 DEF StopInstance, NoneHeld, FilesTypeOK
  <2> QED
    BY <1>13, <2>1, <2>2 DEF StopInstance, FilesTypeOK
<1> QED
  BY <1>1, <1>2, <1>3, <1>4, <1>5, <1>6, <1>7, <1>8, <1>9, <1>10, <1>11, <1>12, <1>13

\* Every step of a --serve, and of what is outside, keeps the types.
LEMMA HeadTypes ==
  ASSUME FilesTypeOK, WholeInv, HeadNext \/ Writeback \/ FilesPowerCut \/ Spoil
  PROVE  FilesTypeOK'
<1> DEFINE HeadStates == [Heads -> [pc : {"off", "absent", "read", "created", "written", "serves", "refused"},
                                    token : Nat]]
<1>0. /\ dir \in Directories /\ disk \subseteq Directories /\ unsynced \subseteq FileNames
      /\ head \in HeadStates /\ dir["token"] \in Contents /\ "token" \in FileNames
      /\ "state" \in FileNames
  BY DEF FilesTypeOK, Directories, FileNames
<1>a. [pc |-> "off", token |-> 0] \in [pc : {"off"}, token : Nat] /\ OffHead = [pc |-> "off", token |-> 0]
  BY DEF OffHead
<1>1. ASSUME NEW h \in Heads, Probe(h) PROVE FilesTypeOK'
  <2>1. head' \in HeadStates
    BY <1>0, <1>1 DEF Probe, HeadTo
  <2> QED
    BY <1>1, <2>1 DEF Probe, FilesTypeOK
<1>2. ASSUME NEW h \in Heads, CreateToken(h) PROVE FilesTypeOK'
  <2>1. made' \in [runs : Nat, edits : Nat, tokens : Nat, cuts : Nat] /\ made'.tokens \in Nat
    BY <1>2 DEF CreateToken, FilesTypeOK
  <2>2. head' \in HeadStates
    BY <1>0, <1>2, <2>1 DEF CreateToken, HeadTo
  <2>3. dir' \in Directories /\ disk' \subseteq Directories /\ unsynced' \subseteq FileNames
    <3>1. [dir EXCEPT !["token"] = Partial] \in Directories
      BY <1>0, ContentsFacts DEF Directories
    <3>2. unsynced \cup {"token"} \in SUBSET FileNames
      BY <1>0
    <3> QED
      BY <1>0, <1>2, <3>1, <3>2, BecomesDirectory DEF CreateToken
  <2> QED
    BY <1>2, <2>1, <2>2, <2>3 DEF CreateToken, FilesTypeOK
<1>3. ASSUME NEW h \in Heads, WriteToken(h) PROVE FilesTypeOK'
  <2>1. head' \in HeadStates
    BY <1>0, <1>3 DEF WriteToken, HeadTo
  <2>2. dir' \in Directories
    <3>1. TokenText(head[h].token) \in Contents
      BY <1>0, ContentsFacts
    <3> QED
      BY <1>0, <1>3, <3>1 DEF WriteToken, Directories
  <2> QED
    BY <1>3, <2>1, <2>2 DEF WriteToken, FilesTypeOK
<1>4. ASSUME NEW h \in Heads, SyncToken(h) PROVE FilesTypeOK'
  <2>1. head' \in HeadStates
    BY <1>0, <1>4 DEF SyncToken, HeadTo
  <2>2. disk' \subseteq Directories
    BY <1>0, <1>4 DEF SyncToken, Directories
  <2>3. unsynced' \subseteq FileNames
    BY <1>0, <1>4 DEF SyncToken
  <2> QED
    BY <1>4, <2>1, <2>2, <2>3 DEF SyncToken, FilesTypeOK
<1>5. ASSUME NEW h \in Heads, ReadToken(h) PROVE FilesTypeOK'
  <2>1. dir["token"][1] = "token" => dir["token"][2] \in Nat
    <3>1. CASE dir["token"] \in {Missing, Partial, Bad}
      BY <3>1 DEF Missing, Partial, Bad
    <3>2. ASSUME NEW n \in Nat, dir["token"] = TokenText(n) PROVE dir["token"][2] \in Nat
      BY <3>2, ContentsFacts
    <3>3. ASSUME NEW s, dir["token"] = Saying(s) PROVE dir["token"][1] # "token"
      BY <3>3 DEF Saying
    <3> QED
      BY <1>0, <3>1, <3>2, <3>3 DEF Contents
  <2>2. head' \in HeadStates
    BY <1>0, <1>5, <2>1 DEF ReadToken
  <2> QED
    BY <1>5, <2>2 DEF ReadToken, FilesTypeOK
<1>6. ASSUME NEW h \in Heads, StopHead(h) PROVE FilesTypeOK'
  <2>1. head' \in HeadStates
    BY <1>0, <1>a, <1>6 DEF StopHead
  <2> QED
    BY <1>6, <2>1 DEF StopHead, FilesTypeOK
<1>7. CASE OwnerDeletes
  <2>1. dir' \in Directories /\ disk' \subseteq Directories /\ unsynced' \subseteq FileNames
    <3>1. [dir EXCEPT !["token"] = Missing] \in Directories
      BY <1>0, ContentsFacts DEF Directories
    <3>2. unsynced \ {"token"} \in SUBSET FileNames
      BY <1>0
    <3> QED
      BY <1>0, <1>7, <3>1, <3>2, BecomesDirectory DEF OwnerDeletes
  <2> QED
    BY <1>7, <2>1 DEF OwnerDeletes, FilesTypeOK
<1>8. CASE Writeback
  BY <1>8 DEF Writeback, FilesTypeOK
<1>9. ASSUME Outage PROVE made' \in [runs : Nat, edits : Nat, tokens : Nat, cuts : Nat]
  BY <1>9 DEF Outage, FilesTypeOK
<1>10. CASE FilesPowerCut
  <2>1. /\ dir' \in Directories /\ disk' \subseteq Directories /\ unsynced' \subseteq FileNames
        /\ scratch' \in [Instances -> Contents] /\ knows' \in [Instances -> SUBSET Things]
    BY <1>0, <1>10, ContentsFacts DEF FilesPowerCut, Clean
  <2>2. app' \in [Instances ->
       [pc : {"off", "port", "load", "aside", "idle", "write", "fill", "sync", "rename", "settle"},
        name : {"state", "config"}, text : Contents, synced : BOOLEAN, then : {"load", "idle"}]]
    BY <1>10, ContentsFacts DEF FilesPowerCut, Off
  <2>3. given' \in [Instances -> [Accounts -> Accounts \cup {Nobodys}]]
    BY <1>10 DEF FilesPowerCut, NoneHeld
  <2>4. head' \in HeadStates
    BY <1>a, <1>10 DEF FilesPowerCut
  <2> QED
    BY <1>9, <1>10, <2>1, <2>2, <2>3, <2>4 DEF FilesPowerCut, FilesTypeOK
<1>11. CASE Spoil
  <2>1. dir' \in Directories /\ disk' \subseteq Directories /\ unsynced' \subseteq FileNames
    BY <1>0, <1>11, ContentsFacts DEF Spoil, Directories
  <2>2. promised' \in [{"state", "config"} -> SUBSET Things]
    BY <1>11 DEF Spoil, FilesTypeOK
  <2> QED
    BY <1>9, <1>11, <2>1, <2>2 DEF Spoil, FilesTypeOK
<1> QED
  BY <1>1, <1>2, <1>3, <1>4, <1>5, <1>6, <1>7, <1>8, <1>10, <1>11 DEF HeadNext

---------------------------------------------------------------------------
\* Whatever an instance does, the token is not its business.
LEMMA AppLeavesToken ==
  ASSUME FilesTypeOK, AppNext
  PROVE  dir'["token"] = dir["token"] /\ head' = head
<1>1. PICK i \in Instances :
         \/ Boot(i) \/ Port(i) \/ Load(i) \/ MoveAside(i) \/ SaveState(i) \/ SaveConfig(i)
         \/ Truncate(i) \/ Fill(i) \/ Sync(i) \/ Publish(i) \/ SyncDir(i) \/ Fail(i)
         \/ StopInstance(i)
  BY DEF AppNext
<1>2. head' = head
  BY <1>1 DEF Boot, Port, Load, MoveAside, SaveState, SaveConfig, Truncate, Fill, Sync, Publish,
     SyncDir, Fail, StopInstance
<1>3. CASE MoveAside(i)
  BY <1>3 DEF MoveAside, DirBecomes, FilesTypeOK, Directories, FileNames
<1>4. CASE Publish(i)
  <2>1. app[i].name \in {"state", "config"}
    BY DEF FilesTypeOK
  <2> QED
    BY <1>4, <2>1 DEF Publish, DirBecomes, FilesTypeOK, Directories, FileNames
<1> QED
  BY <1>1, <1>2, <1>3, <1>4 DEF Boot, Port, Load, SaveState, SaveConfig, Truncate, Fill, Sync,
     SyncDir, Fail, StopInstance

\* Every step keeps whoever serves with the token of the file.
LEMMA TokenStep ==
  ASSUME FilesTypeOK, TokenInv, FilesNext
  PROVE  TokenInv'
<1>0. dir \in Directories /\ "token" \in FileNames /\ Missing # Partial
      /\ head \in [Heads -> [pc : {"off", "absent", "read", "created", "written", "serves", "refused"},
                             token : Nat]]
  BY ContentsFacts DEF FilesTypeOK, FileNames
<1>1. ASSUME head' = head, dir'["token"] = dir["token"] PROVE TokenInv'
  BY <1>1 DEF TokenInv, HeadIn
<1>2. ASSUME NEW h \in Heads, NEW to \in {"off", "absent", "read", "refused"}, NEW n,
             dir' = dir, head' = [head EXCEPT ![h] = [pc |-> to, token |-> n]]
      PROVE  TokenInv'
  BY <1>0, <1>2 DEF TokenInv, HeadIn
<1>3. ASSUME NEW h \in Heads, NEW to \in {"off", "absent", "read", "refused"},
             dir' = dir, HeadTo(h, to)
      PROVE  TokenInv'
  BY <1>0, <1>3 DEF TokenInv, HeadIn, HeadTo
<1>4. ASSUME NEW h \in Heads, Probe(h) PROVE TokenInv'
  BY <1>3, <1>4 DEF Probe
<1>5. ASSUME NEW h \in Heads, CreateToken(h) PROVE TokenInv'
  <2>1. CASE dir["token"] # Missing
    <3>1. HeadTo(h, "read") /\ dir' = dir
      BY <1>5, <2>1 DEF CreateToken
    <3> QED
      BY <1>3, <3>1
  <2>2. CASE dir["token"] = Missing
    <3>1. head' = [head EXCEPT ![h] = [pc |-> "created", token |-> made'.tokens]]
          /\ dir' = [dir EXCEPT !["token"] = Partial]
      BY <1>5, <2>2 DEF CreateToken, DirBecomes
    <3>2. \A g \in Heads : ~HeadIn(g, {"created", "written", "serves"})
      BY <1>0, <2>2, ContentsFacts DEF TokenInv, HeadIn
    <3> QED
      BY <1>0, <3>1, <3>2 DEF TokenInv, HeadIn, Directories
  <2> QED
    BY <2>1, <2>2
<1>6. ASSUME NEW h \in Heads, WriteToken(h) PROVE TokenInv'
  <2>1. HeadIn(h, {"created"}) /\ dir["token"] = Partial
    BY <1>6 DEF WriteToken, TokenInv
  <2>2. CASE HeadTo(h, "off") /\ dir' = dir
    BY <1>3, <2>2
  <2>3. CASE dir' = [dir EXCEPT !["token"] = TokenText(head[h].token)] /\ HeadTo(h, "written")
    <3>1. \A g \in Heads : ~HeadIn(g, {"written", "serves"}) /\ (HeadIn(g, {"created"}) => g = h)
      BY <2>1, ContentsFacts DEF TokenInv, HeadIn
    <3> QED
      BY <1>0, <2>3, <3>1 DEF TokenInv, HeadIn, HeadTo, Directories
  <2> QED
    BY <1>6, <2>2, <2>3 DEF WriteToken
<1>7. ASSUME NEW h \in Heads, SyncToken(h) PROVE TokenInv'
  BY <1>0, <1>7 DEF SyncToken, HeadTo, TokenInv, HeadIn
<1>8. ASSUME NEW h \in Heads, ReadToken(h) PROVE TokenInv'
  <2>1. CASE dir["token"][1] = "token"
    <3>1. dir["token"] # Partial
      BY <2>1 DEF Partial
    <3>2. PICK n \in Nat : dir["token"] = TokenText(n)
      <4>1. dir["token"] \in Contents
        BY <1>0 DEF Directories
      <4>2. dir["token"] \notin {Missing, Partial, Bad}
        BY <2>1 DEF Missing, Partial, Bad
      <4>3. \A s : dir["token"] # Saying(s)
        BY <2>1 DEF Saying
      <4> QED
        BY <4>1, <4>2, <4>3 DEF Contents
    <3>3. dir' = dir /\ head' = [head EXCEPT ![h] = [pc |-> "serves", token |-> n]]
      BY <1>8, <2>1, <3>2, ContentsFacts DEF ReadToken
    <3> QED
      BY <1>0, <3>1, <3>2, <3>3 DEF TokenInv, HeadIn
  <2>2. CASE dir["token"][1] # "token"
    BY <1>2, <1>8, <2>2 DEF ReadToken
  <2> QED
    BY <2>1, <2>2
<1>9. ASSUME NEW h \in Heads, StopHead(h) PROVE TokenInv'
  BY <1>2, <1>9 DEF StopHead, OffHead
<1>10. CASE OwnerDeletes
  BY <1>0, <1>10 DEF OwnerDeletes, TokenInv, HeadIn
<1>11. CASE FilesPowerCut
  BY <1>11 DEF FilesPowerCut, OffHead, TokenInv, HeadIn
<1>12. CASE Spoil
  BY <1>0, <1>1, <1>12 DEF Spoil, Directories
<1>13. CASE Writeback
  BY <1>1, <1>13 DEF Writeback
<1> QED
  BY <1>1, <1>4, <1>5, <1>6, <1>7, <1>8, <1>9, <1>10, <1>11, <1>12, <1>13, AppLeavesToken
     DEF FilesNext, HeadNext

---------------------------------------------------------------------------
\* Two directories that differ in the token at most.
SameFiles(e, d) == \A f \in {"state", "aside", "config"} : e[f] = d[f]

\* A power cut that may tear the token tears nothing else.
LEMMA CutsKeep ==
  ASSUME NEW d, NEW names \in SUBSET {"token"}, NEW e \in Cuts(d, names)
  PROVE  SameFiles(e, d)
BY DEF Cuts, SameFiles, FileNames

\* A directory that changes is on disk, after a power cut, as it was or as it is.
LEMMA BecomesOnDisk ==
  ASSUME NEW d, NEW names \in SUBSET {"token"}, DirBecomes(d, names)
  PROVE  dir' = d /\ \A e \in OnDisk' : e \in OnDisk \/ SameFiles(e, d)
BY CutsKeep DEF DirBecomes, OnDisk, SameFiles

\* Whoever serves, and the system, leave the other files alone.
LEMMA HeadsLeaveFiles ==
  ASSUME FilesTypeOK, WholeInv, HeadNext \/ Writeback
  PROVE  /\ UNCHANGED <<scratch, app, knows, given, store, promised, together, spoilt, unsaved>>
         /\ unsynced' \subseteq {"token"} /\ SameFiles(dir', dir)
         /\ \A e \in OnDisk' : \E d \in OnDisk : SameFiles(e, d)
<1>0. unsynced \subseteq {"token"} /\ dir \in Directories /\ disk \subseteq Directories /\ dir \in OnDisk
  BY DEF WholeInv, FilesTypeOK, OnDisk
<1>a. \A c : SameFiles([dir EXCEPT !["token"] = c], dir) /\ SameFiles(dir, dir)
  BY <1>0 DEF SameFiles, Directories, FileNames
<1>b. ASSUME NEW c, NEW names \in SUBSET {"token"}, DirBecomes([dir EXCEPT !["token"] = c], names)
      PROVE  unsynced' \subseteq {"token"} /\ SameFiles(dir', dir)
             /\ \A e \in OnDisk' : \E d \in OnDisk : SameFiles(e, d)
  <2>1. dir' = [dir EXCEPT !["token"] = c] /\ \A e \in OnDisk' : e \in OnDisk \/ SameFiles(e, dir')
    BY <1>b, BecomesOnDisk
  <2>2. unsynced' \subseteq {"token"}
    BY <1>b DEF DirBecomes
  <2> QED
    BY <1>0, <1>a, <2>1, <2>2 DEF SameFiles
<1>c. ASSUME dir' = dir, disk' = disk, unsynced' = unsynced
      PROVE  unsynced' \subseteq {"token"} /\ SameFiles(dir', dir)
             /\ \A e \in OnDisk' : \E d \in OnDisk : SameFiles(e, d)
  BY <1>0, <1>c DEF SameFiles, OnDisk
<1>1. ASSUME NEW h \in Heads, Probe(h) \/ ReadToken(h) \/ StopHead(h)
      PROVE  dir' = dir /\ disk' = disk /\ unsynced' = unsynced
             /\ UNCHANGED <<scratch, app, knows, given, store, promised, together, spoilt, unsaved>>
  BY <1>1 DEF Probe, ReadToken, StopHead
<1>2. ASSUME NEW h \in Heads, CreateToken(h)
      PROVE  /\ UNCHANGED <<scratch, app, knows, given, store, promised, together, spoilt, unsaved>>
             /\ unsynced' \subseteq {"token"} /\ SameFiles(dir', dir)
             /\ \A e \in OnDisk' : \E d \in OnDisk : SameFiles(e, d)
  <2>1. unsynced \cup {"token"} \in SUBSET {"token"}
    BY <1>0
  <2>2. CASE dir' = dir /\ disk' = disk /\ unsynced' = unsynced
    BY <1>2, <1>c, <2>2 DEF CreateToken
  <2>3. CASE DirBecomes([dir EXCEPT !["token"] = Partial], unsynced \cup {"token"})
    BY <1>2, <1>b, <2>1, <2>3 DEF CreateToken
  <2> QED
    BY <1>2, <2>2, <2>3 DEF CreateToken
<1>3. ASSUME NEW h \in Heads, WriteToken(h)
      PROVE  /\ UNCHANGED <<scratch, app, knows, given, store, promised, together, spoilt, unsaved>>
             /\ unsynced' \subseteq {"token"} /\ SameFiles(dir', dir)
             /\ \A e \in OnDisk' : \E d \in OnDisk : SameFiles(e, d)
  <2>1. SameFiles(dir', dir)
    BY <1>3, <1>a DEF WriteToken
  <2> QED
    BY <1>0, <1>3, <2>1 DEF WriteToken, OnDisk, SameFiles
<1>4. ASSUME NEW h \in Heads, SyncToken(h)
      PROVE  /\ UNCHANGED <<scratch, app, knows, given, store, promised, together, spoilt, unsaved>>
             /\ unsynced' \subseteq {"token"} /\ SameFiles(dir', dir)
             /\ \A e \in OnDisk' : \E d \in OnDisk : SameFiles(e, d)
  <2>1. \A d \in disk : SameFiles([d EXCEPT !["token"] = dir["token"]], d) /\ SameFiles(d, d)
    BY <1>0 DEF SameFiles, Directories, FileNames
  <2>2. \A e \in disk' : \E d \in disk : SameFiles(e, d)
    BY <1>4, <2>1 DEF SyncToken
  <2> QED
    BY <1>0, <1>4, <1>a, <2>2 DEF SyncToken, OnDisk
<1>5. CASE OwnerDeletes
  <2>1. unsynced \ {"token"} \in SUBSET {"token"}
    BY <1>0
  <2> QED
    BY <1>5, <1>b, <2>1 DEF OwnerDeletes
<1>6. CASE Writeback
  BY <1>0, <1>a, <1>6 DEF Writeback, OnDisk
<1> QED
  BY <1>1, <1>2, <1>3, <1>4, <1>5, <1>6, <1>c DEF HeadNext

\* What the steps of an instance do to the directory.
LEMMA AppOnDisk ==
  ASSUME FilesTypeOK, WholeInv, NEW i \in Instances
  PROVE  /\ Boot(i) \/ Port(i) \/ Load(i) \/ SaveState(i) \/ SaveConfig(i) \/ Truncate(i) \/ Fill(i)
            \/ Sync(i) \/ Fail(i) \/ StopInstance(i) =>
              UNCHANGED <<dir, disk, unsynced, promised>> /\ OnDisk' = OnDisk
         /\ MoveAside(i) =>
              /\ unsynced' = unsynced /\ promised' = promised
              /\ \/ dir' = [dir EXCEPT !["state"] = Missing, !["aside"] = dir["state"]]
                 \/ dir' = dir /\ spoilt' = FALSE
              /\ \A e \in OnDisk' : e \in OnDisk \/ SameFiles(e, dir')
         /\ Publish(i) =>
              /\ unsynced' \subseteq {"token"} /\ promised' = promised
              /\ dir' = [dir EXCEPT ![app[i].name] = app[i].text]
              /\ \A e \in OnDisk' : e \in OnDisk \/ SameFiles(e, dir')
         /\ SyncDir(i) =>
              /\ dir' = dir /\ unsynced' = unsynced
              /\ \/ /\ promised' = [promised EXCEPT ![app[i].name] = app[i].text[2]]
                    /\ \A e \in OnDisk' : SameFiles(e, dir)
                 \/ promised' = promised /\ OnDisk' = OnDisk
<1>0. unsynced \in SUBSET {"token"}
  BY DEF WholeInv
<1>1. ASSUME Boot(i) \/ Port(i) \/ Load(i) \/ SaveState(i) \/ SaveConfig(i) \/ Truncate(i) \/ Fill(i)
             \/ Sync(i) \/ Fail(i) \/ StopInstance(i)
      PROVE  UNCHANGED <<dir, disk, unsynced, promised>> /\ OnDisk' = OnDisk
  BY <1>1 DEF Boot, Port, Load, SaveState, SaveConfig, Truncate, Fill, Sync, Fail, StopInstance, OnDisk
<1>2. ASSUME MoveAside(i)
      PROVE  /\ unsynced' = unsynced /\ promised' = promised
             /\ \/ dir' = [dir EXCEPT !["state"] = Missing, !["aside"] = dir["state"]]
                \/ dir' = dir /\ spoilt' = FALSE
             /\ \A e \in OnDisk' : e \in OnDisk \/ SameFiles(e, dir')
  <2>1. CASE DirBecomes([dir EXCEPT !["state"] = Missing, !["aside"] = dir["state"]], unsynced)
    <3>1. unsynced' = unsynced /\ promised' = promised
      BY <1>2, <2>1 DEF MoveAside, DirBecomes
    <3> QED
      BY <1>0, <2>1, <3>1, BecomesOnDisk
  <2>2. CASE spoilt' = FALSE /\ UNCHANGED <<dir, disk, unsynced>>
    BY <1>2, <2>2 DEF MoveAside, OnDisk
  <2> QED
    BY <1>2, <2>1, <2>2 DEF MoveAside
<1>3. ASSUME Publish(i)
      PROVE  /\ unsynced' \subseteq {"token"} /\ promised' = promised
             /\ dir' = [dir EXCEPT ![app[i].name] = app[i].text]
             /\ \A e \in OnDisk' : e \in OnDisk \/ SameFiles(e, dir')
  <2>1. scratch[i] = app[i].text /\ app[i].synced
    BY <1>3 DEF Publish, WholeInv, InPc
  <2>2. unsynced \ {app[i].name} \in SUBSET {"token"}
    BY <1>0
  <2>3. DirBecomes([dir EXCEPT ![app[i].name] = app[i].text], unsynced \ {app[i].name})
    BY <1>3, <2>1 DEF Publish, ScratchOf
  <2>4. unsynced' = unsynced \ {app[i].name} /\ promised' = promised
    BY <1>3, <2>3 DEF Publish, DirBecomes
  <2> QED
    BY <1>0, <2>2, <2>3, <2>4, BecomesOnDisk
<1>4. ASSUME SyncDir(i)
      PROVE  /\ dir' = dir /\ unsynced' = unsynced
             /\ \/ /\ promised' = [promised EXCEPT ![app[i].name] = app[i].text[2]]
                   /\ \A e \in OnDisk' : SameFiles(e, dir)
                \/ promised' = promised /\ OnDisk' = OnDisk
  <2>1. disk' = Cuts(dir, unsynced) => \A e \in disk' : SameFiles(e, dir)
    BY <1>0, CutsKeep
  <2> QED
    BY <1>4, <2>1 DEF SyncDir, OnDisk, SameFiles
<1> QED
  BY <1>1, <1>2, <1>3, <1>4

---------------------------------------------------------------------------
\* An instance off the start does not write.
LEMMA OffStates ==
  /\ Off.pc = "off" /\ Off.text = Missing /\ Off.then = "idle"
BY DEF Off

\* Every step writes whole files.
LEMMA WholeStep ==
  ASSUME FilesTypeOK, WholeInv, FilesNext
  PROVE  WholeInv'
<1>0. /\ \A i \in Instances : app[i].name \in {"state", "config"} /\ app[i].then \in {"load", "idle"}
      /\ DOMAIN app = Instances /\ DOMAIN scratch = Instances
      /\ dir \in Directories /\ disk \subseteq Directories /\ dir \in OnDisk
  BY DEF FilesTypeOK, OnDisk
<1>1. CASE HeadNext \/ Writeback
  <2>1. /\ UNCHANGED <<scratch, app>> /\ unsynced' \subseteq {"token"}
        /\ \A e \in OnDisk' : \E d \in OnDisk : SameFiles(e, d)
    BY <1>1, HeadsLeaveFiles
  <2>2. WritesAreWhole'
    BY <2>1 DEF WholeInv, WritesAreWhole, SameFiles
  <2> QED
    BY <2>1, <2>2 DEF WholeInv, Writing, InPc
<1>2. ASSUME unsynced' \subseteq {"token"},
             \A e \in OnDisk' : e \in OnDisk \/ (e["state"] # Partial /\ e["config"] # Partial),
             NEW i \in Instances, \A j \in Instances \ {i} : app'[j] = app[j] /\ scratch'[j] = scratch[j],
             Writing(i)' => app'[i].text = Saying(Says(app'[i].text)),
             InPc(i, {"sync", "rename"})' => scratch'[i] = app'[i].text,
             InPc(i, {"rename"})' => app'[i].synced
      PROVE  WholeInv'
  <2>1. WritesAreWhole'
    BY <1>2 DEF WholeInv, WritesAreWhole
  <2>2. ASSUME NEW j \in Instances
        PROVE  /\ Writing(j)' => app'[j].text = Saying(Says(app'[j].text))
               /\ InPc(j, {"sync", "rename"})' => scratch'[j] = app'[j].text
               /\ InPc(j, {"rename"})' => app'[j].synced
    BY <1>2, <2>2 DEF WholeInv, Writing, InPc
  <2> QED
    BY <1>2, <2>1, <2>2 DEF WholeInv
<1>3. ASSUME NEW i \in Instances, NEW to, Step(i, to)
      PROVE  /\ \A j \in Instances \ {i} : app'[j] = app[j]
             /\ app'[i].pc = to /\ app'[i].text = app[i].text /\ app'[i].synced = app[i].synced
             /\ app'[i].name = app[i].name /\ app'[i].then = app[i].then
  BY <1>3 DEF Step, FilesTypeOK
<1>4. ASSUME NEW i \in Instances, NEW n, NEW s, NEW t, StartWrite(i, n, Saying(s), t),
             UNCHANGED <<scratch, unsynced>>, OnDisk' = OnDisk
      PROVE  WholeInv'
  <2>1. /\ \A j \in Instances \ {i} : app'[j] = app[j]
        /\ app'[i].pc = "write" /\ app'[i].text = Saying(Says(app'[i].text))
    <3>1. app'[i] = [pc |-> "write", name |-> n, text |-> Saying(s), synced |-> FALSE, then |-> t]
          /\ \A j \in Instances \ {i} : app'[j] = app[j]
      BY <1>0, <1>4 DEF StartWrite
    <3> QED
      BY <3>1, ContentsFacts
  <2> QED
    BY <1>2, <1>4, <2>1 DEF WholeInv, InPc
<1>5. ASSUME NEW i \in Instances, Boot(i) PROVE WholeInv'
  <2>1. app'[i].pc \in {"load", "port"} /\ (\A j \in Instances \ {i} : app'[j] = app[j])
        /\ UNCHANGED <<scratch, unsynced>>
    BY <1>0, <1>5 DEF Boot, Off
  <2> QED
    BY <1>2, <1>5, <2>1, AppOnDisk DEF WholeInv, Writing, InPc
<1>6. ASSUME NEW i \in Instances, Port(i) PROVE WholeInv'
  <2>1. UNCHANGED <<scratch, unsynced>> /\ OnDisk' = OnDisk
    BY <1>6, AppOnDisk DEF Port
  <2>2. CASE Step(i, "load")
    BY <1>2, <1>3, <2>1, <2>2 DEF WholeInv, Writing, InPc
  <2>3. CASE StartWrite(i, "config", Saying(Says(dir["config"]) \ Secrets), "load")
    BY <1>4, <2>1, <2>3
  <2> QED
    BY <1>6, <2>2, <2>3 DEF Port, Strip
<1>7. ASSUME NEW i \in Instances, Load(i) PROVE WholeInv'
  <2>1. UNCHANGED <<scratch, unsynced>> /\ OnDisk' = OnDisk /\ (Step(i, "idle") \/ Step(i, "aside"))
    BY <1>7, AppOnDisk DEF Load
  <2> QED
    BY <1>2, <1>3, <2>1 DEF WholeInv, Writing, InPc
<1>8. ASSUME NEW i \in Instances, MoveAside(i) PROVE WholeInv'
  <2>1. /\ UNCHANGED <<scratch, unsynced>> /\ Step(i, "idle")
        /\ \A e \in OnDisk' : e \in OnDisk \/ SameFiles(e, dir')
        /\ dir' = [dir EXCEPT !["state"] = Missing, !["aside"] = dir["state"]] \/ dir' = dir
    BY <1>8, AppOnDisk DEF MoveAside
  <2>2. dir'["state"] # Partial /\ dir'["config"] # Partial
    <3>1. dir["state"] # Partial /\ dir["config"] # Partial
      BY <1>0 DEF WholeInv, WritesAreWhole
    <3> QED
      BY <1>0, <2>1, <3>1, ContentsFacts DEF Directories, FileNames
  <2> QED
    BY <1>2, <1>3, <2>1, <2>2 DEF WholeInv, Writing, InPc, SameFiles
<1>9. ASSUME NEW i \in Instances, SaveState(i) PROVE WholeInv'
  <2>1. UNCHANGED <<scratch, unsynced>> /\ OnDisk' = OnDisk
        /\ StartWrite(i, "state", Saying(knows'[i]), "idle")
    BY <1>9, AppOnDisk DEF SaveState
  <2> QED
    BY <1>4, <2>1
<1>10. ASSUME NEW i \in Instances, SaveConfig(i) PROVE WholeInv'
  <2>1. UNCHANGED <<scratch, unsynced>> /\ OnDisk' = OnDisk
    BY <1>10, AppOnDisk DEF SaveConfig
  <2>2. PICK read : StartWrite(i, "config", Saying(read \cup {Edit(made'.edits)}), "idle")
    BY <1>10 DEF SaveConfig
  <2> QED
    BY <1>4, <2>1, <2>2
<1>11. ASSUME NEW i \in Instances, Truncate(i) PROVE WholeInv'
  <2>1. UNCHANGED unsynced /\ OnDisk' = OnDisk /\ Step(i, "fill") /\ InPc(i, {"write"})
        /\ \A j \in Instances \ {i} : scratch'[j] = scratch[j]
    BY <1>0, <1>11, AppOnDisk DEF Truncate, ScratchOf
  <2> QED
    BY <1>2, <1>3, <2>1 DEF WholeInv, Writing, InPc
<1>12. ASSUME NEW i \in Instances, Fill(i) PROVE WholeInv'
  <2>1. UNCHANGED unsynced /\ OnDisk' = OnDisk /\ Step(i, "sync") /\ InPc(i, {"fill"})
        /\ scratch'[i] = app[i].text
        /\ \A j \in Instances \ {i} : scratch'[j] = scratch[j]
    BY <1>0, <1>12, AppOnDisk DEF Fill, ScratchOf
  <2> QED
    BY <1>2, <1>3, <2>1 DEF WholeInv, Writing, InPc
<1>13. ASSUME NEW i \in Instances, Sync(i) PROVE WholeInv'
  <2>1. UNCHANGED <<scratch, unsynced>> /\ OnDisk' = OnDisk /\ InPc(i, {"sync"})
    BY <1>13, AppOnDisk DEF Sync
  <2>2. /\ app'[i].pc = "rename" /\ app'[i].synced /\ app'[i].text = app[i].text
        /\ \A j \in Instances \ {i} : app'[j] = app[j]
    BY <1>0, <1>13 DEF Sync, FilesTypeOK
  <2> QED
    BY <1>2, <2>1, <2>2 DEF WholeInv, Writing, InPc
<1>14. ASSUME NEW i \in Instances, Publish(i) PROVE WholeInv'
  <2>1. /\ unsynced' \subseteq {"token"} /\ Step(i, "settle") /\ InPc(i, {"rename"})
        /\ dir' = [dir EXCEPT ![app[i].name] = app[i].text]
        /\ \A e \in OnDisk' : e \in OnDisk \/ SameFiles(e, dir')
    BY <1>14, AppOnDisk DEF Publish
  <2>2. \A j \in Instances \ {i} : scratch'[j] = scratch[j]
    BY <1>0, <1>14 DEF Publish, ScratchOf
  <2>3. app[i].text = Saying(Says(app[i].text)) /\ app[i].text # Partial
    BY <2>1, ContentsFacts DEF WholeInv, Writing, InPc
  <2>4. dir'["state"] # Partial /\ dir'["config"] # Partial
    <3>1. dir["state"] # Partial /\ dir["config"] # Partial
      BY <1>0 DEF WholeInv, WritesAreWhole
    <3> QED
      BY <1>0, <2>1, <2>3, <3>1 DEF Directories, FileNames
  <2> QED
    BY <1>2, <1>3, <2>1, <2>2, <2>3, <2>4 DEF WholeInv, Writing, InPc, SameFiles
<1>15. ASSUME NEW i \in Instances, SyncDir(i) PROVE WholeInv'
  <2>1. UNCHANGED <<scratch, unsynced>> /\ Step(i, app[i].then)
        /\ \A e \in OnDisk' : e \in OnDisk \/ SameFiles(e, dir)
    BY <1>15, AppOnDisk DEF SyncDir
  <2> QED
    BY <1>0, <1>2, <1>3, <2>1 DEF WholeInv, WritesAreWhole, Writing, InPc, SameFiles
<1>16. ASSUME NEW i \in Instances, Fail(i) PROVE WholeInv'
  <2>1. UNCHANGED unsynced /\ OnDisk' = OnDisk /\ Step(i, app[i].then)
        /\ \A j \in Instances \ {i} : scratch'[j] = scratch[j]
    BY <1>0, <1>16, AppOnDisk DEF Fail, ScratchOf
  <2> QED
    BY <1>0, <1>2, <1>3, <2>1 DEF WholeInv, Writing, InPc
<1>17. ASSUME NEW i \in Instances, StopInstance(i) PROVE WholeInv'
  <2>1. UNCHANGED unsynced /\ OnDisk' = OnDisk /\ app'[i] = Off
        /\ \A j \in Instances \ {i} : app'[j] = app[j] /\ scratch'[j] = scratch[j]
    BY <1>0, <1>17, AppOnDisk DEF StopInstance
  <2> QED
    BY <1>2, <2>1, OffStates DEF WholeInv, Writing, InPc
<1>18. CASE FilesPowerCut
  <2>1. unsynced' = {} /\ OnDisk' \subseteq OnDisk /\ \A i \in Instances : app'[i] = Off
    BY <1>18 DEF FilesPowerCut, OnDisk
  <2> QED
    BY <2>1, OffStates DEF WholeInv, WritesAreWhole, Writing, InPc
<1>19. CASE Spoil
  <2>1. unsynced' = {} /\ OnDisk' = {dir'} /\ app' = app /\ \A i \in Instances : InPc(i, {"off"})
    BY <1>19 DEF Spoil, OnDisk
  <2>2. dir'["state"] # Partial /\ dir'["config"] # Partial
    <3>1. dir["config"] # Partial
      BY <1>0 DEF WholeInv, WritesAreWhole
    <3> QED
      BY <1>0, <1>19, <3>1, ContentsFacts DEF Spoil, Directories, FileNames
  <2> QED
    BY <2>1, <2>2 DEF WholeInv, WritesAreWhole, Writing, InPc
<1> QED
  BY <1>1, <1>5, <1>6, <1>7, <1>8, <1>9, <1>10, <1>11, <1>12, <1>13, <1>14, <1>15, <1>16, <1>17,
     <1>18, <1>19 DEF FilesNext, AppNext

---------------------------------------------------------------------------
\* What an instance's place in write_atomic becomes.
LEMMA StepFacts ==
  ASSUME FilesTypeOK, NEW i \in Instances, NEW to, Step(i, to)
  PROVE  /\ \A j \in Instances \ {i} : app'[j] = app[j]
         /\ app'[i].pc = to /\ app'[i].text = app[i].text /\ app'[i].name = app[i].name
         /\ app'[i].then = app[i].then
BY DEF Step, FilesTypeOK

\* Where one instance runs at a time, the others are off and stay so.
LEMMA AloneStep ==
  ASSUME FilesTypeOK, SavedInv, ~together', NEW i \in Instances,
         \/ Boot(i) \/ Port(i) \/ Load(i) \/ MoveAside(i) \/ SaveState(i) \/ SaveConfig(i)
         \/ Truncate(i) \/ Fill(i) \/ Sync(i) \/ Publish(i) \/ SyncDir(i) \/ Fail(i)
         \/ StopInstance(i)
  PROVE  /\ ~together
         /\ \A j \in Instances \ {i} : InPc(j, {"off"}) /\ app'[j] = app[j]
<1>0. DOMAIN app = Instances
  BY DEF FilesTypeOK
<1>1. ~together
  BY DEF Boot, Port, Load, MoveAside, SaveState, SaveConfig, Truncate, Fill, Sync, Publish, SyncDir,
     Fail, StopInstance
<1>2. ASSUME NEW j \in Instances \ {i} PROVE InPc(j, {"off"})
  <2>1. CASE Boot(i)
    BY <2>1 DEF Boot
  <2>2. CASE ~Boot(i)
    <3>1. ~InPc(i, {"off"})
      BY <2>2 DEF Port, Load, MoveAside, SaveState, SaveConfig, Truncate, Fill, Sync, Publish, SyncDir,
         Fail, StopInstance, InPc
    <3> QED
      BY <1>1, <3>1 DEF SavedInv
  <2> QED
    BY <2>1, <2>2
<1>3. \A j \in Instances \ {i} : app'[j] = app[j]
  BY <1>0 DEF Boot, Port, Load, MoveAside, SaveState, SaveConfig, Truncate, Fill, Sync, Publish,
     SyncDir, Fail, StopInstance, Step, Strip, StartWrite
<1> QED
  BY <1>1, <1>2, <1>3

\* The promise holds on if it does of the instance that has moved.
LEMMA SavedOfOne ==
  ASSUME NEW i \in Instances, \A j \in Instances \ {i} : InPc(j, {"off"}) /\ app'[j] = app[j],
         \A d \in OnDisk', f \in {"state", "config"} : promised'[f] \ Secrets \subseteq Says(d[f]),
         Loaded(i)' => promised'["state"] \ Secrets \subseteq knows'[i],
         InPc(i, {"aside"})' => dir'["state"] = Bad,
         Writing(i)' => promised'[app'[i].name] \ Secrets \subseteq Says(app'[i].text),
         Writing(i)' /\ app'[i].name = "state" => Says(app'[i].text) = knows'[i] /\ app'[i].then = "idle",
         InPc(i, {"settle"})' => dir'[app'[i].name] = app'[i].text
  PROVE  SavedInv'
BY DEF SavedInv, Loaded, Writing, InPc

\* What one instance at a time reported saved stays, if what is there is read.
LEMMA SavedStep ==
  ASSUME ~ReadErrors, FilesTypeOK, WholeInv, SavedInv, FilesNext
  PROVE  SavedInv'
<1>0. /\ \A i \in Instances : /\ app[i].name \in {"state", "config"} /\ app[i].then \in {"load", "idle"}
                              /\ Writing(i) => app[i].text[2] = Says(app[i].text)
      /\ DOMAIN app = Instances /\ DOMAIN scratch = Instances /\ DOMAIN knows = Instances
      /\ dir \in Directories /\ disk \subseteq Directories /\ dir \in OnDisk
      /\ DOMAIN promised = {"state", "config"}
  <2>1. \A i \in Instances : Writing(i) => app[i].text[2] = Says(app[i].text)
    BY ContentsFacts DEF WholeInv
  <2> QED
    BY <2>1 DEF FilesTypeOK, OnDisk
<1>1. CASE HeadNext \/ Writeback
  <2>1. /\ UNCHANGED <<app, knows, promised, together>> /\ SameFiles(dir', dir)
        /\ \A e \in OnDisk' : \E d \in OnDisk : SameFiles(e, d)
    BY <1>1, HeadsLeaveFiles
  <2>2. ~together => \A e \in OnDisk', f \in {"state", "config"} : promised[f] \ Secrets \subseteq Says(e[f])
    <3>1. ASSUME ~together, NEW e \in OnDisk', NEW f \in {"state", "config"}
          PROVE  promised[f] \ Secrets \subseteq Says(e[f])
      <4>1. PICK d \in OnDisk : e[f] = d[f]
        <5>1. PICK d \in OnDisk : SameFiles(e, d)
          BY <2>1
        <5> QED
          BY <5>1 DEF SameFiles
      <4> QED
        BY <3>1, <4>1 DEF SavedInv
    <3> QED
      BY <3>1
  <2>3. \A f \in {"state", "config"} : dir'[f] = dir[f]
    BY <2>1 DEF SameFiles
  <2> QED
    BY <1>0, <2>1, <2>2, <2>3 DEF SavedInv, Loaded, Writing, InPc
<1>2. ASSUME ~together', NEW i \in Instances,
             \/ Boot(i) \/ Port(i) \/ Load(i) \/ MoveAside(i) \/ SaveState(i) \/ SaveConfig(i)
             \/ Truncate(i) \/ Fill(i) \/ Sync(i) \/ Publish(i) \/ SyncDir(i) \/ Fail(i)
             \/ StopInstance(i)
      PROVE  SavedInv'
  <2>0. /\ \A j \in Instances \ {i} : InPc(j, {"off"}) /\ app'[j] = app[j]
        /\ \A d \in OnDisk, f \in {"state", "config"} : promised[f] \ Secrets \subseteq Says(d[f])
        /\ \A f \in {"state", "config"} : promised[f] \ Secrets \subseteq Says(dir[f])
        /\ Loaded(i) => promised["state"] \ Secrets \subseteq knows[i]
        /\ InPc(i, {"aside"}) => dir["state"] = Bad
        /\ Writing(i) => promised[app[i].name] \ Secrets \subseteq Says(app[i].text)
        /\ Writing(i) /\ app[i].name = "state" => Says(app[i].text) = knows[i] /\ app[i].then = "idle"
        /\ InPc(i, {"settle"}) => dir[app[i].name] = app[i].text
    BY <1>0, <1>2, AloneStep DEF SavedInv
  <2>a. ASSUME UNCHANGED <<dir, promised>>, OnDisk' = OnDisk,
               Loaded(i)' => promised["state"] \ Secrets \subseteq knows'[i],
               InPc(i, {"aside"})' => dir["state"] = Bad,
               Writing(i)' => promised[app'[i].name] \ Secrets \subseteq Says(app'[i].text),
               Writing(i)' /\ app'[i].name = "state" => Says(app'[i].text) = knows'[i] /\ app'[i].then = "idle",
               ~InPc(i, {"settle"})'
        PROVE  SavedInv'
    BY <2>0, <2>a, SavedOfOne
  <2>b. ASSUME UNCHANGED <<dir, promised, knows>>, OnDisk' = OnDisk, NEW to, Step(i, to),
               Writing(i), to \in {"fill", "sync", "rename"} \/ to = app[i].then
        PROVE  SavedInv'
    <3>1. /\ app'[i].pc = to /\ app'[i].text = app[i].text /\ app'[i].name = app[i].name
          /\ app'[i].then = app[i].then
      BY <2>b, StepFacts
    <3>2. Loaded(i)' => Loaded(i)
      BY <1>0, <2>b, <3>1 DEF Loaded, Writing, InPc
    <3>3. ~InPc(i, {"aside", "settle"})'
      BY <1>0, <2>b, <3>1 DEF InPc
    <3> QED
      BY <2>0, <2>a, <2>b, <3>1, <3>2, <3>3 DEF InPc
  <2>1. CASE Boot(i)
    <3>1. app'[i].pc \in {"load", "port"}
      BY <1>0, <2>1 DEF Boot, Off
    <3> QED
      BY <2>1, <2>a, <3>1, AppOnDisk DEF Loaded, Writing, InPc
  <2>2. CASE Port(i)
    <3>1. UNCHANGED <<dir, promised>> /\ OnDisk' = OnDisk
      BY <2>2, AppOnDisk
    <3>2. CASE Step(i, "load")
      BY <2>a, <3>1, <3>2, StepFacts DEF Loaded, Writing, InPc
    <3>3. CASE StartWrite(i, "config", Saying(Says(dir["config"]) \ Secrets), "load")
      <4>1. app'[i] = [pc |-> "write", name |-> "config", text |-> Saying(Says(dir["config"]) \ Secrets),
                       synced |-> FALSE, then |-> "load"]
        BY <1>0, <3>3 DEF StartWrite
      <4>2. Says(app'[i].text) = Says(dir["config"]) \ Secrets
        BY <4>1, ContentsFacts
      <4>3. promised["config"] \ Secrets \subseteq Says(dir["config"]) \ Secrets
        BY <2>0
      <4> QED
        BY <2>a, <3>1, <4>1, <4>2, <4>3 DEF Loaded, Writing, InPc
    <3> QED
      BY <2>2, <3>2, <3>3 DEF Port, Strip
  <2>3. CASE Load(i)
    <3>1. UNCHANGED <<dir, promised>> /\ OnDisk' = OnDisk
      BY <2>3, AppOnDisk
    <3>2. \/ Step(i, "idle") /\ knows' = [knows EXCEPT ![i] = Says(dir["state"])]
          \/ Step(i, "aside") /\ dir["state"] \in {Partial, Bad}
      BY <1>0, <2>3 DEF Load
    <3>3. dir["state"] # Partial
      BY <1>0 DEF WholeInv, WritesAreWhole
    <3>4. CASE Step(i, "idle") /\ knows' = [knows EXCEPT ![i] = Says(dir["state"])]
      BY <1>0, <2>0, <2>a, <3>1, <3>4, StepFacts DEF Loaded, Writing, InPc
    <3>5. CASE Step(i, "aside") /\ dir["state"] \in {Partial, Bad}
      BY <2>a, <3>1, <3>3, <3>5, StepFacts DEF Loaded, Writing, InPc
    <3> QED
      BY <3>2, <3>4, <3>5
  <2>4. CASE MoveAside(i)
    <3>1. /\ Step(i, "idle") /\ promised' = promised /\ knows' = knows /\ InPc(i, {"aside"})
          /\ dir' = [dir EXCEPT !["state"] = Missing, !["aside"] = dir["state"]] \/ dir' = dir
          /\ \A e \in OnDisk' : e \in OnDisk \/ SameFiles(e, dir')
      BY <2>4, AppOnDisk DEF MoveAside
    <3>2. promised["state"] \ Secrets = {}
      <4>1. dir["state"] = Bad /\ Says(Bad) = {}
        BY <2>0, <3>1, ContentsFacts
      <4> QED
        BY <2>0, <4>1
    <3>3. dir'["config"] = dir["config"]
      BY <1>0, <3>1 DEF Directories, FileNames
    <3>4. \A e \in OnDisk', f \in {"state", "config"} : promised[f] \ Secrets \subseteq Says(e[f])
      BY <2>0, <3>1, <3>2, <3>3 DEF SameFiles
    <3>5. app'[i].pc = "idle"
      BY <3>1, StepFacts
    <3> QED
      BY <2>0, <3>1, <3>2, <3>4, <3>5, SavedOfOne DEF Loaded, Writing, InPc
  <2>5. CASE SaveState(i)
    <3>1. UNCHANGED <<dir, promised>> /\ OnDisk' = OnDisk /\ Loaded(i)
      BY <2>5, AppOnDisk DEF SaveState, Loaded
    <3>2. /\ app'[i] = [pc |-> "write", name |-> "state", text |-> Saying(knows'[i]),
                        synced |-> FALSE, then |-> "idle"]
          /\ knows[i] \subseteq knows'[i]
      BY <1>0, <2>5 DEF SaveState, StartWrite
    <3>3. Says(app'[i].text) = knows'[i]
      BY <3>2, ContentsFacts
    <3> QED
      BY <2>0, <2>a, <3>1, <3>2, <3>3 DEF InPc
  <2>6. CASE SaveConfig(i)
    <3>1. UNCHANGED <<dir, promised, knows>> /\ OnDisk' = OnDisk /\ Loaded(i)
      BY <2>6, AppOnDisk DEF SaveConfig, Loaded
    <3>2. StartWrite(i, "config", Saying(Says(dir["config"]) \cup {Edit(made'.edits)}), "idle")
      BY <2>6 DEF SaveConfig
    <3>3. app'[i] = [pc |-> "write", name |-> "config", synced |-> FALSE, then |-> "idle",
                     text |-> Saying(Says(dir["config"]) \cup {Edit(made'.edits)})]
      BY <1>0, <3>2 DEF StartWrite
    <3>4. Says(app'[i].text) = Says(dir["config"]) \cup {Edit(made'.edits)}
      BY <3>3, ContentsFacts
    <3>5. app'[i].pc = "write" /\ app'[i].name = "config"
          /\ promised["config"] \ Secrets \subseteq Says(app'[i].text)
      <4>1. promised["config"] \ Secrets \subseteq Says(dir["config"])
        BY <2>0
      <4>2. app'[i].pc = "write" /\ app'[i].name = "config"
        BY <3>3
      <4> QED
        BY <3>4, <4>1, <4>2
    <3> QED
      BY <2>0, <2>a, <3>1, <3>5 DEF InPc
  <2>7. CASE Truncate(i)
    BY <2>7, <2>b, AppOnDisk DEF Truncate, Writing, InPc
  <2>8. CASE Fill(i)
    BY <2>8, <2>b, AppOnDisk DEF Fill, Writing, InPc
  <2>9. CASE Sync(i)
    <3>1. UNCHANGED <<dir, promised, knows>> /\ OnDisk' = OnDisk /\ Writing(i)
      BY <2>9, AppOnDisk DEF Sync, Writing, InPc
    <3>2. /\ app'[i].pc = "rename" /\ app'[i].text = app[i].text /\ app'[i].name = app[i].name
          /\ app'[i].then = app[i].then
      BY <2>9 DEF Sync, FilesTypeOK
    <3> QED
      BY <2>0, <2>a, <3>1, <3>2 DEF Loaded, Writing, InPc
  <2>10. CASE Publish(i)
    <3>1. /\ Step(i, "settle") /\ promised' = promised /\ knows' = knows /\ Writing(i)
          /\ dir' = [dir EXCEPT ![app[i].name] = app[i].text]
          /\ \A e \in OnDisk' : e \in OnDisk \/ SameFiles(e, dir')
      BY <2>10, AppOnDisk DEF Publish, Writing, InPc
    <3>2. /\ app'[i].pc = "settle" /\ app'[i].text = app[i].text /\ app'[i].name = app[i].name
          /\ app'[i].then = app[i].then
      BY <3>1, StepFacts
    <3>3. dir'[app[i].name] = app[i].text
          /\ \A f \in {"state", "config"} : f # app[i].name => dir'[f] = dir[f]
      BY <1>0, <3>1 DEF Directories, FileNames
    <3>4. \A f \in {"state", "config"} : promised[f] \ Secrets \subseteq Says(dir'[f])
      BY <2>0, <3>1, <3>3
    <3>5. \A e \in OnDisk', f \in {"state", "config"} : promised[f] \ Secrets \subseteq Says(e[f])
      BY <2>0, <3>1, <3>4 DEF SameFiles
    <3>6. Loaded(i)' => Loaded(i)
      BY <3>1, <3>2 DEF Loaded, Writing, InPc
    <3> QED
      BY <2>0, <3>1, <3>2, <3>3, <3>5, <3>6, SavedOfOne DEF InPc
  <2>11. CASE SyncDir(i)
    <3>1. /\ Step(i, app[i].then) /\ dir' = dir /\ knows' = knows /\ Writing(i) /\ InPc(i, {"settle"})
      BY <2>11, AppOnDisk DEF SyncDir, Writing, InPc
    <3>2. /\ app'[i].pc = app[i].then /\ app'[i].text = app[i].text /\ app'[i].name = app[i].name
          /\ app'[i].then = app[i].then
      BY <3>1, StepFacts
    <3>3. Loaded(i)' => Loaded(i)
      BY <1>0, <3>1, <3>2 DEF Loaded, Writing, InPc
    <3>4. ~Writing(i)' /\ ~InPc(i, {"aside", "settle"})'
      BY <1>0, <3>2 DEF Writing, InPc
    <3>5. CASE promised' = promised /\ OnDisk' = OnDisk
      BY <2>0, <2>a, <3>1, <3>3, <3>4, <3>5 DEF InPc
    <3>6. CASE /\ promised' = [promised EXCEPT ![app[i].name] = app[i].text[2]]
               /\ \A e \in OnDisk' : SameFiles(e, dir)
      <4>1. Says(dir[app[i].name]) = app[i].text[2]
        BY <1>0, <2>0, <3>1
      <4>2. promised'[app[i].name] = app[i].text[2]
            /\ \A f \in {"state", "config"} : f # app[i].name => promised'[f] = promised[f]
        BY <1>0, <3>6
      <4>3. \A f \in {"state", "config"} : promised'[f] \ Secrets \subseteq Says(dir[f])
        BY <2>0, <4>1, <4>2
      <4>4. \A e \in OnDisk', f \in {"state", "config"} : promised'[f] \ Secrets \subseteq Says(e[f])
        BY <3>6, <4>3 DEF SameFiles
      <4>5. Loaded(i) => promised'["state"] \ Secrets \subseteq knows[i]
        BY <1>0, <2>0, <3>1, <4>2
      <4> QED
        BY <2>0, <3>1, <3>3, <3>4, <4>4, <4>5, SavedOfOne DEF InPc
    <3> QED
      BY <2>11, <3>5, <3>6, AppOnDisk
  <2>12. CASE Fail(i)
    BY <2>12, <2>b, AppOnDisk DEF Fail, Writing, InPc
  <2>13. CASE StopInstance(i)
    <3>1. app'[i].pc = "off"
      BY <1>0, <2>13, OffStates DEF StopInstance
    <3> QED
      BY <2>13, <2>a, <3>1, AppOnDisk DEF Loaded, Writing, InPc
  <2> QED
    BY <1>2, <2>1, <2>2, <2>3, <2>4, <2>5, <2>6, <2>7, <2>8, <2>9, <2>10, <2>11, <2>12, <2>13
<1>3. CASE FilesPowerCut
  <2>1. OnDisk' \subseteq OnDisk /\ promised' = promised /\ together' = together
        /\ \A i \in Instances : app'[i].pc = "off"
    BY <1>3, OffStates DEF FilesPowerCut, OnDisk
  <2> QED
    BY <2>1 DEF SavedInv, Loaded, Writing, InPc
<1>4. CASE Spoil
  <2>1. /\ OnDisk' = {dir'} /\ app' = app /\ together' = together
        /\ \A i \in Instances : InPc(i, {"off"})
        /\ dir'["config"] = dir["config"] /\ promised'["config"] = promised["config"] /\ promised'["state"] = {}
    BY <1>0, <1>4 DEF Spoil, OnDisk, Directories, FileNames
  <2> QED
    BY <1>0, <2>1 DEF SavedInv, Loaded, Writing, InPc
<1> QED
  BY <1>1, <1>2, <1>3, <1>4 DEF FilesNext, AppNext, SavedInv

---------------------------------------------------------------------------
\* A state.toml that does not parse is moved aside before it is written over, if
\* what is there is read.
LEMMA KeptStep ==
  ASSUME ~ReadErrors, FilesTypeOK, WholeInv, SavedInv, KeptInv, FilesNext
  PROVE  KeptInv'
<1>0. /\ \A i \in Instances : app[i].name \in {"state", "config"} /\ app[i].then \in {"load", "idle"}
      /\ DOMAIN app = Instances
      /\ dir \in Directories /\ disk \subseteq Directories /\ dir \in OnDisk
  BY DEF FilesTypeOK, OnDisk
<1>1. CASE HeadNext \/ Writeback
  <2>1. /\ UNCHANGED <<app, spoilt, together>> /\ SameFiles(dir', dir)
        /\ \A e \in OnDisk' : \E d \in OnDisk : SameFiles(e, d)
    BY <1>1, HeadsLeaveFiles
  <2> QED
    BY <2>1 DEF KeptInv, SameFiles, Loaded, Writing, InPc
<1>2. ASSUME spoilt', ~together', NEW i \in Instances,
             \/ Boot(i) \/ Port(i) \/ Load(i) \/ MoveAside(i) \/ SaveState(i) \/ SaveConfig(i)
             \/ Truncate(i) \/ Fill(i) \/ Sync(i) \/ Publish(i) \/ SyncDir(i) \/ Fail(i)
             \/ StopInstance(i)
      PROVE  KeptInv'
  <2>0. /\ \A j \in Instances \ {i} : InPc(j, {"off"}) /\ app'[j] = app[j]
        /\ ~together /\ spoilt
    BY <1>2, AloneStep DEF Boot, Port, Load, MoveAside, SaveState, SaveConfig, Truncate, Fill, Sync,
       Publish, SyncDir, Fail, StopInstance
  <2>1. /\ \A d \in OnDisk : Bad \in {d["state"], d["aside"]}
        /\ Bad \in {dir["state"], dir["aside"]}
        /\ Loaded(i) => dir["aside"] = Bad
        /\ InPc(i, {"aside"}) => dir["state"] = Bad
        /\ Writing(i) /\ app[i].name = "state" => app[i].then = "idle"
    BY <1>0, <2>0 DEF KeptInv, SavedInv
  <2>a. ASSUME \A e \in OnDisk' : Bad \in {e["state"], e["aside"]}, Loaded(i)' => dir'["aside"] = Bad
        PROVE  KeptInv'
    BY <2>0, <2>a DEF KeptInv, Loaded, Writing, InPc
  <2>2. CASE Boot(i)
    <3>1. app'[i].pc \in {"load", "port"}
      BY <1>0, <2>2 DEF Boot, Off
    <3> QED
      BY <2>1, <2>2, <2>a, <3>1, AppOnDisk DEF Loaded, Writing, InPc
  <2>3. CASE Port(i)
    <3>1. ~Loaded(i)'
      <4>1. CASE Step(i, "load")
        BY <4>1, StepFacts DEF Loaded, Writing, InPc
      <4>2. CASE StartWrite(i, "config", Saying(Says(dir["config"]) \ Secrets), "load")
        BY <1>0, <4>2 DEF StartWrite, Loaded, InPc
      <4> QED
        BY <2>3, <4>1, <4>2 DEF Port, Strip
    <3> QED
      BY <2>1, <2>3, <2>a, <3>1, AppOnDisk
  <2>4. CASE Load(i)
    <3>1. dir["state"] # Bad \/ Step(i, "aside")
      BY <2>4 DEF Load
    <3>2. dir["state"] # Bad => dir["aside"] = Bad
      BY <2>1
    <3>3. Step(i, "aside") => ~Loaded(i)'
      BY StepFacts DEF Loaded, Writing, InPc
    <3> QED
      BY <1>2, <2>1, <2>4, <2>a, <3>1, <3>2, <3>3, AppOnDisk
  <2>5. CASE MoveAside(i)
    <3>1. /\ dir' = [dir EXCEPT !["state"] = Missing, !["aside"] = dir["state"]]
          /\ \A e \in OnDisk' : e \in OnDisk \/ SameFiles(e, dir')
      BY <1>2, <2>5, AppOnDisk
    <3>2. dir["state"] = Bad
      BY <2>1, <2>5 DEF MoveAside
    <3>3. dir'["aside"] = Bad
      BY <1>0, <3>1, <3>2 DEF Directories, FileNames
    <3> QED
      BY <2>1, <2>a, <3>1, <3>3 DEF SameFiles
  <2>6. ASSUME UNCHANGED dir, OnDisk' = OnDisk, Loaded(i)' => Loaded(i) PROVE KeptInv'
    BY <2>1, <2>6, <2>a
  <2>7. CASE SaveState(i) \/ SaveConfig(i)
    <3>1. UNCHANGED dir /\ OnDisk' = OnDisk /\ Loaded(i)
      BY <2>7, AppOnDisk DEF SaveState, SaveConfig, Loaded
    <3> QED
      BY <2>6, <3>1
  <2>8. ASSUME NEW to, Step(i, to), Writing(i), to \in {"fill", "sync", "rename", "settle"} \/ to = app[i].then
        PROVE  Loaded(i)' => Loaded(i)
    BY <1>0, <2>8, StepFacts DEF Loaded, Writing, InPc
  <2>9. CASE Truncate(i) \/ Fill(i) \/ Fail(i)
    <3>1. Loaded(i)' => Loaded(i)
      BY <2>8, <2>9 DEF Truncate, Fill, Fail, Writing, InPc
    <3> QED
      BY <2>6, <2>9, <3>1, AppOnDisk
  <2>10. CASE Sync(i)
    <3>1. app'[i].pc = "rename" /\ app'[i].then = app[i].then /\ InPc(i, {"sync"})
      BY <2>10 DEF Sync, FilesTypeOK
    <3>2. Loaded(i)' => Loaded(i)
      BY <3>1 DEF Loaded, Writing, InPc
    <3> QED
      BY <2>6, <2>10, <3>2, AppOnDisk
  <2>11. CASE Publish(i)
    <3>1. /\ dir' = [dir EXCEPT ![app[i].name] = app[i].text] /\ Writing(i) /\ Step(i, "settle")
          /\ \A e \in OnDisk' : e \in OnDisk \/ SameFiles(e, dir')
      BY <2>11, AppOnDisk DEF Publish, Writing, InPc
    <3>2. Loaded(i)' => Loaded(i)
      BY <2>8, <3>1
    <3>3. dir'["aside"] = dir["aside"] /\ (app[i].name = "config" => dir'["state"] = dir["state"])
      BY <1>0, <3>1 DEF Directories, FileNames
    <3>4. app[i].name = "state" => dir["aside"] = Bad
      BY <2>1, <3>1 DEF Loaded
    <3>5. Bad \in {dir'["state"], dir'["aside"]}
      BY <1>0, <2>1, <3>3, <3>4
    <3> QED
      BY <2>1, <2>a, <3>1, <3>2, <3>3, <3>5 DEF SameFiles
  <2>12. CASE SyncDir(i)
    <3>1. /\ dir' = dir /\ Step(i, app[i].then) /\ Writing(i)
          /\ \A e \in OnDisk' : e \in OnDisk \/ SameFiles(e, dir)
      BY <2>12, AppOnDisk DEF SyncDir, Writing, InPc
    <3>2. Loaded(i)' => Loaded(i)
      BY <2>8, <3>1
    <3> QED
      BY <2>1, <2>a, <3>1, <3>2 DEF SameFiles
  <2>13. CASE StopInstance(i)
    <3>1. app'[i].pc = "off"
      BY <1>0, <2>13, OffStates DEF StopInstance
    <3> QED
      BY <2>6, <2>13, <3>1, AppOnDisk DEF Loaded, Writing, InPc
  <2> QED
    BY <1>2, <2>2, <2>3, <2>4, <2>5, <2>7, <2>9, <2>10, <2>11, <2>12, <2>13
<1>3. CASE FilesPowerCut
  <2>1. OnDisk' \subseteq OnDisk /\ UNCHANGED <<spoilt, together>>
        /\ \A i \in Instances : app'[i].pc = "off"
    BY <1>3, OffStates DEF FilesPowerCut, OnDisk
  <2> QED
    BY <2>1 DEF KeptInv, Loaded, Writing, InPc
<1>4. CASE Spoil
  <2>1. OnDisk' = {dir'} /\ app' = app /\ dir'["state"] = Bad /\ \A i \in Instances : InPc(i, {"off"})
    BY <1>0, <1>4 DEF Spoil, OnDisk, Directories, FileNames
  <2> QED
    BY <2>1 DEF KeptInv, Loaded, Writing, InPc
<1> QED
  BY <1>1, <1>2, <1>3, <1>4 DEF FilesNext, AppNext, KeptInv

---------------------------------------------------------------------------
\* A password of config.toml goes to the store before it leaves the file, if what
\* is there is read.
LEMMA SomewhereStep ==
  ASSUME ~ReadErrors, FilesTypeOK, WholeInv, SomewhereInv, FilesNext
  PROVE  SomewhereInv'
<1> DEFINE StillThere(b) ==
             /\ \A d \in OnDisk' : Secret(b) \in Says(d["config"])
             /\ \A i \in Instances :
                  InPc(i, {"port"})' \/ (Writing(i)' /\ app'[i].name = "config") =>
                    Secret(b) \in Says(app'[i].text)
<1> SUFFICES ASSUME NEW a \in Plain, a \notin store' \cup unsaved'
             PROVE  StillThere(a)
  BY DEF SomewhereInv
<1>0. /\ \A i \in Instances : app[i].name \in {"state", "config"} /\ app[i].then \in {"load", "idle"}
      /\ DOMAIN app = Instances /\ a \in Accounts
      /\ dir \in Directories /\ disk \subseteq Directories /\ dir \in OnDisk
  BY FilesAssumption DEF FilesTypeOK, OnDisk
<1>1. store \subseteq store' /\ unsaved \subseteq unsaved'
  BY DEF FilesNext, AppNext, HeadNext, Boot, Port, Load, MoveAside, SaveState, SaveConfig, Truncate,
     Fill, Sync, Publish, SyncDir, Fail, StopInstance, Probe, CreateToken, WriteToken, SyncToken,
     ReadToken, StopHead, OwnerDeletes, Writeback, FilesPowerCut, Spoil
<1>2. /\ \A d \in OnDisk : Secret(a) \in Says(d["config"])
      /\ Secret(a) \in Says(dir["config"])
      /\ \A i \in Instances : InPc(i, {"port"}) \/ (Writing(i) /\ app[i].name = "config") =>
                                Secret(a) \in Says(app[i].text)
  BY <1>0, <1>1 DEF SomewhereInv
<1>3. CASE HeadNext \/ Writeback
  <2>1. app' = app /\ \A e \in OnDisk' : \E d \in OnDisk : SameFiles(e, d)
    BY <1>3, HeadsLeaveFiles
  <2> QED
    BY <1>2, <2>1 DEF SameFiles, Writing, InPc
<1>4. ASSUME NEW i \in Instances, \A j \in Instances \ {i} : app'[j] = app[j],
             \A e \in OnDisk' : e \in OnDisk \/ SameFiles(e, dir'),
             Secret(a) \in Says(dir'["config"]),
             InPc(i, {"port"})' \/ (Writing(i)' /\ app'[i].name = "config") =>
               Secret(a) \in Says(app'[i].text)
      PROVE  StillThere(a)
  BY <1>2, <1>4 DEF SameFiles, Writing, InPc
<1>5. ASSUME NEW i \in Instances, NEW to, Step(i, to), to # "port",
             to \in {"fill", "sync", "settle", "rename"} => Writing(i), to # "write",
             \A e \in OnDisk' : e \in OnDisk \/ SameFiles(e, dir'),
             Secret(a) \in Says(dir'["config"])
      PROVE  StillThere(a)
  <2>1. /\ \A j \in Instances \ {i} : app'[j] = app[j]
        /\ app'[i].pc = to /\ app'[i].text = app[i].text /\ app'[i].name = app[i].name
    BY <1>5, StepFacts
  <2>2. InPc(i, {"port"})' \/ (Writing(i)' /\ app'[i].name = "config") => Secret(a) \in Says(app'[i].text)
    BY <1>2, <1>5, <2>1 DEF Writing, InPc
  <2> QED
    BY <1>4, <1>5, <2>1, <2>2
<1>6. ASSUME NEW i \in Instances, Boot(i)
      PROVE  StillThere(a)
  <2>1. /\ \A j \in Instances \ {i} : app'[j] = app[j]
        /\ app'[i].text = Saying({Secret(b) : b \in Plaintext}) /\ app'[i].pc \in {"load", "port"}
    BY <1>0, <1>6 DEF Boot, Off
  <2>2. Secret(a) \in Says(app'[i].text)
    <3>1. a \in Plaintext
      BY <1>0, <1>2 DEF Plaintext
    <3>2. Says(app'[i].text) = {Secret(b) : b \in Plaintext}
      BY <2>1, ContentsFacts
    <3> QED
      BY <3>1, <3>2
  <2> QED
    BY <1>2, <1>4, <1>6, <2>1, <2>2, AppOnDisk
<1>7. ASSUME NEW i \in Instances, Port(i) PROVE FALSE
  <2>1. a \in store' \cup unsaved'
    <3>1. Secret(a) \in Says(app[i].text)
      BY <1>2, <1>7 DEF Port
    <3>2. PICK ok : store' = store \cup ok
                    /\ unsaved' = unsaved \cup ({b \in Accounts : Secret(b) \in Says(app[i].text)} \ ok)
      BY <1>7 DEF Port
    <3> QED
      BY <1>0, <3>1, <3>2
  <2> QED
    BY <2>1
<1>8. ASSUME NEW i \in Instances, Load(i)
      PROVE  StillThere(a)
  <2>1. Step(i, "idle") \/ Step(i, "aside")
    BY <1>8 DEF Load
  <2> QED
    BY <1>2, <1>5, <1>8, <2>1, AppOnDisk
<1>9. ASSUME NEW i \in Instances, MoveAside(i)
      PROVE  StillThere(a)
  <2>1. /\ Step(i, "idle") /\ \A e \in OnDisk' : e \in OnDisk \/ SameFiles(e, dir')
        /\ dir' = [dir EXCEPT !["state"] = Missing, !["aside"] = dir["state"]] \/ dir' = dir
    BY <1>9, AppOnDisk DEF MoveAside
  <2>2. dir'["config"] = dir["config"]
    BY <1>0, <2>1 DEF Directories, FileNames
  <2> QED
    BY <1>2, <1>5, <2>1, <2>2
<1>10. ASSUME NEW i \in Instances, NEW n, NEW s, NEW t, StartWrite(i, n, Saying(s), t),
              UNCHANGED dir, OnDisk' = OnDisk, n = "config" => Secret(a) \in s
      PROVE  StillThere(a)
  <2>1. /\ \A j \in Instances \ {i} : app'[j] = app[j]
        /\ app'[i] = [pc |-> "write", name |-> n, text |-> Saying(s), synced |-> FALSE, then |-> t]
    BY <1>0, <1>10 DEF StartWrite
  <2>2. Says(app'[i].text) = s /\ app'[i].name = n /\ app'[i].pc = "write"
    BY <2>1, ContentsFacts
  <2> QED
    BY <1>2, <1>4, <1>10, <2>1, <2>2 DEF InPc
<1>11. ASSUME NEW i \in Instances, SaveState(i) \/ SaveConfig(i)
      PROVE  StillThere(a)
  <2>1. UNCHANGED dir /\ OnDisk' = OnDisk
    BY <1>11, AppOnDisk
  <2>2. CASE SaveState(i)
    BY <1>10, <2>1, <2>2 DEF SaveState
  <2>3. CASE SaveConfig(i)
    <3>1. StartWrite(i, "config", Saying(Says(dir["config"]) \cup {Edit(made'.edits)}), "idle")
      BY <2>3 DEF SaveConfig
    <3> QED
      BY <1>2, <1>10, <2>1, <3>1
  <2> QED
    BY <1>11, <2>2, <2>3
<1>12. ASSUME NEW i \in Instances, Truncate(i) \/ Fill(i) \/ SyncDir(i) \/ Fail(i)
      PROVE  StillThere(a)
  <2>1. dir' = dir /\ \A e \in OnDisk' : e \in OnDisk \/ SameFiles(e, dir')
    BY <1>12, AppOnDisk
  <2>2. Writing(i) /\ (Step(i, "fill") \/ Step(i, "sync") \/ Step(i, app[i].then))
    BY <1>12 DEF Truncate, Fill, SyncDir, Fail, Writing, InPc
  <2> QED
    BY <1>0, <1>2, <1>5, <2>1, <2>2
<1>13. ASSUME NEW i \in Instances, Sync(i)
      PROVE  StillThere(a)
  <2>1. /\ \A j \in Instances \ {i} : app'[j] = app[j]
        /\ app'[i].pc = "rename" /\ app'[i].text = app[i].text /\ app'[i].name = app[i].name /\ Writing(i)
    BY <1>13 DEF Sync, FilesTypeOK, Writing, InPc
  <2> QED
    BY <1>2, <1>4, <1>13, <2>1, AppOnDisk DEF InPc
<1>14. ASSUME NEW i \in Instances, Publish(i)
      PROVE  StillThere(a)
  <2>1. /\ dir' = [dir EXCEPT ![app[i].name] = app[i].text] /\ Writing(i) /\ Step(i, "settle")
        /\ \A e \in OnDisk' : e \in OnDisk \/ SameFiles(e, dir')
    BY <1>14, AppOnDisk DEF Publish, Writing, InPc
  <2>2. dir'["config"] \in {dir["config"], app[i].text}
        /\ (app[i].name # "config" => dir'["config"] = dir["config"])
    BY <1>0, <2>1 DEF Directories, FileNames
  <2>3. Secret(a) \in Says(dir'["config"])
    BY <1>2, <2>1, <2>2
  <2> QED
    BY <1>5, <2>1, <2>3
<1>15. ASSUME NEW i \in Instances, StopInstance(i)
      PROVE  StillThere(a)
  <2>1. app'[i].pc = "off" /\ \A j \in Instances \ {i} : app'[j] = app[j]
    BY <1>0, <1>15, OffStates DEF StopInstance
  <2> QED
    BY <1>2, <1>4, <1>15, <2>1, AppOnDisk DEF Writing, InPc
<1>16. CASE FilesPowerCut
  <2>1. OnDisk' \subseteq OnDisk /\ \A i \in Instances : app'[i].pc = "off"
    BY <1>16, OffStates DEF FilesPowerCut, OnDisk
  <2> QED
    BY <1>2, <2>1 DEF Writing, InPc
<1>17. CASE Spoil
  <2>1. OnDisk' = {dir'} /\ app' = app /\ dir'["config"] = dir["config"]
    BY <1>0, <1>17 DEF Spoil, OnDisk, Directories, FileNames
  <2> QED
    BY <1>2, <2>1 DEF Writing, InPc
<1> QED
  BY <1>3, <1>6, <1>7, <1>8, <1>9, <1>11, <1>12, <1>13, <1>14, <1>15, <1>16, <1>17
     DEF FilesNext, AppNext

---------------------------------------------------------------------------
\* At the start there is a config.toml, and nothing runs.
LEMMA FilesStart ==
  ASSUME FilesInit
  PROVE  FilesTypeOK /\ TokenInv /\ WholeInv /\ SavedInv /\ KeptInv /\ SomewhereInv
<1>1. dir \in Directories /\ dir["config"] = Saying({Secret(a) : a \in Plain}) /\ dir["token"] = Missing
      /\ dir["state"] = Missing
  <2>1. Saying({Secret(a) : a \in Plain}) \in Contents
    <3>1. {Secret(a) : a \in Plain} \in SUBSET Things
      BY FilesAssumption DEF Things, Secrets
    <3> QED
      BY <3>1, ContentsFacts
  <2> QED
    BY <2>1, ContentsFacts DEF FilesInit, Directories, FileNames
<1>2. \A i \in Instances : app[i] = Off
  BY DEF FilesInit
<1>3. OnDisk = {dir}
  BY DEF FilesInit, OnDisk
<1>4. FilesTypeOK
  <2>1. app \in [Instances ->
       [pc : {"off", "port", "load", "aside", "idle", "write", "fill", "sync", "rename", "settle"},
        name : {"state", "config"}, text : Contents, synced : BOOLEAN, then : {"load", "idle"}]]
    BY ContentsFacts DEF FilesInit, Off
  <2>2. scratch \in [Instances -> Contents] /\ knows \in [Instances -> SUBSET Things]
        /\ given \in [Instances -> [Accounts -> Accounts \cup {Nobodys}]]
    BY ContentsFacts DEF FilesInit, Clean, NoneHeld
  <2>3. head \in [Heads -> [pc : {"off", "absent", "read", "created", "written", "serves", "refused"},
                            token : Nat]]
    BY DEF FilesInit, OffHead
  <2>4. made \in [runs : Nat, edits : Nat, tokens : Nat, cuts : Nat]
        /\ promised \in [{"state", "config"} -> SUBSET Things]
    BY DEF FilesInit
  <2>5. disk = {dir} /\ unsynced = {} /\ store = {} /\ unsaved = {} /\ ~together /\ ~spoilt
        /\ together \in BOOLEAN /\ spoilt \in BOOLEAN
    BY DEF FilesInit
  <2> QED
    BY <1>1, <2>1, <2>2, <2>3, <2>4, <2>5 DEF FilesTypeOK
<1>5. TokenInv
  BY DEF FilesInit, OffHead, TokenInv, HeadIn
<1>6. WholeInv
  BY <1>1, <1>2, <1>3, OffStates, ContentsFacts DEF FilesInit, WholeInv, WritesAreWhole, Writing, InPc
<1>7. SavedInv
  BY <1>2, <1>3, OffStates DEF FilesInit, SavedInv, Loaded, Writing, InPc
<1>8. KeptInv
  BY DEF FilesInit, KeptInv
<1>9. SomewhereInv
  BY <1>1, <1>2, <1>3, OffStates, ContentsFacts DEF SomewhereInv, Writing, InPc
<1> QED
  BY <1>4, <1>5, <1>6, <1>7, <1>8, <1>9

\* Nothing happens to the files where nothing happens.
LEMMA FilesStutter ==
  ASSUME UNCHANGED filesVars
  PROVE  /\ FilesTypeOK => FilesTypeOK'
         /\ TokenInv => TokenInv'
         /\ WholeInv => WholeInv'
         /\ SavedInv => SavedInv'
         /\ KeptInv => KeptInv'
         /\ SomewhereInv => SomewhereInv'
<1>1. OnDisk' = OnDisk
  BY DEF filesVars, OnDisk
<1>2. \A i \in Instances : Writing(i)' = Writing(i) /\ Loaded(i)' = Loaded(i)
  BY DEF filesVars, Writing, Loaded, InPc
<1>3. FilesTypeOK => FilesTypeOK'
  BY DEF filesVars, FilesTypeOK
<1>4. TokenInv => TokenInv'
  BY DEF filesVars, TokenInv, HeadIn
<1>5. WholeInv => WholeInv'
  BY <1>1 DEF filesVars, WholeInv, WritesAreWhole, Writing, InPc
<1>6. SavedInv => SavedInv'
  BY <1>1 DEF filesVars, SavedInv, Loaded, Writing, InPc
<1>7. KeptInv => KeptInv'
  BY <1>1 DEF filesVars, KeptInv, Loaded, Writing, InPc
<1>8. SomewhereInv => SomewhereInv'
  BY <1>1 DEF filesVars, SomewhereInv, Writing, InPc
<1> QED
  BY <1>3, <1>4, <1>5, <1>6, <1>7, <1>8

\* The files keep their types, and what write_atomic renames is whole and on disk.
THEOREM FilesTypeCorrect == FilesSpec => [](FilesTypeOK /\ WholeInv)
<1>1. ASSUME FilesTypeOK, WholeInv, [FilesNext]_filesVars PROVE FilesTypeOK' /\ WholeInv'
  <2>1. ASSUME FilesNext PROVE FilesTypeOK'
    BY <1>1, <2>1, AppTypes, HeadTypes DEF FilesNext, AppNext
  <2> QED
    BY <1>1, <2>1, WholeStep, FilesStutter
<1> QED
  BY <1>1, FilesStart, PTL DEF FilesSpec

\* write_atomic: whatever is cut, killed or run at the same time, neither
\* state.toml nor config.toml is ever a part of what was written.
THEOREM FilesStayWhole == FilesSpec => []WritesAreWhole
<1>1. WholeInv => WritesAreWhole
  BY DEF WholeInv
<1> QED
  BY <1>1, FilesTypeCorrect, PTL

\* read_or_create: however many starts of --serve race for the token's file, and
\* wherever they are killed, all that serve serve the one token that is in it.
THEOREM EverybodyServesOneToken == FilesSpec => []OneToken
<1>1. ASSUME FilesTypeOK, TokenInv, [FilesNext]_filesVars PROVE TokenInv'
  BY <1>1, TokenStep, FilesStutter
<1>2. TokenInv => OneToken
  BY DEF TokenInv, OneToken, HeadIn
<1> QED
  BY <1>1, <1>2, FilesStart, FilesTypeCorrect, PTL DEF FilesSpec

\* persist_state and the saves of the configuration: what one multitop at a time
\* reported saved is there after any kills, power cuts, failed writes and
\* restarts, where the files that are there can be read.
THEOREM SavedStaysThere ==
  ASSUME ~ReadErrors
  PROVE  FilesSpec => []SavedIsThere
<1>1. ASSUME FilesTypeOK, WholeInv, SavedInv, [FilesNext]_filesVars PROVE SavedInv'
  BY <1>1, SavedStep, FilesStutter
<1>2. SavedInv => SavedIsThere
  BY DEF SavedInv, SavedIsThere
<1> QED
  BY <1>1, <1>2, FilesStart, FilesTypeCorrect, PTL DEF FilesSpec

\* load_state: a state.toml that does not parse is there, or beside it under its
\* other name, until a start could not move it aside and said that it will be
\* overwritten; one multitop at a time, and where the files that are there can be
\* read.
THEOREM SpoiltStaysThere ==
  ASSUME ~ReadErrors
  PROVE  FilesSpec => []SpoiltIsKept
<1>1. ASSUME FilesTypeOK, WholeInv, SavedInv, KeptInv, [FilesNext]_filesVars
      PROVE  SavedInv' /\ KeptInv'
  BY <1>1, SavedStep, KeptStep, FilesStutter
<1>2. KeptInv => SpoiltIsKept
  BY DEF KeptInv, SpoiltIsKept
<1> QED
  BY <1>1, <1>2, FilesStart, FilesTypeCorrect, PTL DEF FilesSpec

\* port_plaintext_passwords: a password found in config.toml that the credential
\* store did not refuse is in the file or in the store, wherever the port is cut
\* off and however many multitops port it, where the files that are there can be
\* read.
THEOREM PasswordsAreSomewhere ==
  ASSUME ~ReadErrors
  PROVE  FilesSpec => []PasswordIsSomewhere
<1>1. ASSUME FilesTypeOK, WholeInv, SomewhereInv, [FilesNext]_filesVars PROVE SomewhereInv'
  BY <1>1, SomewhereStep, FilesStutter
<1>2. SomewhereInv => PasswordIsSomewhere
  BY DEF SomewhereInv, PasswordIsSomewhere
<1> QED
  BY <1>1, <1>2, FilesStart, FilesTypeCorrect, PTL DEF FilesSpec
============================================================================
