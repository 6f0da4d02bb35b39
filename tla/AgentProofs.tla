---------------------------- MODULE AgentProofs -----------------------------
(***************************************************************************)
(* Proofs about the agent on a host, for any comers, builds and tokens and *)
(* for any agent that may be found there: what AgentInstall leaves on the  *)
(* host, and what HostLink reads, shows and does when it ends.             *)
(***************************************************************************)
EXTENDS AgentInstall, HostLink, FiniteSetTheorems, TLAPS

---------------------------------------------------------------------------
\* The install of an agent.
Pcs == {"idle", "test", "exec", "open", "cat", "size", "chmod", "mv", "rm", "list",
        "refused", "lost", "killed", "replaced", "unstarted", "broken", "framed"}
Kept == [halves : SUBSET {1, 2}, len : 0..2, x : BOOLEAN]
Walks == [pc : Pcs, attempt : {0, 1}, fd : Comers \cup {NoFile}, at : 0..2]

\* The values of the install's variables.
InstallTypeOK ==
  /\ installed \in [Builds -> Comers \cup {NoFile}]
  /\ staging \in [Names -> Comers \cup {NoFile}]
  /\ files \in [Comers -> Kept]
  /\ comer \in [Comers -> Walks]
  /\ cut \subseteq Comers /\ shared \in BOOLEAN /\ swept \subseteq Comers

\* A comer that has not opened its staging file yet.
Fresh(c) == ComerAt(c, {"idle", "test", "open"}) /\ comer[c].attempt = 0

\* The file that one makes is nowhere before.
FreshInv ==
  \A c \in Comers : Fresh(c) =>
    /\ \A n \in Names : staging[n] # c
    /\ \A b \in Builds : installed[b] # c
    /\ \A d \in Comers : comer[d].fd # c

\* Only a running cat has a file open, and the halves are written in order.
WriteInv ==
  /\ \A c \in Comers : ~ComerAt(c, {"cat"}) => comer[c].fd = NoFile
  /\ \A f \in Comers : files[f].halves = 1..files[f].len
  /\ \A c \in Comers : ComerAt(c, {"cat"}) =>
       comer[c].fd \in Comers /\ files[comer[c].fd].len = comer[c].at

\* No two uploads have one staging name, no two names one file, and what is
\* open is at its writer's name or nowhere.
NameInv ==
  /\ \A c, d \in Comers : Uploading(c) /\ Uploading(d) /\ Name(c) = Name(d) => c = d
  /\ \A n, m \in Names : staging[n] # NoFile /\ staging[n] = staging[m] => n = m
  /\ \A n \in Names, b \in Builds : staging[n] # NoFile => staging[n] # installed[b]
  /\ \A c \in Comers, n \in Names :
       comer[c].fd # NoFile /\ comer[c].fd = staging[n] => n = Name(c)
  /\ \A c, d \in Comers : comer[c].fd # NoFile /\ comer[c].fd = comer[d].fd => c = d
  /\ \A c \in Comers, b \in Builds : comer[c].fd # NoFile => comer[c].fd # installed[b]

Measured(c) == staging[Name(c)] # NoFile => files[staging[Name(c)]].len = 2

\* What the upload's command has found out still holds when it acts on it.
StepInv ==
  /\ \A c \in Comers : ComerAt(c, {"chmod"}) => Measured(c)
  /\ \A c \in Comers : ComerAt(c, {"mv"}) =>
       Measured(c) /\ (staging[Name(c)] # NoFile => files[staging[Name(c)]].x)
  /\ \A b \in Builds : installed[b] # NoFile =>
       files[installed[b]].len = 2 /\ files[installed[b]].x

\* Why an upload that nobody cut has no file of its full length: it was swept.
\* And why one is refused.
WhyInv ==
  \A c \in Comers : c \notin swept =>
    /\ ComerAt(c, {"cat"}) => staging[Name(c)] = comer[c].fd
    /\ c \notin cut => /\ ComerAt(c, {"size", "chmod", "mv"}) =>
                            staging[Name(c)] # NoFile /\ files[staging[Name(c)]].len = 2
                       /\ ~ComerAt(c, {"rm"})
    /\ ~ComerAt(c, {"refused"})

\* One that has swept, of another build.
Sweeper(c) ==
  \E d \in Comers : /\ Build[d] # Build[c] /\ comer[d].attempt = 1
                    /\ ComerAt(d, {"test", "exec", "framed", "replaced", "broken", "unstarted"})

\* The agent that one has seen or put there is there, or swept by another.
ThereInv ==
  \A c \in Comers :
    /\ ComerAt(c, {"exec", "list"}) \/ (comer[c].attempt = 1 /\ ComerAt(c, {"test"})) =>
         installed[Build[c]] # NoFile \/ Sweeper(c)
    /\ ComerAt(c, {"broken", "unstarted"}) => Sweeper(c)
    /\ comer[c].attempt = 1 =>
         ComerAt(c, {"test", "exec", "framed", "replaced", "broken", "unstarted"})

\* What holds as long as no two uploads had one staging name.
OwnInv == FreshInv /\ WriteInv /\ NameInv /\ StepInv /\ WhyInv /\ ThereInv
InstallInv == InstallTypeOK /\ (~shared => OwnInv) /\ NoDebris

\* A comer that is somewhere else, with its file, is one; and so is a file.
LEMMA WalkTypes ==
  ASSUME comer \in [Comers -> Walks], NEW c \in Comers, NEW pc \in Pcs,
         NEW fd \in Comers \cup {NoFile}, NEW at \in 0..2
  PROVE  /\ [comer EXCEPT ![c].pc = pc] \in [Comers -> Walks]
         /\ [comer EXCEPT ![c].at = at] \in [Comers -> Walks]
         /\ [comer EXCEPT ![c].pc = pc, ![c].attempt = 1] \in [Comers -> Walks]
         /\ [comer EXCEPT ![c].pc = pc, ![c].fd = fd] \in [Comers -> Walks]
         /\ [comer EXCEPT ![c].pc = pc, ![c].fd = fd, ![c].at = at] \in [Comers -> Walks]
<1>1. [comer EXCEPT ![c].pc = pc] \in [Comers -> Walks]
  BY DEF Walks
<1>2. [comer EXCEPT ![c].at = at] \in [Comers -> Walks]
  BY DEF Walks
<1>3. [comer EXCEPT ![c].pc = pc, ![c].attempt = 1] \in [Comers -> Walks]
  BY DEF Walks
<1>4. [comer EXCEPT ![c].pc = pc, ![c].fd = fd] \in [Comers -> Walks]
  BY ZenonT(60) DEF Walks
<1>5. [comer EXCEPT ![c].pc = pc, ![c].fd = fd, ![c].at = at] \in [Comers -> Walks]
  BY ZenonT(60) DEF Walks
<1> QED
  BY <1>1, <1>2, <1>3, <1>4, <1>5

\* So is what is kept of a file.
LEMMA KeptTypes ==
  ASSUME files \in [Comers -> Kept], NEW f \in Comers, NEW h \in SUBSET {1, 2}, NEW l \in 0..2
  PROVE  /\ [files EXCEPT ![f].halves = h, ![f].len = l] \in [Comers -> Kept]
         /\ [files EXCEPT ![f].x = TRUE] \in [Comers -> Kept]
<1>1. [files EXCEPT ![f].halves = h, ![f].len = l] \in [Comers -> Kept]
  <2> DEFINE k == [files[f] EXCEPT !.halves = h, !.len = l]
  <2>1. k \in Kept
    <3>1. ASSUME NEW r \in Kept PROVE [r EXCEPT !.halves = h, !.len = l] \in Kept
      <4>1. [r EXCEPT !.halves = h] \in Kept
        BY DEF Kept
      <4>2. ASSUME NEW q \in Kept PROVE [q EXCEPT !.len = l] \in Kept
        BY DEF Kept
      <4>3. [[r EXCEPT !.halves = h] EXCEPT !.len = l] \in Kept
        BY <4>1, <4>2
      <4> QED
        BY <4>3
    <3>2. files[f] \in Kept
      OBVIOUS
    <3> QED
      BY <3>1, <3>2
  <2>2. [files EXCEPT ![f].halves = h, ![f].len = l] = [files EXCEPT ![f] = k]
    OBVIOUS
  <2> HIDE DEF k
  <2> QED
    BY <2>1, <2>2
<1>2. [files EXCEPT ![f].x = TRUE] \in [Comers -> Kept]
  BY ZenonT(40) DEF Kept
<1> QED
  BY <1>1, <1>2

\* The variables keep their types.
LEMMA InstallTypes ==
  ASSUME InstallTypeOK, InstallNext
  PROVE  InstallTypeOK'
<1>1. PICK c \in Comers :
        \/ Come(c) \/ Bootstrap(c) \/ Exec(c) \/ OpenStaging(c) \/ Cat(c) \/ CheckSize(c)
        \/ Chmod(c) \/ MoveInto(c) \/ RemoveStaging(c) \/ Sweep(c) \/ CutUpload(c) \/ KillCommand(c)
  BY DEF InstallNext
<1>2. Name(c) \in Names /\ Build[c] \in Builds /\ comer[c] \in Walks /\ NoFile \notin Comers
  BY InstallAssumption DEF Names, Builds, InstallTypeOK
<1>t. /\ installed \in [Builds -> Comers \cup {NoFile}] /\ staging \in [Names -> Comers \cup {NoFile}]
      /\ files \in [Comers -> Kept] /\ comer \in [Comers -> Walks]
      /\ cut \subseteq Comers /\ shared \in BOOLEAN /\ swept \subseteq Comers
  BY DEF InstallTypeOK
<1>p. ASSUME NEW pc \in Pcs PROVE [comer EXCEPT ![c].pc = pc] \in [Comers -> Walks]
  <2>1. NoFile \in Comers \cup {NoFile} /\ 0 \in 0..2
    OBVIOUS
  <2> QED
    <3>1. NoFile \in Comers \cup {NoFile} /\ 0 \in 0..2
      OBVIOUS
    <3> QED
      BY <1>t, <2>1, <3>1, WalkTypes
<1>3. CASE Come(c) \/ Bootstrap(c) \/ Exec(c) \/ CheckSize(c)
  <2>1. PICK pc \in Pcs : comer' = [comer EXCEPT ![c].pc = pc]
    BY <1>3 DEF Come, Bootstrap, Exec, CheckSize, ComerGoto, Pcs
  <2>2. UNCHANGED <<installed, staging, files, cut, shared, swept>>
    BY <1>3 DEF Come, Bootstrap, Exec, CheckSize
  <2> QED
    BY <1>t, <1>p, <2>1, <2>2 DEF InstallTypeOK
<1>4. CASE OpenStaging(c)
  <2> DEFINE f == IF staging[Name(c)] = NoFile THEN c ELSE staging[Name(c)]
  <2>1. f \in Comers
    BY <1>2, <1>t
  <2>2. /\ staging' = [staging EXCEPT ![Name(c)] = f]
        /\ files' = [files EXCEPT ![f].halves = {}, ![f].len = 0]
        /\ comer' = [comer EXCEPT ![c].pc = "cat", ![c].fd = f, ![c].at = 0]
        /\ UNCHANGED <<installed, cut, swept>>
    BY <1>4 DEF OpenStaging
  <2>3. shared' \in BOOLEAN
    BY <1>4 DEF OpenStaging
  <2> HIDE DEF f
  <2>4. files' \in [Comers -> Kept]
    <3>1. {} \in SUBSET {1, 2} /\ 0 \in 0..2
      OBVIOUS
    <3> QED
      BY <1>t, <2>1, <2>2, <3>1, KeptTypes
  <2>5. comer' \in [Comers -> Walks]
    <3>1. "cat" \in Pcs /\ f \in Comers \cup {NoFile} /\ 0 \in 0..2
      BY <2>1 DEF Pcs
    <3> QED
      BY <1>t, <2>2, <3>1, WalkTypes
  <2> QED
    BY <1>t, <2>1, <2>2, <2>3, <2>4, <2>5 DEF InstallTypeOK
<1>5. CASE Cat(c)
  <2>1. ASSUME comer[c].at < 2,
               comer' = [comer EXCEPT ![c].at = @ + 1],
               files' = [files EXCEPT ![comer[c].fd].halves = @ \cup {comer[c].at + 1},
                                      ![comer[c].fd].len = Longer(@, comer[c].at + 1)]
        PROVE  comer' \in [Comers -> Walks] /\ files' \in [Comers -> Kept]
    <3> DEFINE f == comer[c].fd
               half == comer[c].at + 1
    <3>1. half \in {1, 2} /\ half \in 0..2
      BY <1>2, <2>1 DEF Walks
    <3>2. comer' \in [Comers -> Walks]
      <4>1. comer' = [comer EXCEPT ![c].at = half]
        BY <2>1
      <4>2. NoFile \in Comers \cup {NoFile} /\ "cat" \in Pcs
        BY DEF Pcs
      <4> HIDE DEF half
      <4> QED
        BY <1>t, <3>1, <4>1, <4>2, WalkTypes
    <3>3. CASE f \in Comers
      <4>1. files[f] \in Kept /\ files[f].halves \in SUBSET {1, 2} /\ files[f].len \in 0..2
        BY <1>t, <3>3 DEF Kept
      <4>2. files[f].halves \cup {half} \in SUBSET {1, 2} /\ Longer(files[f].len, half) \in 0..2
        BY <3>1, <4>1 DEF Longer
      <4>3. files' = [files EXCEPT ![f].halves = files[f].halves \cup {half},
                                   ![f].len = Longer(files[f].len, half)]
        BY <2>1
      <4> HIDE DEF f, half
      <4>4. files' \in [Comers -> Kept]
        BY <1>t, <3>3, <4>2, <4>3, KeptTypes
      <4> QED
        BY <3>2, <4>4
    <3>4. CASE f \notin Comers
      BY <1>t, <2>1, <3>2, <3>4
    <3> QED
      BY <3>3, <3>4
  <2>2. ASSUME comer' = [comer EXCEPT ![c].pc = "size", ![c].fd = NoFile], UNCHANGED files
        PROVE  comer' \in [Comers -> Walks] /\ files' \in [Comers -> Kept]
    <3>1. "size" \in Pcs /\ NoFile \in Comers \cup {NoFile} /\ 0 \in 0..2
      BY DEF Pcs
    <3> QED
      BY <1>t, <2>2, <3>1, WalkTypes
  <2>3. UNCHANGED <<installed, staging, cut, shared, swept>>
    BY <1>5 DEF Cat
  <2>4. \/ /\ comer[c].at < 2 /\ comer' = [comer EXCEPT ![c].at = @ + 1]
           /\ files' = [files EXCEPT ![comer[c].fd].halves = @ \cup {comer[c].at + 1},
                                     ![comer[c].fd].len = Longer(@, comer[c].at + 1)]
        \/ comer' = [comer EXCEPT ![c].pc = "size", ![c].fd = NoFile] /\ UNCHANGED files
    BY <1>5 DEF Cat
  <2> QED
    BY <1>t, <2>1, <2>2, <2>3, <2>4 DEF InstallTypeOK
<1>6. CASE Chmod(c)
  <2>1. PICK pc \in Pcs : comer' = [comer EXCEPT ![c].pc = pc]
    BY <1>6 DEF Chmod, ComerGoto, Pcs
  <2>2. files' = files \/ \E f \in Comers : files' = [files EXCEPT ![f].x = TRUE]
    BY <1>t, <1>2, <1>6 DEF Chmod
  <2>3. files' \in [Comers -> Kept]
    <3>1. {} \in SUBSET {1, 2} /\ 0 \in 0..2
      OBVIOUS
    <3> QED
      BY ZenonT(40), <1>t, <2>2, <3>1, KeptTypes
  <2>4. UNCHANGED <<installed, staging, cut, shared, swept>>
    BY <1>6 DEF Chmod
  <2> QED
    BY <1>t, <1>p, <2>1, <2>3, <2>4 DEF InstallTypeOK
<1>7. CASE MoveInto(c)
  <2>1. PICK pc \in Pcs : comer' = [comer EXCEPT ![c].pc = pc]
    BY <1>7 DEF MoveInto, ComerGoto, UploadEnds, Pcs
  <2>2. /\ installed' \in [Builds -> Comers \cup {NoFile}] /\ staging' \in [Names -> Comers \cup {NoFile}]
        /\ UNCHANGED <<files, cut, shared, swept>>
    BY <1>t, <1>2, <1>7 DEF MoveInto
  <2> QED
    BY <1>t, <1>p, <2>1, <2>2 DEF InstallTypeOK
<1>8. CASE RemoveStaging(c)
  <2>1. PICK pc \in Pcs : comer' = [comer EXCEPT ![c].pc = pc]
    BY <1>8 DEF RemoveStaging, UploadEnds, Pcs
  <2>2. staging' \in [Names -> Comers \cup {NoFile}] /\ UNCHANGED <<installed, files, cut, shared, swept>>
    BY <1>t, <1>2, <1>8 DEF RemoveStaging
  <2> QED
    BY <1>t, <1>p, <2>1, <2>2 DEF InstallTypeOK
<1>9. CASE Sweep(c)
  <2>1. PICK pc \in Pcs : comer' = [comer EXCEPT ![c].pc = pc, ![c].attempt = 1]
    BY <1>9 DEF Sweep, Pcs
  <2>2. comer' \in [Comers -> Walks]
    <3>1. NoFile \in Comers \cup {NoFile} /\ 0 \in 0..2
      OBVIOUS
    <3> QED
      BY <1>t, <2>1, <3>1, WalkTypes
  <2>3. /\ installed' \in [Builds -> Comers \cup {NoFile}] /\ staging' \in [Names -> Comers \cup {NoFile}]
        /\ swept' \subseteq Comers /\ UNCHANGED <<files, cut, shared>>
    BY <1>t, <1>9 DEF Sweep
  <2> QED
    BY <1>t, <2>2, <2>3 DEF InstallTypeOK
<1>10. CASE CutUpload(c)
  BY <1>t, <1>10 DEF CutUpload, InstallTypeOK
<1>11. CASE KillCommand(c)
  <2>1. comer' = [comer EXCEPT ![c].pc = "killed", ![c].fd = NoFile]
    BY <1>11 DEF KillCommand
  <2>2. comer' \in [Comers -> Walks]
    <3>1. "killed" \in Pcs /\ NoFile \in Comers \cup {NoFile} /\ 0 \in 0..2
      BY DEF Pcs
    <3> QED
      BY <1>t, <2>1, <3>1, WalkTypes
  <2> QED
    BY <1>t, <1>11, <2>2 DEF KillCommand, InstallTypeOK
<1> QED
  BY <1>1, <1>3, <1>4, <1>5, <1>6, <1>7, <1>8, <1>9, <1>10, <1>11

\* A staging file is left behind by a killed command only.
LEMMA DebrisStep ==
  ASSUME InstallTypeOK, NoDebris, InstallNext
  PROVE  NoDebris'
<1> DEFINE Left(n, c) == Name(c) = n /\ (Uploading(c) \/ ComerAt(c, {"killed"}) \/ shared)
<1>1. PICK c \in Comers :
        \/ Come(c) \/ Bootstrap(c) \/ Exec(c) \/ OpenStaging(c) \/ Cat(c) \/ CheckSize(c)
        \/ Chmod(c) \/ MoveInto(c) \/ RemoveStaging(c) \/ Sweep(c) \/ CutUpload(c) \/ KillCommand(c)
  BY DEF InstallNext
<1>2. /\ staging \in [Names -> Comers \cup {NoFile}] /\ comer \in [Comers -> Walks] /\ Name(c) \in Names
  BY DEF InstallTypeOK, Names
<1>3. ASSUME NEW n \in Names, staging'[n] # NoFile
      PROVE  \E e \in Comers : Left(n, e)'
  <2>1. CASE n = Name(c) /\ OpenStaging(c)
    <3>1. comer'[c].pc = "cat"
      BY <1>2, <2>1 DEF OpenStaging
    <3> QED
      BY <2>1, <3>1 DEF Name, Uploading, ComerAt
  <2>2. CASE n = Name(c) /\ (MoveInto(c) \/ RemoveStaging(c))
    <3>1. MoveInto(c) /\ staging'[n] = staging[n] /\ staging[n] = NoFile
      BY <1>2, <1>3, <2>2 DEF MoveInto, RemoveStaging
    <3> QED
      BY <1>3, <3>1
  <2>3. CASE ~(n = Name(c) /\ (OpenStaging(c) \/ MoveInto(c) \/ RemoveStaging(c)))
    <3>1. staging'[n] = staging[n]
      BY ZenonT(40), <1>1, <1>2, <1>3, <2>3
         DEF Come, Bootstrap, Exec, OpenStaging, Cat, CheckSize, Chmod, MoveInto, RemoveStaging,
             Sweep, CutUpload, KillCommand
    <3>2. PICK e \in Comers : Left(n, e)
      BY <1>3, <3>1 DEF NoDebris
    <3>3. shared => shared'
      BY <1>1 DEF Come, Bootstrap, Exec, OpenStaging, Cat, CheckSize, Chmod, MoveInto,
                  RemoveStaging, Sweep, CutUpload, KillCommand
    <3>4. CASE shared \/ e # c
      <4>1. e # c => comer'[e] = comer[e]
        BY <1>1, <1>2
           DEF Come, Bootstrap, Exec, OpenStaging, Cat, CheckSize, Chmod, MoveInto, RemoveStaging,
               Sweep, CutUpload, KillCommand, ComerGoto, UploadEnds
      <4> QED
        BY <3>2, <3>3, <3>4, <4>1 DEF Name, Uploading, ComerAt
    <3>5. CASE e = c /\ ~shared
      <4>1. ~ComerAt(c, {"idle", "test", "exec", "open", "list"})
        BY <3>2, <3>5 DEF Uploading, ComerAt
      <4>2. ~(MoveInto(c) \/ RemoveStaging(c))
        BY <2>3, <3>2, <3>5
      <4>3. Cat(c) \/ CheckSize(c) \/ Chmod(c) \/ CutUpload(c) \/ KillCommand(c)
        BY <1>1, <4>1, <4>2 DEF Come, Bootstrap, Exec, OpenStaging, Sweep, ComerAt
      <4>4. comer'[c].pc \in {"cat", "size", "chmod", "mv", "rm", "killed"}
        BY <1>2, <3>2, <3>5, <4>3
           DEF Cat, CheckSize, Chmod, CutUpload, KillCommand, ComerGoto, Uploading, ComerAt, Walks
      <4> QED
        BY <3>2, <3>5, <4>4 DEF Name, Uploading, ComerAt
    <3> QED
      BY <3>4, <3>5
  <2> QED
    BY <2>1, <2>2, <2>3
<1> QED
  BY <1>3 DEF NoDebris, Names, Name

\* A file of full length is whole; so what is installed is a whole agent, and
\* nobody writes to it.
LEMMA WholeAgents ==
  ASSUME InstallTypeOK, OwnInv
  PROVE  /\ \A f \in Comers : files[f].len = 2 => WholeBuild(f)
         /\ \A b \in Builds : installed[b] # NoFile =>
              /\ WholeBuild(installed[b]) /\ files[installed[b]].x
              /\ \A d \in Comers : comer[d].fd # installed[b]
<1>1. \A f \in Comers : files[f].len = 2 => WholeBuild(f)
  <2>1. 1..2 = {1, 2}
    OBVIOUS
  <2> QED
    BY <2>1 DEF OwnInv, WriteInv, WholeBuild
<1>2. \A b \in Builds : installed[b] # NoFile => installed[b] \in Comers /\ files[installed[b]].len = 2
                                             /\ files[installed[b]].x
  BY DEF InstallTypeOK, OwnInv, StepInv
<1>3. \A b \in Builds, d \in Comers : installed[b] # NoFile => comer[d].fd # installed[b]
  BY DEF OwnInv, NameInv
<1> QED
  BY <1>1, <1>2, <1>3

\* What a comer is that went on to another place: the others are where they were.
Walked(c, pc) ==
  /\ comer'[c].pc = pc /\ comer'[c].attempt = comer[c].attempt
  /\ comer'[c].fd = comer[c].fd /\ comer'[c].at = comer[c].at
  /\ \A d \in Comers : d # c => comer'[d] = comer[d]

\* That is what ComerGoto does.
LEMMA GotoWalks ==
  ASSUME InstallTypeOK, NEW c \in Comers, NEW pc, ComerGoto(c, pc)
  PROVE  Walked(c, pc)
<1>1. comer \in [Comers -> Walks] /\ comer[c] \in Walks
  BY DEF InstallTypeOK
<1>2. /\ comer'[c] = [comer[c] EXCEPT !.pc = pc]
      /\ \A d \in Comers : d # c => comer'[d] = comer[d]
  BY <1>1 DEF ComerGoto
<1> QED
  BY <1>1, <1>2 DEF Walked, Walks

\* A step in the script, out of it, or on in the upload's command without
\* touching a file.
LEMMA ScriptStep ==
  ASSUME InstallTypeOK, OwnInv, NEW c \in Comers,
         Come(c) \/ Bootstrap(c) \/ Exec(c) \/ CheckSize(c)
  PROVE  OwnInv'
<1>0. /\ Name(c) \in Names /\ Build[c] \in Builds /\ comer[c].attempt \in {0, 1}
      /\ staging \in [Names -> Comers \cup {NoFile}] /\ installed \in [Builds -> Comers \cup {NoFile}]
      /\ NoFile \notin Comers
  BY InstallAssumption DEF InstallTypeOK, Names, Builds, Walks
<1>2. UNCHANGED <<installed, staging, files, cut, shared, swept>>
  BY DEF Come, Bootstrap, Exec, CheckSize
<1>3. PICK pc : /\ ComerGoto(c, pc)
                /\ \/ comer[c].pc = "idle" /\ pc \in {"test", "open"}
                   \/ comer[c].pc = "test" /\ pc = "exec" /\ installed[Build[c]] # NoFile
                   \/ comer[c].pc = "test" /\ pc = "open" /\ comer[c].attempt = 0
                   \/ /\ comer[c].pc = "test" /\ pc = "unstarted" /\ comer[c].attempt # 0
                      /\ ~(installed[Build[c]] # NoFile /\ files[installed[Build[c]]].x)
                   \/ comer[c].pc = "exec" /\ pc = "framed"
                   \/ /\ comer[c].pc = "exec" /\ pc = "broken"
                      /\ LET f == installed[Build[c]]
                         IN f = NoFile \/ ~WholeBuild(f) \/ \E d \in Comers : comer[d].fd = f
                   \/ comer[c].pc = "size" /\ pc = "chmod" /\ Fits(c)
                   \/ comer[c].pc = "size" /\ pc = "rm" /\ ~Fits(c)
  <2>1. CASE Come(c)
    BY <2>1 DEF Come, ComerAt
  <2>2. CASE Bootstrap(c)
    BY <2>2 DEF Bootstrap, ComerAt
  <2>3. CASE Exec(c)
    BY <2>3 DEF Exec, ComerAt
  <2>4. CASE CheckSize(c)
    BY <2>4 DEF CheckSize, ComerAt
  <2> QED
    BY <2>1, <2>2, <2>3, <2>4
<1>4. Walked(c, pc)
  BY <1>3, GotoWalks
<1>m. \/ comer[c].pc = "idle" /\ pc \in {"test", "open"}
      \/ comer[c].pc = "test" /\ pc \in {"exec", "unstarted"}
      \/ comer[c].pc = "test" /\ pc = "open" /\ comer[c].attempt = 0
      \/ comer[c].pc = "exec" /\ pc \in {"framed", "broken"}
      \/ comer[c].pc = "size" /\ pc \in {"chmod", "rm"}
  BY <1>3
<1>5. FreshInv'
  BY <1>2, <1>3, <1>4 DEF OwnInv, FreshInv, Fresh, ComerAt, Walked
<1>6. WriteInv'
  BY <1>2, <1>3, <1>4 DEF OwnInv, WriteInv, ComerAt, Walked
<1>7. NameInv'
  <2>1. \A d \in Comers : comer'[d].fd = comer[d].fd /\ (Uploading(d)' <=> Uploading(d))
    BY <1>3, <1>4 DEF Walked, Uploading, ComerAt
  <2> QED
    BY <1>2, <2>1 DEF OwnInv, NameInv, Name
<1>8. StepInv'
  BY <1>2, <1>3, <1>4 DEF OwnInv, StepInv, Measured, ComerAt, Name, Fits, Walked
<1>9. WhyInv'
  BY <1>2, <1>3, <1>4 DEF OwnInv, WhyInv, ComerAt, Name, Fits, Walked
<1>10. ThereInv'
  <2>1. installed[Build[c]] # NoFile =>
          /\ WholeBuild(installed[Build[c]]) /\ files[installed[Build[c]]].x
          /\ \A d \in Comers : comer[d].fd # installed[Build[c]]
    BY <1>0, WholeAgents
  <2>0. comer[c].attempt = 1 =>
          comer[c].pc \in {"test", "exec", "framed", "replaced", "broken", "unstarted"}
    BY DEF OwnInv, ThereInv, ComerAt
  <2>3. pc \in {"broken", "unstarted"} => installed[Build[c]] = NoFile
    BY <1>3, <2>1
  <2>4. comer[c].attempt = 1 => pc \in {"test", "exec", "framed", "broken", "unstarted"}
    <3>1. CASE comer[c].pc = "test"
      BY <1>m, <3>1
    <3>2. CASE comer[c].pc # "test" /\ comer[c].attempt = 1
      <4>1. comer[c].pc \notin {"idle", "size"}
        BY <2>0, <3>2
      <4> QED
        BY <1>m, <3>2, <4>1
    <3> QED
      BY <3>1, <3>2
  <2>2. ASSUME NEW d \in Comers, Sweeper(d) PROVE Sweeper(d)'
    <3>1. PICK e \in Comers :
            /\ Build[e] # Build[d] /\ comer[e].attempt = 1
            /\ ComerAt(e, {"test", "exec", "framed", "replaced", "broken", "unstarted"})
      BY <2>2 DEF Sweeper
    <3>2. comer'[e].attempt = 1
          /\ comer'[e].pc \in {"test", "exec", "framed", "replaced", "broken", "unstarted"}
      <4>1. CASE e # c
        BY <1>4, <3>1, <4>1 DEF Walked, ComerAt
      <4>2. CASE e = c
        BY <1>4, <2>4, <3>1, <4>2 DEF Walked, ComerAt
      <4> QED
        BY <4>1, <4>2
    <3> QED
      BY <3>1, <3>2 DEF Sweeper, ComerAt
  <2>5. comer[c].pc \in {"test", "exec"} /\ (comer[c].pc = "test" => comer[c].attempt = 1) =>
          installed[Build[c]] # NoFile \/ Sweeper(c)
    BY DEF OwnInv, ThereInv, ComerAt
  <2>6. ASSUME NEW d \in Comers, d # c
        PROVE  /\ comer'[d] = comer[d] /\ installed' = installed /\ (Sweeper(d) => Sweeper(d)')
    BY <1>2, <1>4, <2>2, <2>6 DEF Walked
  <2>7. ASSUME NEW d \in Comers
        PROVE  /\ ComerAt(d, {"exec", "list"})' \/ (comer[d].attempt = 1 /\ ComerAt(d, {"test"}))' =>
                    installed'[Build[d]] # NoFile \/ Sweeper(d)'
               /\ ComerAt(d, {"broken", "unstarted"})' => Sweeper(d)'
               /\ (comer[d].attempt = 1)' =>
                    ComerAt(d, {"test", "exec", "framed", "replaced", "broken", "unstarted"})'
    <3>1. CASE d # c
      BY <2>6, <3>1 DEF OwnInv, ThereInv, ComerAt
    <3>2. CASE d = c
      <4>1. comer'[c].pc = pc /\ comer'[c].attempt = comer[c].attempt /\ installed' = installed
        BY <1>2, <1>4 DEF Walked
      <4>2. pc \in {"broken", "unstarted"} => Sweeper(c)
        BY <1>0, <1>3, <2>3, <2>5
      <4>3. pc = "exec" => installed[Build[c]] # NoFile
        BY <1>3
      <4>4. (pc # "list" /\ pc # "test") \/ comer[c].attempt = 0
        BY <1>0, <1>m, <2>0
      <4>5. Sweeper(c) => Sweeper(c)'
        BY <2>2
      <4> QED
        <5>1. pc \notin {"list"}
          BY <1>m
        <5> QED
          BY <2>4, <3>2, <4>1, <4>2, <4>3, <4>4, <4>5, <5>1 DEF ComerAt
    <3> QED
      BY <3>1, <3>2
  <2> QED
    BY <2>7 DEF ThereInv
<1> QED
  BY <1>5, <1>6, <1>7, <1>8, <1>9, <1>10 DEF OwnInv

Commands == {"cat", "size", "chmod", "mv", "rm"}

\* One that uploads has not swept yet.
LEMMA UploadsFirst ==
  ASSUME InstallTypeOK, OwnInv, NEW c \in Comers, comer[c].pc \in Commands \cup {"open"}
  PROVE  comer[c].attempt = 0
<1>1. comer[c].attempt \in {0, 1}
  BY DEF InstallTypeOK, Walks
<1>2. comer[c].attempt # 1
  BY DEF OwnInv, ThereInv, ComerAt, Commands
<1> QED
  BY <1>1, <1>2

\* A step of an upload takes nobody's agent away.
LEMMA ThereKept ==
  ASSUME InstallTypeOK, OwnInv, NEW c \in Comers, comer[c].attempt = 0, comer'[c].attempt = 0,
         \A d \in Comers : d # c => comer'[d] = comer[d],
         \A b \in Builds : installed[b] # NoFile => installed'[b] # NoFile,
         \/ comer'[c].pc \in Commands \cup {"killed", "lost", "refused"}
         \/ comer'[c].pc = "list" /\ installed'[Build[c]] # NoFile
  PROVE  ThereInv'
<1>2. ASSUME NEW d \in Comers, Sweeper(d) PROVE Sweeper(d)'
  <2>1. PICK e \in Comers :
          /\ Build[e] # Build[d] /\ comer[e].attempt = 1
          /\ ComerAt(e, {"test", "exec", "framed", "replaced", "broken", "unstarted"})
    BY <1>2 DEF Sweeper
  <2>2. comer'[e] = comer[e]
    BY <2>1
  <2> QED
    BY <2>1, <2>2 DEF Sweeper, ComerAt
<1>3. ASSUME NEW d \in Comers
      PROVE  /\ ComerAt(d, {"exec", "list"})' \/ (comer[d].attempt = 1 /\ ComerAt(d, {"test"}))' =>
                  installed'[Build[d]] # NoFile \/ Sweeper(d)'
             /\ ComerAt(d, {"broken", "unstarted"})' => Sweeper(d)'
             /\ (comer[d].attempt = 1)' =>
                  ComerAt(d, {"test", "exec", "framed", "replaced", "broken", "unstarted"})'
  <2>1. Build[d] \in Builds
    BY DEF Builds
  <2>2. CASE d # c
    <3>1. comer'[d] = comer[d] /\ (Sweeper(d) => Sweeper(d)')
      BY <1>2, <2>2
    <3> QED
      BY <2>1, <3>1 DEF OwnInv, ThereInv, ComerAt
  <2>3. CASE d = c
    BY <2>3 DEF ComerAt, Commands
  <2> QED
    BY <2>2, <2>3
<1> QED
  BY <1>3 DEF ThereInv

\* The staging file is opened: by nobody else, as names are not shared.
LEMMA OpenStep ==
  ASSUME InstallTypeOK, OwnInv, NEW c \in Comers, OpenStaging(c), ~shared'
  PROVE  OwnInv'
<1> DEFINE f == IF staging[Name(c)] = NoFile THEN c ELSE staging[Name(c)]
<1>0. /\ Name(c) \in Names /\ Build[c] \in Builds /\ NoFile \notin Comers
      /\ staging \in [Names -> Comers \cup {NoFile}] /\ installed \in [Builds -> Comers \cup {NoFile}]
      /\ comer \in [Comers -> Walks] /\ files \in [Comers -> Kept] /\ comer[c] \in Walks
  BY InstallAssumption DEF InstallTypeOK, Names, Builds
<1>1. /\ comer[c].pc = "open" /\ comer[c].attempt = 0 /\ Fresh(c)
      /\ \A d \in Comers : d # c /\ Uploading(d) => Name(d) # Name(c)
  <2>1. comer[c].pc = "open"
    BY DEF OpenStaging, ComerAt
  <2>2. comer[c].attempt = 0
    BY <2>1, UploadsFirst
  <2> QED
    BY <2>1, <2>2 DEF OpenStaging, Fresh, ComerAt
<1>2. f \in Comers /\ f # NoFile
  BY <1>0
<1>3. /\ staging' = [staging EXCEPT ![Name(c)] = f]
      /\ UNCHANGED <<installed, cut, swept>>
  BY DEF OpenStaging
<1>4. /\ files'[f].halves = {} /\ files'[f].len = 0 /\ files'[f].x = files[f].x
      /\ \A g \in Comers : g # f => files'[g] = files[g]
  <2>1. files' = [files EXCEPT ![f].halves = {}, ![f].len = 0]
    BY DEF OpenStaging
  <2> HIDE DEF f
  <2> QED
    BY <1>0, <1>2, <2>1 DEF Kept
<1>5. /\ comer'[c].pc = "cat" /\ comer'[c].fd = f /\ comer'[c].at = 0 /\ comer'[c].attempt = 0
      /\ \A d \in Comers : d # c => comer'[d] = comer[d]
  <2>1. comer' = [comer EXCEPT ![c].pc = "cat", ![c].fd = f, ![c].at = 0]
    BY DEF OpenStaging
  <2> HIDE DEF f
  <2> QED
    BY <1>0, <1>1, <2>1 DEF Walks
<1>6. /\ \A n \in Names : n # Name(c) => staging'[n] = staging[n]
      /\ staging'[Name(c)] = f
  BY <1>0, <1>3
\* The file is nobody's: it is new, or was left by one that was killed.
<1>7. /\ \A n \in Names : n # Name(c) => staging[n] # f
      /\ \A b \in Builds : installed[b] # f
      /\ \A d \in Comers : comer[d].fd # f
      /\ \A d \in Comers : Fresh(d) => d = c \/ f # d
  <2>1. CASE staging[Name(c)] = NoFile
    BY <1>1, <2>1 DEF OwnInv, FreshInv
  <2>2. CASE staging[Name(c)] # NoFile
    <3>1. \A n \in Names : n # Name(c) => staging[n] # f
      BY <1>0, <2>2 DEF OwnInv, NameInv
    <3>2. \A b \in Builds : installed[b] # f
      BY <1>0, <2>2 DEF OwnInv, NameInv
    <3>3. ASSUME NEW d \in Comers PROVE comer[d].fd # f
      <4>1. SUFFICES ASSUME comer[d].fd = f PROVE FALSE
        OBVIOUS
      <4>2. Name(d) = Name(c) /\ comer[d].fd # NoFile
        BY <1>0, <2>2, <4>1 DEF OwnInv, NameInv
      <4>3. ComerAt(d, {"cat"})
        BY <4>2 DEF OwnInv, WriteInv
      <4> QED
        BY <1>1, <4>2, <4>3 DEF Uploading, ComerAt
    <3>4. \A d \in Comers : Fresh(d) => f # d
      BY <1>0, <2>2 DEF OwnInv, FreshInv
    <3> QED
      BY <3>1, <3>2, <3>3, <3>4
  <2> QED
    BY <2>1, <2>2
<1> HIDE DEF f
<1>8. FreshInv'
  BY <1>2, <1>3, <1>5, <1>6, <1>7 DEF OwnInv, FreshInv, Fresh, ComerAt
<1>9. WriteInv'
  <2>1. \A d \in Comers : ~ComerAt(d, {"cat"})' => comer'[d].fd = NoFile
    BY <1>5 DEF OwnInv, WriteInv, ComerAt
  <2>2. 1..0 = {}
    OBVIOUS
  <2>3. \A g \in Comers : files'[g].halves = 1..files'[g].len
    BY <1>4, <2>2 DEF OwnInv, WriteInv
  <2>4. \A d \in Comers : ComerAt(d, {"cat"})' =>
          comer'[d].fd \in Comers /\ files'[comer'[d].fd].len = comer'[d].at
    BY <1>2, <1>4, <1>5, <1>7 DEF OwnInv, WriteInv, ComerAt
  <2> QED
    BY <2>1, <2>3, <2>4 DEF WriteInv
<1>10. NameInv'
  <2>1. \A d \in Comers : d # c => (Uploading(d)' <=> Uploading(d)) /\ comer'[d].fd = comer[d].fd
    BY <1>5 DEF Uploading, ComerAt
  <2>2. \A d, e \in Comers : Uploading(d)' /\ Uploading(e)' /\ Name(d) = Name(e) => d = e
    BY <1>1, <2>1 DEF OwnInv, NameInv
  <2>3. \A n, m \in Names : staging'[n] # NoFile /\ staging'[n] = staging'[m] => n = m
    BY <1>6, <1>7 DEF OwnInv, NameInv
  <2>4. \A n \in Names, b \in Builds : staging'[n] # NoFile => staging'[n] # installed[b]
    BY <1>6, <1>7 DEF OwnInv, NameInv
  <2>5. \A d \in Comers, n \in Names :
          comer'[d].fd # NoFile /\ comer'[d].fd = staging'[n] => n = Name(d)
    BY <1>5, <1>6, <1>7, <2>1 DEF OwnInv, NameInv
  <2>6. \A d, e \in Comers : comer'[d].fd # NoFile /\ comer'[d].fd = comer'[e].fd => d = e
    BY <1>5, <1>7, <2>1 DEF OwnInv, NameInv
  <2>7. \A d \in Comers, b \in Builds : comer'[d].fd # NoFile => comer'[d].fd # installed[b]
    BY <1>5, <1>7, <2>1 DEF OwnInv, NameInv
  <2> QED
    BY <1>3, <2>2, <2>3, <2>4, <2>5, <2>6, <2>7 DEF NameInv, Name
<1>11. \A d \in Comers : d # c /\ Uploading(d) =>
         /\ staging'[Name(d)] = staging[Name(d)] /\ staging[Name(d)] # f
         /\ staging[Name(d)] # NoFile => files'[staging[Name(d)]] = files[staging[Name(d)]]
  <2>1. \A d \in Comers : Name(d) \in Names
    BY DEF Names
  <2> QED
    BY <1>0, <1>1, <1>4, <1>6, <1>7, <2>1
<1>12. StepInv'
  <2>1. \A d \in Comers : d # c => comer'[d] = comer[d]
    BY <1>5
  <2>2. ASSUME NEW d \in Comers, ComerAt(d, {"chmod", "mv"})'
        PROVE  /\ d # c /\ Uploading(d) /\ ComerAt(d, {"chmod", "mv"})
               /\ (ComerAt(d, {"mv"})' <=> ComerAt(d, {"mv"}))
    BY <1>5, <2>1, <2>2 DEF ComerAt, Uploading
  <2>3. ASSUME NEW d \in Comers, ComerAt(d, {"chmod", "mv"})'
        PROVE  Measured(d)' /\ (ComerAt(d, {"mv"})' /\ staging'[Name(d)] # NoFile =>
                                  files'[staging'[Name(d)]].x)
    BY <1>11, <2>2, <2>3 DEF OwnInv, StepInv, Measured, ComerAt, Name
  <2>4. \A b \in Builds : installed'[b] # NoFile => files'[installed'[b]].len = 2 /\ files'[installed'[b]].x
    BY <1>0, <1>3, <1>4, <1>7 DEF OwnInv, StepInv
  <2> QED
    BY <2>3, <2>4 DEF StepInv, ComerAt, Name
<1>13. WhyInv'
  <2>1. \A d \in Comers : d # c => comer'[d] = comer[d]
    BY <1>5
  <2>2. ASSUME NEW d \in Comers, d \notin swept', d # c
        PROVE  /\ ComerAt(d, {"cat"})' => staging'[Name(d)] = comer'[d].fd
               /\ d \notin cut' => /\ ComerAt(d, {"size", "chmod", "mv"})' =>
                                      staging'[Name(d)] # NoFile /\ files'[staging'[Name(d)]].len = 2
                                   /\ ~ComerAt(d, {"rm"})'
               /\ ~ComerAt(d, {"refused"})'
    BY <1>3, <1>11, <2>1, <2>2 DEF OwnInv, WhyInv, ComerAt, Uploading
  <2> QED
    BY <1>5, <1>6, <2>2 DEF WhyInv, ComerAt, Name
<1>14. ThereInv'
  BY <1>1, <1>3, <1>5, ThereKept DEF Commands
<1> QED
  BY <1>8, <1>9, <1>10, <1>12, <1>13, <1>14 DEF OwnInv

\* A half is written, by the one that has the file open; or the writing ends.
LEMMA CatStep ==
  ASSUME InstallTypeOK, OwnInv, NEW c \in Comers, Cat(c)
  PROVE  OwnInv'
<1> DEFINE f == comer[c].fd
           half == comer[c].at + 1
<1>0. /\ Name(c) \in Names /\ Build[c] \in Builds /\ NoFile \notin Comers
      /\ staging \in [Names -> Comers \cup {NoFile}] /\ installed \in [Builds -> Comers \cup {NoFile}]
      /\ comer \in [Comers -> Walks] /\ files \in [Comers -> Kept] /\ comer[c] \in Walks
  BY InstallAssumption DEF InstallTypeOK, Names, Builds
<1>1. /\ comer[c].pc = "cat" /\ comer[c].attempt = 0 /\ comer[c].at \in 0..2
      /\ f \in Comers /\ f # NoFile /\ files[f].len = comer[c].at
      /\ files[f].halves = 1..comer[c].at
  <2>1. comer[c].pc = "cat"
    BY DEF Cat, ComerAt
  <2>2. comer[c].attempt = 0
    BY <2>1, UploadsFirst DEF Commands
  <2> QED
    BY <1>0, <2>1, <2>2 DEF OwnInv, WriteInv, ComerAt, Walks
<1>2. UNCHANGED <<installed, staging, cut, shared, swept>>
  BY DEF Cat
<1>3. \/ /\ comer[c].at < 2 /\ c \notin cut
         /\ comer' = [comer EXCEPT ![c].at = half]
         /\ files' = [files EXCEPT ![f].halves = files[f].halves \cup {half},
                                   ![f].len = Longer(files[f].len, half)]
      \/ /\ comer[c].at = 2 \/ c \in cut
         /\ comer' = [comer EXCEPT ![c].pc = "size", ![c].fd = NoFile]
         /\ UNCHANGED files
  BY DEF Cat
<1>4. /\ comer'[c].attempt = 0 /\ comer'[c].pc \in {"cat", "size"}
      /\ \A d \in Comers : d # c => comer'[d] = comer[d]
  <2> HIDE DEF f, half
  <2> QED
    BY <1>0, <1>1, <1>3 DEF Walks
\* The half is the next one, and the file is no longer than before it.
<1>5. /\ \A g \in Comers : g # f => files'[g] = files[g]
      /\ files'[f].x = files[f].x /\ files'[f].halves = 1..files'[f].len
      /\ comer'[c].pc = "cat" => comer'[c].fd = f /\ files'[f].len = comer'[c].at
      /\ comer'[c].pc = "size" => /\ comer'[c].fd = NoFile /\ files' = files
                                  /\ c \in cut \/ files[f].len = 2
  <2>1. CASE /\ comer[c].at < 2
             /\ comer' = [comer EXCEPT ![c].at = half]
             /\ files' = [files EXCEPT ![f].halves = files[f].halves \cup {half},
                                       ![f].len = Longer(files[f].len, half)]
    <3>1. Longer(files[f].len, half) = half /\ files[f].halves \cup {half} = 1..half
      BY <1>1, <2>1 DEF Longer
    <3>2. /\ \A g \in Comers : g # f => files'[g] = files[g]
          /\ files'[f].x = files[f].x /\ files'[f].halves = files[f].halves \cup {half}
          /\ files'[f].len = Longer(files[f].len, half)
      <4> HIDE DEF f, half
      <4> QED
        BY <1>0, <1>1, <2>1 DEF Kept
    <3>3. comer'[c].pc = "cat" /\ comer'[c].fd = f /\ comer'[c].at = half
      BY <1>0, <1>1, <2>1 DEF Walks
    <3> QED
      BY <3>1, <3>2, <3>3
  <2>2. CASE /\ comer[c].at = 2 \/ c \in cut
             /\ comer' = [comer EXCEPT ![c].pc = "size", ![c].fd = NoFile]
             /\ UNCHANGED files
    <3>1. comer'[c].pc = "size" /\ comer'[c].fd = NoFile
      BY <1>0, <2>2 DEF Walks
    <3> QED
      BY <1>1, <2>2, <3>1
  <2> QED
    BY <1>3, <2>1, <2>2
<1> HIDE DEF f, half
<1>6. comer[c].fd = f /\ Uploading(c)
  BY <1>1 DEF f, Uploading, ComerAt
<1>7. /\ \A d \in Comers : d # c => comer[d].fd # f
      /\ \A b \in Builds : installed[b] # f
      /\ \A n \in Names : staging[n] = f => n = Name(c)
  BY <1>1, <1>6 DEF OwnInv, NameInv
<1>8. FreshInv'
  <2>1. \A d \in Comers : comer'[d].fd \in {comer[d].fd, NoFile}
    BY <1>4, <1>5, <1>6
  <2>2. \A d \in Comers : Fresh(d)' => Fresh(d)
    BY <1>4 DEF Fresh, ComerAt
  <2> QED
    BY <1>0, <1>2, <2>1, <2>2 DEF OwnInv, FreshInv
<1>9. WriteInv'
  <2>1. \A d \in Comers : ~ComerAt(d, {"cat"})' => comer'[d].fd = NoFile
    BY <1>4, <1>5 DEF OwnInv, WriteInv, ComerAt
  <2>2. \A g \in Comers : files'[g].halves = 1..files'[g].len
    BY <1>5 DEF OwnInv, WriteInv
  <2>3. \A d \in Comers : ComerAt(d, {"cat"})' =>
          comer'[d].fd \in Comers /\ files'[comer'[d].fd].len = comer'[d].at
    BY <1>1, <1>4, <1>5, <1>7 DEF OwnInv, WriteInv, ComerAt
  <2> QED
    BY <2>1, <2>2, <2>3 DEF WriteInv
<1>10. NameInv'
  <2>1. \A d \in Comers : (Uploading(d)' <=> Uploading(d)) /\ comer'[d].fd \in {comer[d].fd, NoFile}
    BY <1>4, <1>5, <1>6 DEF Uploading, ComerAt
  <2> QED
    BY <1>2, <2>1 DEF OwnInv, NameInv, Name
<1>11. \A d \in Comers : d # c /\ Uploading(d) =>
         staging[Name(d)] # f /\ (staging[Name(d)] # NoFile => files'[staging[Name(d)]] = files[staging[Name(d)]])
  <2>1. \A d \in Comers : Name(d) \in Names
    BY DEF Names
  <2> QED
    BY <1>0, <1>5, <1>6, <1>7, <2>1 DEF OwnInv, NameInv
<1>12. StepInv'
  <2>1. ASSUME NEW d \in Comers, ComerAt(d, {"chmod", "mv"})'
        PROVE  Measured(d)' /\ (ComerAt(d, {"mv"})' /\ staging'[Name(d)] # NoFile =>
                                  files'[staging'[Name(d)]].x)
    <3>1. d # c /\ comer'[d] = comer[d]
      BY <1>4, <2>1 DEF ComerAt
    <3> QED
      BY <1>2, <1>11, <2>1, <3>1 DEF OwnInv, StepInv, Measured, ComerAt, Name, Uploading
  <2>2. \A b \in Builds : installed'[b] # NoFile => files'[installed'[b]].len = 2 /\ files'[installed'[b]].x
    BY <1>0, <1>2, <1>5, <1>7 DEF OwnInv, StepInv
  <2> QED
    BY <2>1, <2>2 DEF StepInv, ComerAt, Name
<1>13. WhyInv'
  <2>1. ASSUME NEW d \in Comers, d \notin swept', d # c
        PROVE  /\ ComerAt(d, {"cat"})' => staging'[Name(d)] = comer'[d].fd
               /\ d \notin cut' => /\ ComerAt(d, {"size", "chmod", "mv"})' =>
                                      staging'[Name(d)] # NoFile /\ files'[staging'[Name(d)]].len = 2
                                   /\ ~ComerAt(d, {"rm"})'
               /\ ~ComerAt(d, {"refused"})'
    BY <1>2, <1>4, <1>11, <2>1 DEF OwnInv, WhyInv, ComerAt, Uploading
  <2>2. c \notin swept => staging[Name(c)] = f
    BY <1>1, <1>6 DEF OwnInv, WhyInv, ComerAt
  <2>3. ASSUME c \notin swept'
        PROVE  /\ ComerAt(c, {"cat"})' => staging'[Name(c)] = comer'[c].fd
               /\ c \notin cut' => /\ ComerAt(c, {"size", "chmod", "mv"})' =>
                                      staging'[Name(c)] # NoFile /\ files'[staging'[Name(c)]].len = 2
                                   /\ ~ComerAt(c, {"rm"})'
               /\ ~ComerAt(c, {"refused"})'
    BY <1>1, <1>2, <1>4, <1>5, <2>2, <2>3 DEF ComerAt
  <2> QED
    BY <2>1, <2>3 DEF WhyInv, ComerAt, Name
<1>14. ThereInv'
  BY <1>1, <1>2, <1>4, ThereKept DEF Commands
<1> QED
  BY <1>8, <1>9, <1>10, <1>12, <1>13, <1>14 DEF OwnInv

\* The file may be run, if it is still there.
LEMMA ChmodStep ==
  ASSUME InstallTypeOK, OwnInv, NEW c \in Comers, Chmod(c)
  PROVE  OwnInv'
<1>0. /\ Name(c) \in Names /\ Build[c] \in Builds /\ NoFile \notin Comers
      /\ staging \in [Names -> Comers \cup {NoFile}] /\ installed \in [Builds -> Comers \cup {NoFile}]
      /\ comer \in [Comers -> Walks] /\ files \in [Comers -> Kept]
  BY InstallAssumption DEF InstallTypeOK, Names, Builds
<1>1. comer[c].pc = "chmod" /\ comer[c].attempt = 0 /\ Uploading(c) /\ Measured(c)
  <2>1. comer[c].pc = "chmod"
    BY DEF Chmod, ComerAt
  <2> QED
    BY <2>1, UploadsFirst DEF Commands, Uploading, ComerAt, OwnInv, StepInv
<1>2. UNCHANGED <<installed, staging, cut, shared, swept>>
  BY DEF Chmod
<1>3. PICK pc \in {"rm", "mv"} :
        /\ ComerGoto(c, pc)
        /\ pc = "rm" => staging[Name(c)] = NoFile /\ files' = files
        /\ pc = "mv" => /\ staging[Name(c)] # NoFile
                        /\ files' = [files EXCEPT ![staging[Name(c)]].x = TRUE]
  BY DEF Chmod
<1>4. /\ comer'[c].pc = pc /\ comer'[c].attempt = 0
      /\ \A d \in Comers : comer'[d].fd = comer[d].fd /\ comer'[d].at = comer[d].at
      /\ \A d \in Comers : d # c => comer'[d] = comer[d]
  BY <1>1, <1>3, GotoWalks DEF Walked
<1>5. /\ \A g \in Comers : files'[g].halves = files[g].halves /\ files'[g].len = files[g].len
      /\ \A g \in Comers : files[g].x => files'[g].x
      /\ pc = "mv" => files'[staging[Name(c)]].x
  BY SMTT(30), <1>0, <1>3 DEF Kept
<1>6. FreshInv'
  <2>1. \A d \in Comers : Fresh(d)' => Fresh(d)
    BY <1>3, <1>4 DEF Fresh, ComerAt
  <2> QED
    BY <1>2, <1>4, <2>1 DEF OwnInv, FreshInv
<1>7. \A d \in Comers : Uploading(d)' <=> Uploading(d)
  BY <1>1, <1>3, <1>4 DEF Uploading, ComerAt
<1>8. WriteInv'
  <2>1. \A d \in Comers : ComerAt(d, {"cat"})' <=> ComerAt(d, {"cat"})
    BY <1>1, <1>3, <1>4 DEF ComerAt
  <2> QED
    BY <1>4, <1>5, <2>1 DEF OwnInv, WriteInv
<1>9. NameInv'
  BY <1>2, <1>4, <1>7 DEF OwnInv, NameInv, Name
<1>10. \A d \in Comers : Name(d) \in Names /\ (staging[Name(d)] # NoFile => staging[Name(d)] \in Comers)
  BY <1>0 DEF Names
<1>11. StepInv'
  <2>1. ASSUME NEW d \in Comers, ComerAt(d, {"chmod", "mv"})'
        PROVE  Measured(d)' /\ (ComerAt(d, {"mv"})' /\ staging'[Name(d)] # NoFile =>
                                  files'[staging'[Name(d)]].x)
    <3>1. CASE d = c
      BY <1>1, <1>2, <1>3, <1>4, <1>5, <1>10, <2>1, <3>1 DEF Measured, ComerAt, Name
    <3>2. CASE d # c
      BY <1>2, <1>4, <1>5, <1>10, <2>1, <3>2 DEF OwnInv, StepInv, Measured, ComerAt, Name
    <3> QED
      BY <3>1, <3>2
  <2>2. \A b \in Builds : installed'[b] # NoFile => files'[installed'[b]].len = 2 /\ files'[installed'[b]].x
    BY <1>0, <1>2, <1>5 DEF OwnInv, StepInv
  <2> QED
    BY <2>1, <2>2 DEF StepInv, ComerAt, Name
<1>12. WhyInv'
  <2>1. c \notin swept /\ c \notin cut => staging[Name(c)] # NoFile /\ files[staging[Name(c)]].len = 2
    BY <1>1 DEF OwnInv, WhyInv, ComerAt
  <2>2. ASSUME NEW d \in Comers, d \notin swept'
        PROVE  /\ ComerAt(d, {"cat"})' => staging'[Name(d)] = comer'[d].fd
               /\ d \notin cut' => /\ ComerAt(d, {"size", "chmod", "mv"})' =>
                                      staging'[Name(d)] # NoFile /\ files'[staging'[Name(d)]].len = 2
                                   /\ ~ComerAt(d, {"rm"})'
               /\ ~ComerAt(d, {"refused"})'
    <3>1. CASE d = c
      BY <1>2, <1>3, <1>4, <1>5, <1>10, <2>1, <2>2, <3>1 DEF ComerAt
    <3>2. CASE d # c
      BY <1>2, <1>4, <1>5, <1>10, <2>2, <3>2 DEF OwnInv, WhyInv, ComerAt
    <3> QED
      BY <3>1, <3>2
  <2> QED
    BY <2>2 DEF WhyInv, ComerAt, Name
<1>13. ThereInv'
  BY <1>1, <1>2, <1>3, <1>4, ThereKept DEF Commands
<1> QED
  BY <1>6, <1>8, <1>9, <1>11, <1>12, <1>13 DEF OwnInv

\* The upload ends for whoever waits: lost if it was cut.
LEMMA EndWalks ==
  ASSUME InstallTypeOK, NEW c \in Comers, NEW ok \in BOOLEAN, UploadEnds(c, ok)
  PROVE  Walked(c, IF c \in cut THEN "lost" ELSE IF ok THEN "list" ELSE "refused")
<1> DEFINE pc == IF c \in cut THEN "lost" ELSE IF ok THEN "list" ELSE "refused"
<1>1. comer' = [comer EXCEPT ![c].pc = pc]
  BY DEF UploadEnds
<1> HIDE DEF pc
<1>2. ComerGoto(c, pc)
  BY <1>1 DEF ComerGoto
<1>3. Walked(c, pc)
  BY <1>2, GotoWalks
<1> QED
  BY <1>3 DEF pc

\* A command that is over or moves on without its file: its staging name is
\* free, and so is its file, unless it is now the agent.
LEMMA EndStep ==
  ASSUME InstallTypeOK, OwnInv, NEW c \in Comers, MoveInto(c) \/ RemoveStaging(c)
  PROVE  OwnInv'
<1>0. /\ Name(c) \in Names /\ Build[c] \in Builds /\ NoFile \notin Comers
      /\ staging \in [Names -> Comers \cup {NoFile}] /\ installed \in [Builds -> Comers \cup {NoFile}]
      /\ comer \in [Comers -> Walks] /\ files \in [Comers -> Kept]
  BY InstallAssumption DEF InstallTypeOK, Names, Builds
<1>1. comer[c].pc \in {"mv", "rm"} /\ comer[c].attempt = 0 /\ Uploading(c)
      /\ (comer[c].pc = "mv" <=> MoveInto(c))
  <2>1. comer[c].pc \in {"mv", "rm"} /\ (comer[c].pc = "mv" <=> MoveInto(c))
    BY DEF MoveInto, RemoveStaging, ComerAt
  <2> QED
    BY <2>1, UploadsFirst DEF Commands, Uploading, ComerAt
<1>2. UNCHANGED <<files, cut, shared, swept>>
  BY DEF MoveInto, RemoveStaging
<1>3. PICK pc \in {"rm", "lost", "list", "refused"} :
        /\ Walked(c, pc)
        /\ pc = "rm" => MoveInto(c) /\ staging[Name(c)] = NoFile
        /\ pc = "list" => MoveInto(c) /\ staging[Name(c)] # NoFile /\ c \notin cut
        /\ pc = "refused" => RemoveStaging(c) /\ c \notin cut
  <2>1. CASE MoveInto(c) /\ staging[Name(c)] = NoFile
    BY <2>1, GotoWalks DEF MoveInto
  <2>2. CASE MoveInto(c) /\ staging[Name(c)] # NoFile
    <3>1. UploadEnds(c, TRUE)
      BY <2>2 DEF MoveInto
    <3> QED
      BY <2>2, <3>1, EndWalks
  <2>3. CASE RemoveStaging(c)
    <3>1. UploadEnds(c, FALSE)
      BY <2>3 DEF RemoveStaging
    <3> QED
      BY <2>3, <3>1, EndWalks
  <2> QED
    BY <2>1, <2>2, <2>3
<1>4. /\ comer'[c].pc = pc /\ comer'[c].attempt = 0
      /\ \A d \in Comers : comer'[d].fd = comer[d].fd /\ comer'[d].at = comer[d].at
      /\ \A d \in Comers : d # c => comer'[d] = comer[d]
  BY <1>1, <1>3 DEF Walked
<1>5. /\ staging'[Name(c)] = NoFile
      /\ \A n \in Names : n # Name(c) => staging'[n] = staging[n]
      /\ \A b \in Builds : b # Build[c] => installed'[b] = installed[b]
      /\ installed'[Build[c]] =
           IF MoveInto(c) /\ staging[Name(c)] # NoFile THEN staging[Name(c)] ELSE installed[Build[c]]
  <2>1. CASE MoveInto(c) /\ staging[Name(c)] = NoFile
    BY <2>1 DEF MoveInto
  <2>2. CASE MoveInto(c) /\ staging[Name(c)] # NoFile
    BY <1>0, <2>2 DEF MoveInto
  <2>3. CASE RemoveStaging(c)
    <3>1. ~MoveInto(c)
      BY <2>3 DEF MoveInto, RemoveStaging, ComerAt
    <3> QED
      BY <1>0, <2>3, <3>1 DEF RemoveStaging
  <2> QED
    BY <2>1, <2>2, <2>3
<1>6. \A d \in Comers : Name(d) \in Names
  BY DEF Names
<1>7. \A d \in Comers : d # c /\ Uploading(d) => Name(d) # Name(c)
  BY <1>1 DEF OwnInv, NameInv
<1>8. \A d \in Comers : Uploading(d)' => Uploading(d)
  BY <1>1, <1>4 DEF Uploading, ComerAt
<1>9. FreshInv'
  <2>1. \A d \in Comers : Fresh(d)' => Fresh(d)
    BY <1>3, <1>4 DEF Fresh, ComerAt
  <2>2. \A d \in Comers, n \in Names : Fresh(d) => staging'[n] # d
    BY <1>0, <1>5 DEF OwnInv, FreshInv
  <2>3. \A d \in Comers, b \in Builds : Fresh(d) => installed'[b] # d
    BY <1>0, <1>5 DEF OwnInv, FreshInv
  <2> QED
    BY <1>4, <2>1, <2>2, <2>3 DEF OwnInv, FreshInv
<1>10. WriteInv'
  <2>1. \A d \in Comers : ComerAt(d, {"cat"})' <=> ComerAt(d, {"cat"})
    BY <1>1, <1>3, <1>4 DEF ComerAt
  <2> QED
    BY <1>2, <1>4, <2>1 DEF OwnInv, WriteInv
<1>11. NameInv'
  <2>1. \A d, e \in Comers : Uploading(d)' /\ Uploading(e)' /\ Name(d) = Name(e) => d = e
    BY <1>8 DEF OwnInv, NameInv
  <2>2. \A n, m \in Names : staging'[n] # NoFile /\ staging'[n] = staging'[m] => n = m
    BY <1>5 DEF OwnInv, NameInv
  <2>3. \A n \in Names, b \in Builds : staging'[n] # NoFile => staging'[n] # installed'[b]
    BY <1>0, <1>5 DEF OwnInv, NameInv
  <2>4. \A d \in Comers, n \in Names :
          comer'[d].fd # NoFile /\ comer'[d].fd = staging'[n] => n = Name(d)
    BY <1>4, <1>5 DEF OwnInv, NameInv
  <2>5. \A d, e \in Comers : comer'[d].fd # NoFile /\ comer'[d].fd = comer'[e].fd => d = e
    BY <1>4 DEF OwnInv, NameInv
  <2>6. ASSUME NEW d \in Comers, NEW b \in Builds, comer'[d].fd # NoFile, comer'[d].fd = installed'[b]
        PROVE  FALSE
    <3>1. comer[d].fd = comer'[d].fd
      BY <1>4
    <3>2. b = Build[c] /\ MoveInto(c) /\ comer[d].fd = staging[Name(c)]
      BY <1>5, <2>6, <3>1 DEF OwnInv, NameInv
    <3>3. Name(d) = Name(c) /\ ComerAt(d, {"cat"})
      BY <1>0, <2>6, <3>1, <3>2 DEF OwnInv, NameInv, WriteInv
    <3> QED
      BY <1>1, <1>7, <3>3 DEF Uploading, ComerAt
  <2> QED
    BY <2>1, <2>2, <2>3, <2>4, <2>5, <2>6 DEF NameInv, Name
<1>12. \A d \in Comers : d # c /\ Uploading(d) => staging'[Name(d)] = staging[Name(d)]
  BY <1>5, <1>6, <1>7
<1>13. StepInv'
  <2>1. ASSUME NEW d \in Comers, ComerAt(d, {"chmod", "mv"})'
        PROVE  Measured(d)' /\ (ComerAt(d, {"mv"})' /\ staging'[Name(d)] # NoFile =>
                                  files'[staging'[Name(d)]].x)
    <3>1. d # c /\ comer'[d] = comer[d]
      BY <1>3, <1>4, <2>1 DEF ComerAt
    <3> QED
      BY <1>2, <1>12, <2>1, <3>1 DEF OwnInv, StepInv, Measured, ComerAt, Name, Uploading
  <2>2. ASSUME NEW b \in Builds, installed'[b] # NoFile
        PROVE  files'[installed'[b]].len = 2 /\ files'[installed'[b]].x
    <3>1. CASE installed'[b] = installed[b]
      BY <1>2, <2>2, <3>1 DEF OwnInv, StepInv
    <3>2. CASE installed'[b] # installed[b]
      <4>1. MoveInto(c) /\ staging[Name(c)] # NoFile /\ installed'[b] = staging[Name(c)]
        BY <1>5, <3>2
      <4> QED
        BY <1>1, <1>2, <4>1 DEF OwnInv, StepInv, Measured, ComerAt
    <3> QED
      BY <3>1, <3>2
  <2> QED
    BY <2>1, <2>2 DEF StepInv, ComerAt, Name
<1>14. WhyInv'
  <2>1. c \notin swept /\ c \notin cut => /\ comer[c].pc = "mv" /\ staging[Name(c)] # NoFile
    BY <1>1 DEF OwnInv, WhyInv, ComerAt
  <2>2. ASSUME NEW d \in Comers, d \notin swept'
        PROVE  /\ ComerAt(d, {"cat"})' => staging'[Name(d)] = comer'[d].fd
               /\ d \notin cut' => /\ ComerAt(d, {"size", "chmod", "mv"})' =>
                                      staging'[Name(d)] # NoFile /\ files'[staging'[Name(d)]].len = 2
                                   /\ ~ComerAt(d, {"rm"})'
               /\ ~ComerAt(d, {"refused"})'
    <3>1. CASE d = c
      <4>1. pc \in {"rm", "refused"} => c \in cut
        BY <1>1, <1>2, <1>3, <2>1, <2>2, <3>1 DEF MoveInto, RemoveStaging, ComerAt
      <4>2. pc # "refused"
        BY <1>3, <4>1
      <4> QED
        BY <1>2, <1>4, <3>1, <4>1, <4>2 DEF ComerAt
    <3>2. CASE d # c
      BY <1>2, <1>4, <1>12, <2>2, <3>2 DEF OwnInv, WhyInv, ComerAt, Uploading
    <3> QED
      BY <3>1, <3>2
  <2> QED
    BY <2>2 DEF WhyInv, ComerAt, Name
<1>15. ThereInv'
  <2>1. \A b \in Builds : installed[b] # NoFile => installed'[b] # NoFile
    BY <1>5
  <2>2. pc = "list" => installed'[Build[c]] # NoFile
    BY <1>3, <1>5
  <2>3. pc \in Commands \cup {"killed", "lost", "refused"} \/ pc = "list"
    BY <1>3 DEF Commands
  <2> QED
    BY <1>1, <1>4, <2>1, <2>2, <2>3, ThereKept
<1> QED
  BY <1>9, <1>10, <1>11, <1>13, <1>14, <1>15 DEF OwnInv

\* A sweep takes the agents of other builds, and staging files of anybody.
LEMMA SweepStep ==
  ASSUME InstallTypeOK, OwnInv, NEW c \in Comers, Sweep(c)
  PROVE  OwnInv'
<1>0. /\ Name(c) \in Names /\ Build[c] \in Builds /\ NoFile \notin Comers
      /\ staging \in [Names -> Comers \cup {NoFile}] /\ installed \in [Builds -> Comers \cup {NoFile}]
      /\ comer \in [Comers -> Walks] /\ comer[c] \in Walks
  BY InstallAssumption DEF InstallTypeOK, Names, Builds
<1>1. comer[c].pc = "list"
  BY DEF Sweep, ComerAt
<1>2. UNCHANGED <<files, cut, shared>>
  BY DEF Sweep
<1>3. /\ comer'[c].pc \in {"test", "replaced"} /\ comer'[c].attempt = 1
      /\ \A d \in Comers : comer'[d].fd = comer[d].fd /\ comer'[d].at = comer[d].at
      /\ \A d \in Comers : d # c => comer'[d] = comer[d]
  <2>1. PICK pc \in {"test", "replaced"} : comer' = [comer EXCEPT ![c].pc = pc, ![c].attempt = 1]
    BY DEF Sweep
  <2> QED
    BY <1>0, <2>1 DEF Walks
<1>4. /\ \A b \in Builds : installed'[b] = installed[b] \/ (installed'[b] = NoFile /\ b # Build[c])
      /\ \A n \in Names : staging'[n] = staging[n] \/ staging'[n] = NoFile
      /\ swept \subseteq swept'
      /\ \A d \in Comers : d \notin swept' => staging'[Name(d)] = staging[Name(d)]
  <2>1. PICK gone \in SUBSET {n \in Names : staging[n] # NoFile} :
          /\ staging' = [n \in Names |-> IF n \in gone THEN NoFile ELSE staging[n]]
          /\ swept' = swept \cup {d \in Comers : Name(d) \in gone}
    BY DEF Sweep
  <2>2. installed' = [b \in Builds |-> IF b = Build[c] THEN installed[b] ELSE NoFile]
    BY DEF Sweep, Spares
  <2>3. \A d \in Comers : Name(d) \in Names
    BY DEF Names
  <2>4. \A b \in Builds : installed'[b] = installed[b] \/ (installed'[b] = NoFile /\ b # Build[c])
    BY <2>2
  <2> QED
    BY <2>1, <2>3, <2>4
<1>5. \A d \in Comers : (Uploading(d)' <=> Uploading(d)) /\ (Fresh(d)' => Fresh(d))
                        /\ (ComerAt(d, {"cat"})' <=> ComerAt(d, {"cat"}))
  BY <1>1, <1>3 DEF Uploading, Fresh, ComerAt
<1>6. FreshInv'
  BY <1>0, <1>3, <1>4, <1>5 DEF OwnInv, FreshInv
<1>7. WriteInv'
  BY <1>2, <1>3, <1>5 DEF OwnInv, WriteInv
<1>8. NameInv'
  <2>1. \A d, e \in Comers : Uploading(d)' /\ Uploading(e)' /\ Name(d) = Name(e) => d = e
    BY <1>5 DEF OwnInv, NameInv
  <2>2. \A n, m \in Names : staging'[n] # NoFile /\ staging'[n] = staging'[m] => n = m
    BY <1>4 DEF OwnInv, NameInv
  <2>3. \A n \in Names, b \in Builds : staging'[n] # NoFile => staging'[n] # installed'[b]
    BY <1>4 DEF OwnInv, NameInv
  <2>4. \A d \in Comers, n \in Names :
          comer'[d].fd # NoFile /\ comer'[d].fd = staging'[n] => n = Name(d)
    BY <1>3, <1>4 DEF OwnInv, NameInv
  <2>5. \A d, e \in Comers : comer'[d].fd # NoFile /\ comer'[d].fd = comer'[e].fd => d = e
    BY <1>3 DEF OwnInv, NameInv
  <2>6. \A d \in Comers, b \in Builds : comer'[d].fd # NoFile => comer'[d].fd # installed'[b]
    BY <1>3, <1>4 DEF OwnInv, NameInv
  <2> QED
    BY <2>1, <2>2, <2>3, <2>4, <2>5, <2>6 DEF NameInv, Name
<1>9. \A d \in Comers : Name(d) \in Names
  BY DEF Names
<1>10. StepInv'
  <2>1. ASSUME NEW d \in Comers, ComerAt(d, {"chmod", "mv"})'
        PROVE  Measured(d)' /\ (ComerAt(d, {"mv"})' /\ staging'[Name(d)] # NoFile =>
                                  files'[staging'[Name(d)]].x)
    <3>1. d # c /\ comer'[d] = comer[d]
      BY <1>3, <2>1 DEF ComerAt
    <3>2. staging'[Name(d)] = staging[Name(d)] \/ staging'[Name(d)] = NoFile
      BY <1>4, <1>9
    <3> QED
      BY <1>2, <2>1, <3>1, <3>2 DEF OwnInv, StepInv, Measured, ComerAt, Name
  <2>2. \A b \in Builds : installed'[b] # NoFile => files'[installed'[b]].len = 2 /\ files'[installed'[b]].x
    BY <1>2, <1>4 DEF OwnInv, StepInv
  <2> QED
    BY <2>1, <2>2 DEF StepInv, ComerAt, Name
<1>11. WhyInv'
  <2>1. ASSUME NEW d \in Comers, d \notin swept'
        PROVE  /\ ComerAt(d, {"cat"})' => staging'[Name(d)] = comer'[d].fd
               /\ d \notin cut' => /\ ComerAt(d, {"size", "chmod", "mv"})' =>
                                      staging'[Name(d)] # NoFile /\ files'[staging'[Name(d)]].len = 2
                                   /\ ~ComerAt(d, {"rm"})'
               /\ ~ComerAt(d, {"refused"})'
    <3>1. CASE d = c
      BY <1>3, <3>1 DEF ComerAt
    <3>2. CASE d # c
      <4>1. comer'[d] = comer[d] /\ d \notin swept /\ staging'[Name(d)] = staging[Name(d)]
        BY <1>3, <1>4, <2>1, <3>2
      <4> QED
        BY <1>2, <4>1 DEF OwnInv, WhyInv, ComerAt
    <3> QED
      BY <3>1, <3>2
  <2> QED
    BY <2>1 DEF WhyInv, ComerAt, Name
\* Who loses an agent loses it to this one.
<1>12. ThereInv'
  <2>1. ASSUME NEW d \in Comers, Sweeper(d) PROVE Sweeper(d)'
    <3>1. PICK e \in Comers :
            /\ Build[e] # Build[d] /\ comer[e].attempt = 1
            /\ ComerAt(e, {"test", "exec", "framed", "replaced", "broken", "unstarted"})
      BY <2>1 DEF Sweeper
    <3>2. comer'[e] = comer[e]
      BY <1>1, <1>3, <3>1 DEF ComerAt
    <3> QED
      BY <3>1, <3>2 DEF Sweeper, ComerAt
  <2>2. ASSUME NEW d \in Comers, Build[d] # Build[c] PROVE Sweeper(d)'
    BY <1>3, <2>2 DEF Sweeper, ComerAt
  <2>3. ASSUME NEW d \in Comers, installed[Build[d]] # NoFile \/ Sweeper(d)
        PROVE  installed'[Build[d]] # NoFile \/ Sweeper(d)'
    <3>1. Build[d] \in Builds
      BY DEF Builds
    <3> QED
      BY <1>4, <2>1, <2>2, <2>3, <3>1
  <2>4. ASSUME NEW d \in Comers
        PROVE  /\ ComerAt(d, {"exec", "list"})' \/ (comer[d].attempt = 1 /\ ComerAt(d, {"test"}))' =>
                    installed'[Build[d]] # NoFile \/ Sweeper(d)'
               /\ ComerAt(d, {"broken", "unstarted"})' => Sweeper(d)'
               /\ (comer[d].attempt = 1)' =>
                    ComerAt(d, {"test", "exec", "framed", "replaced", "broken", "unstarted"})'
    <3>1. CASE d = c
      <4>1. installed[Build[c]] # NoFile \/ Sweeper(c)
        BY <1>1 DEF OwnInv, ThereInv, ComerAt
      <4>2. installed'[Build[c]] # NoFile \/ Sweeper(c)'
        BY <2>3, <4>1
      <4> QED
        BY <1>3, <3>1, <4>2 DEF ComerAt
    <3>2. CASE d # c
      <4>1. comer'[d] = comer[d]
        BY <1>3, <3>2
      <4> QED
        BY <2>1, <2>3, <4>1 DEF OwnInv, ThereInv, ComerAt
    <3> QED
      BY <3>1, <3>2
  <2> QED
    BY <2>4 DEF ThereInv
<1> QED
  BY <1>6, <1>7, <1>8, <1>10, <1>11, <1>12 DEF OwnInv

\* A cut connection, or a killed command, touches no file.
LEMMA CutStep ==
  ASSUME InstallTypeOK, OwnInv, NEW c \in Comers, CutUpload(c) \/ KillCommand(c)
  PROVE  OwnInv'
<1>0. comer \in [Comers -> Walks] /\ comer[c] \in Walks /\ NoFile \notin Comers
  BY InstallAssumption DEF InstallTypeOK
<1>1. Uploading(c) /\ comer[c].attempt = 0 /\ comer[c].pc \in Commands
  <2>1. Uploading(c)
    BY DEF CutUpload, KillCommand
  <2>2. comer[c].pc \in Commands
    BY <2>1 DEF Uploading, ComerAt, Commands
  <2> QED
    BY <2>1, <2>2, UploadsFirst
<1>2. UNCHANGED <<installed, staging, files, shared, swept>> /\ cut' = cut \cup {c}
  BY DEF CutUpload, KillCommand
<1>3. /\ comer'[c].attempt = 0
      /\ (comer'[c].pc = "killed" /\ comer'[c].fd = NoFile) \/ comer'[c] = comer[c]
      /\ \A d \in Comers : d # c => comer'[d] = comer[d]
  BY <1>0, <1>1 DEF CutUpload, KillCommand, Walks
<1>4. \A d \in Comers : /\ comer'[d].fd \in {comer[d].fd, NoFile}
                        /\ (Uploading(d)' => Uploading(d)) /\ (Fresh(d)' => Fresh(d))
  BY <1>1, <1>3 DEF Uploading, Fresh, ComerAt
<1>5. FreshInv'
  BY <1>0, <1>2, <1>4 DEF OwnInv, FreshInv
<1>6. WriteInv'
  BY <1>2, <1>3 DEF OwnInv, WriteInv, ComerAt
<1>7. NameInv'
  BY <1>2, <1>4 DEF OwnInv, NameInv, Name
<1>8. StepInv'
  BY <1>2, <1>3 DEF OwnInv, StepInv, Measured, ComerAt, Name
<1>9. WhyInv'
  BY <1>2, <1>3 DEF OwnInv, WhyInv, ComerAt, Name
<1>10. ThereInv'
  <2>1. comer'[c].pc \in Commands \cup {"killed", "lost", "refused"}
    BY <1>1, <1>3
  <2> QED
    BY <1>1, <1>2, <1>3, <2>1, ThereKept
<1> QED
  BY <1>5, <1>6, <1>7, <1>8, <1>9, <1>10 DEF OwnInv

\* As long as no two uploads had one staging name: each file is at one name and
\* written by one, what a command found out of its file stays so or the file was
\* swept, and what is under the agent's name is whole.
THEOREM InstallInvariant == InstallSpec => []InstallInv
<1>1. InstallInit => InstallInv
  <2> SUFFICES ASSUME InstallInit PROVE InstallInv
    OBVIOUS
  <2>1. InstallTypeOK
    <3>1. Empty \in Kept /\ [pc |-> "idle", attempt |-> 0, fd |-> NoFile, at |-> 0] \in Walks
      BY DEF Empty, Kept, Walks, Pcs
    <3> QED
      BY <3>1 DEF InstallInit, InstallTypeOK
  <2>2. FreshInv /\ WriteInv /\ NameInv
    <3>1. 1..0 = {} /\ NoFile \notin Comers
      BY InstallAssumption
    <3>2. /\ \A c \in Comers : comer[c].pc = "idle" /\ comer[c].attempt = 0 /\ comer[c].fd = NoFile
          /\ \A n \in Names : staging[n] = NoFile
          /\ \A b \in Builds : installed[b] = NoFile
          /\ \A f \in Comers : files[f].halves = {} /\ files[f].len = 0
      BY DEF InstallInit, Empty
    <3>3. FreshInv
      BY <3>1, <3>2 DEF FreshInv
    <3>4. WriteInv
      BY <3>1, <3>2 DEF WriteInv, ComerAt
    <3>5. NameInv
      BY <3>2 DEF NameInv, Uploading, ComerAt
    <3> QED
      BY <3>3, <3>4, <3>5
  <2>3. StepInv /\ WhyInv /\ ThereInv
    <3>1. /\ \A c \in Comers : comer[c].pc = "idle" /\ comer[c].attempt = 0
          /\ \A b \in Builds : installed[b] = NoFile
      BY DEF InstallInit
    <3> QED
      BY <3>1 DEF StepInv, WhyInv, ThereInv, ComerAt
  <2>4. NoDebris
    BY DEF InstallInit, NoDebris
  <2> QED
    BY <2>1, <2>2, <2>3, <2>4 DEF InstallInv, OwnInv
<1>2. InstallInv /\ [InstallNext]_installVars => InstallInv'
  <2> SUFFICES ASSUME InstallInv, [InstallNext]_installVars PROVE InstallInv'
    OBVIOUS
  <2>1. CASE InstallNext
    <3>1. InstallTypeOK /\ InstallTypeOK' /\ NoDebris'
      BY <2>1, InstallTypes, DebrisStep DEF InstallInv
    <3>2. ASSUME ~shared' PROVE OwnInv'
      <4>1. PICK c \in Comers :
              \/ Come(c) \/ Bootstrap(c) \/ Exec(c) \/ OpenStaging(c) \/ Cat(c) \/ CheckSize(c)
              \/ Chmod(c) \/ MoveInto(c) \/ RemoveStaging(c) \/ Sweep(c) \/ CutUpload(c)
              \/ KillCommand(c)
        BY <2>1 DEF InstallNext
      <4>2. ~shared
        BY <3>2, <4>1 DEF Come, Bootstrap, Exec, OpenStaging, Cat, CheckSize, Chmod, MoveInto,
                          RemoveStaging, Sweep, CutUpload, KillCommand
      <4>3. OwnInv
        BY <4>2 DEF InstallInv, OwnInv
      <4> QED
        BY <3>1, <3>2, <4>1, <4>3, ScriptStep, OpenStep, CatStep, ChmodStep, EndStep, SweepStep, CutStep
    <3> QED
      BY <3>1, <3>2 DEF InstallInv, OwnInv
  <2>2. CASE UNCHANGED installVars
    BY <2>2 DEF installVars, InstallInv, InstallTypeOK, OwnInv, NoDebris, FreshInv, WriteInv, NameInv,
                StepInv, WhyInv, ThereInv, Fresh, Measured, Sweeper, Uploading, ComerAt, Name
  <2> QED
    BY <2>1, <2>2
<1> QED
  BY <1>1, <1>2, PTL DEF InstallSpec

\* The variables of the install keep their types.
THEOREM InstallTypeCorrect == InstallSpec => []InstallTypeOK
<1>1. InstallInv => InstallTypeOK
  BY DEF InstallInv
<1> QED
  BY <1>1, InstallInvariant, PTL

\* upload_command's size check: however many uploads are cut short or killed,
\* what may be run under the agent's name is a whole agent.
THEOREM OnlyWholeAgents == InstallSpec => []CutInstallsNothing
<1>1. InstallInv => CutInstallsNothing
  BY WholeAgents DEF InstallInv, CutInstallsNothing
<1> QED
  BY <1>1, InstallInvariant, PTL

\* An upload is refused, or its agent asked for again, only when somebody
\* else's sweep took its file or its agent (cleanup_old_agents_command).
THEOREM NoRefusalForNothing == InstallSpec => []RefusedForAReason
<1>1. InstallInv => RefusedForAReason
  <2> SUFFICES ASSUME InstallInv, ~shared, NEW c \in Comers
               PROVE  /\ ComerAt(c, {"refused"}) => c \in swept
                      /\ ComerAt(c, {"unstarted", "broken"}) =>
                           \E d \in Comers \ {c} : Build[d] # Build[c] /\
                             ComerAt(d, {"test", "exec", "framed", "replaced", "broken", "unstarted"})
    BY DEF RefusedForAReason
  <2>1. OwnInv
    BY DEF InstallInv
  <2>2. ComerAt(c, {"refused"}) => c \in swept
    BY <2>1 DEF OwnInv, WhyInv
  <2>3. ASSUME ComerAt(c, {"unstarted", "broken"})
        PROVE  \E d \in Comers \ {c} : Build[d] # Build[c] /\
                 ComerAt(d, {"test", "exec", "framed", "replaced", "broken", "unstarted"})
    <3>1. Sweeper(c)
      BY <2>1, <2>3 DEF OwnInv, ThereInv, ComerAt
    <3> QED
      BY <3>1 DEF Sweeper
  <2> QED
    BY <2>2, <2>3
<1> QED
  BY <1>1, InstallInvariant, PTL

\* "the staging file is removed rather than left to accumulate": only a killed
\* command leaves one (upload_command).
THEOREM StagingIsRemoved == InstallSpec => []NoDebris
<1>1. InstallInv => NoDebris
  BY DEF InstallInv
<1> QED
  BY <1>1, InstallInvariant, PTL

\* What is still being written is not under the agent's name (upload_command):
\* "so two panels bootstrapping the same host cannot have one `mv` the file
\* another is still writing", as long as their staging names differ.
THEOREM NobodyInstallsTheUnfinished == InstallSpec => [](shared \/ OneWriter)
<1>1. InstallInv => shared \/ OneWriter
  BY InstallAssumption DEF InstallInv, OwnInv, NameInv, WriteInv, OneWriter
<1> QED
  BY <1>1, InstallInvariant, PTL


---------------------------------------------------------------------------
\* A panel's link to its host.
LinkPcs == {"connect", "handshake", "header", "body", "report", "replace", "end", "wait", "done"}
Sessions == [pending : BOOLEAN, half : BOOLEAN, text : BOOLEAN, hello : BOOLEAN,
             checked : BOOLEAN, mismatch : BOOLEAN, delivered : BOOLEAN]
Said == {"chatter", "reason"}
Reasons == Said \cup {"nothing", "text", "framing_lost", "read_failed", "unreadable"}
Shows == Reasons \cup {"closed", "no_connection", "frame", "mismatch", "duplicate", "replaced",
                       "not_replaced"}
Pieces == [part : {"head", "tail", "body"}, of : {"hello", "frame"}]
            \cup {[part |-> "text", of |-> "text"]}

\* The values of the link's variables.
LinkTypeOK ==
  /\ task \in [mode : {"monitor", "once"}, pc : LinkPcs, s : Sessions]
  /\ failures \in 0..(MaxFailures + 1) /\ dry \in 0..(MaxFailures + 1)
  /\ errbuf \in Reasons /\ shown \in Shows
  /\ linkPanel \in [size : {1, 2}, resizes : Nat] /\ told \in 0..2
  /\ far \in Seq(Pieces) /\ near \in Seq(Pieces)
  /\ stderr \in Seq(Said) /\ stdin \in Seq({1, 2})
  /\ agent \in [up : BOOLEAN, build : Agents \cup {"same"}, size : 0..2, greeted : BOOLEAN]
  /\ onHost \in Agents /\ spoke \in BOOLEAN /\ torn \in BOOLEAN

\* What is on its way from the agent, in order: packets follow one another, and so do
\* the pieces of each.
Stream == near \o far
After == [head |-> "tail", tail |-> "body", body |-> "head", text |-> "text"]
Aligned(S) == \A i \in 1..(Len(S) - 1) :
  /\ S[i + 1].part = After[S[i].part]
  /\ S[i].part \in {"head", "tail"} => S[i + 1].of = S[i].of
Ended(S) == S # <<>> => S[Len(S)].part \in {"body", "text"}
HelloOnce(S) == \A i, j \in 1..Len(S) :
  i < j /\ S[i].part = "body" /\ S[i].of = "hello" => S[j].of # "hello"
NoHello(S) == \A i \in 1..Len(S) : S[i].of # "hello"

\* The task reads at the head of a packet, or where it is in one, unless a line of
\* stderr has torn a header; an agent that still runs has sent whole packets.
StreamInv ==
  /\ Aligned(Stream)
  /\ \A i \in 1..Len(Stream) : Stream[i].part = "text" <=> agent.build = "banner"
  /\ agent.up => Ended(Stream)
FirstInv ==
  /\ At("handshake") /\ Stream # <<>> => Stream[1].part \in {"head", "text"}
  /\ At("header") /\ agent.build = "banner" => task.s.text
  /\ At("header") /\ task.s.pending =>
       /\ Stream # <<>> => Stream[1].part = "tail"
       /\ agent.up => Stream # <<>>
  /\ At("header") /\ ~task.s.pending /\ ~torn /\ agent.build # "banner" =>
       /\ Stream # <<>> => Stream[1].part = IF task.s.half THEN "tail" ELSE "head"
       /\ agent.up /\ task.s.half => Stream # <<>>
  /\ At("body") => /\ ~task.s.pending /\ ~task.s.half
                   /\ Stream # <<>> => Stream[1].part = "body"
                   /\ agent.up => Stream # <<>>

\* An agent that does not repeat itself says Hello once, and a newer one first.
HelloInv ==
  /\ agent.build # "repeats" =>
       /\ HelloOnce(Stream)
       /\ task.s.hello => NoHello(Stream) /\ agent.greeted
       /\ ~agent.greeted => NoHello(Stream)
  /\ agent.build = "no_hello" => ~agent.greeted
NewerInv ==
  task.mode = "monitor" /\ agent.build = "newer" /\ ~task.s.checked =>
    /\ At("handshake") /\ agent.up /\ agent.greeted => Stream # <<>>
    /\ At("header") => task.s.pending
    /\ task.pc \in {"handshake", "header", "body"} /\ Stream # <<>> => Stream[1].of = "hello"

\* What a session knows of the agent, and what it was replaced for.
Refused == {"older", "invalid", "no_hello", "incompatible"}
KnownInv ==
  /\ task.pc \in {"handshake", "header", "body", "replace"} => agent.build = onHost
  /\ task.mode = "monitor" /\ task.s.delivered => agent.build \notin Refused
  /\ task.mode = "monitor" /\ task.s.checked /\ task.pc \in {"handshake", "header", "body"} =>
       agent.build \notin Refused
  /\ At("handshake") => task.s = NoSession
  /\ At("replace") => onHost # "newer"

\* What was said on stderr is kept until the end: there, or as the last line.
SaidInv ==
  /\ At("handshake") => errbuf = "nothing"
  /\ task.pc \in {"handshake", "header", "body"} /\ spoke => stderr # <<>> \/ errbuf # "nothing"
  /\ At("report") /\ agent.build # "repeats" => errbuf # "nothing" \/ (~spoke /\ ~agent.up)
  /\ At("end") /\ task.mode = "monitor" /\ shown = "closed" /\ agent.build # "repeats" =>
       ~spoke /\ ~agent.up

\* The count of failures is that of the sessions that delivered nothing, or one more.
CountInv == dry <= failures /\ failures <= dry + 1

\* What a step keeps besides the types.
StoryInv ==
  /\ StreamInv /\ FirstInv /\ HelloInv /\ NewerInv /\ KnownInv /\ SaidInv /\ CountInv
  /\ FramingIsKept
LinkInv == LinkTypeOK /\ StoryInv

---------------------------------------------------------------------------
\* What the pieces are.
LEMMA PieceTypes ==
  ASSUME NEW p \in Pieces
  PROVE  /\ p.part \in {"head", "tail", "body", "text"} /\ p.of \in {"hello", "frame", "text"}
         /\ p.part = "text" <=> p.of = "text"
BY DEF Pieces

\* The pieces of what an agent writes are pieces.
LEMMA PacketTypes ==
  /\ \A k \in {"hello", "frame"} : MonitorPacket(k) \in Seq(Pieces) /\ Len(MonitorPacket(k)) = 3
  /\ LinkText \in Seq(Pieces) /\ Len(LinkText) = 2
<1>1. ASSUME NEW k \in {"hello", "frame"}, NEW h \in {"head", "tail", "body"}
      PROVE  [part |-> h, of |-> k] \in Pieces
  BY <1>1 DEF Pieces
<1>2. [part |-> "text", of |-> "text"] \in Pieces
  BY DEF Pieces
<1> QED
  BY <1>1, <1>2 DEF MonitorPacket, LinkText

LinkTasks == [mode : {"monitor", "once"}, pc : LinkPcs, s : Sessions]

\* A task that moves, or that knows more of its session, is a task.
LEMMA TaskOfLink ==
  ASSUME NEW t \in LinkTasks, NEW pc \in LinkPcs, NEW s \in Sessions
  PROVE  /\ [t EXCEPT !.pc = pc] \in LinkTasks
         /\ [t EXCEPT !.pc = pc, !.s = s] \in LinkTasks
         /\ [t EXCEPT !.s = s] \in LinkTasks
BY DEF LinkTasks

\* A session of which something is noted is a session.
LEMMA SessionTypes ==
  ASSUME NEW s \in Sessions, NEW a \in BOOLEAN, NEW b \in BOOLEAN
  PROVE  /\ [s EXCEPT !.pending = a] \in Sessions /\ [s EXCEPT !.text = a] \in Sessions
         /\ [s EXCEPT !.pending = a, !.half = b] \in Sessions /\ [s EXCEPT !.half = a] \in Sessions
         /\ [s EXCEPT !.delivered = a] \in Sessions /\ [s EXCEPT !.mismatch = a] \in Sessions
         /\ [s EXCEPT !.hello = a, !.checked = b] \in Sessions
         /\ NoSession \in Sessions
BY DEF Sessions, NoSession

\* What is taken from the head of a sequence, or cut from its end, leaves one.
LEMMA Takings ==
  ASSUME NEW T, NEW q \in Seq(T)
  PROVE  /\ q # <<>> => Len(q) \in Nat \ {0} /\ q[Len(q)] \in T /\ Head(q) \in T /\ Tail(q) \in Seq(T)
         /\ \A e \in T : Append(q, e) \in Seq(T)
         /\ \A n \in 1..Len(q) : SubSeq(q, n + 1, Len(q)) \in Seq(T) /\ q[n] \in T
         /\ \A n \in 0..Len(q) : SubSeq(q, 1, n) \in Seq(T)
<1>1. \A n \in 1..Len(q) : q[n] \in T
  OBVIOUS
<1>2. q # <<>> => Len(q) \in Nat \ {0} /\ q[Len(q)] \in T /\ Head(q) \in T /\ Tail(q) \in Seq(T)
  OBVIOUS
<1>3. \A n \in 1..Len(q) : SubSeq(q, n + 1, Len(q)) \in Seq(T)
  <2> TAKE n \in 1..Len(q)
  <2>1. \A i \in (n + 1)..Len(q) : q[i] \in T
    OBVIOUS
  <2> QED
    BY <2>1
<1>4. \A n \in 0..Len(q) : SubSeq(q, 1, n) \in Seq(T)
  <2> TAKE n \in 0..Len(q)
  <2>1. \A i \in 1..n : q[i] \in T
    OBVIOUS
  <2> QED
    BY <2>1
<1> QED
  BY <1>1, <1>2, <1>3, <1>4

\* The task's steps keep the types.
LEMMA ReadOnTypes ==
  ASSUME LinkTypeOK, ReadOn
  PROVE  LinkTypeOK'
<1>0. /\ task \in LinkTasks /\ task.s \in Sessions /\ task.mode \in {"monitor", "once"}
      /\ errbuf \in Reasons /\ shown \in Shows /\ told \in 0..2 /\ failures \in 0..(MaxFailures + 1)
      /\ near \in Seq(Pieces) /\ far \in Seq(Pieces) /\ stderr \in Seq(Said) /\ stdin \in Seq({1, 2})
      /\ MaxFailures \in Nat /\ dry \in 0..(MaxFailures + 1) /\ linkPanel.size \in {1, 2}
  BY LinkAssumption DEF LinkTypeOK, LinkTasks
<1> DEFINE Nothings == /\ <<>> \in Seq(Pieces) /\ <<>> \in Seq(Said) /\ <<>> \in Seq({1, 2})
           Processes == [up : BOOLEAN, build : Agents \cup {"same"}, size : 0..2, greeted : BOOLEAN]
<1>e. Nothings
  OBVIOUS
<1>d. Down \in Processes
  BY DEF Down
<1>t. \A pc \in LinkPcs : \A s \in Sessions :
        /\ [task EXCEPT !.pc = pc] \in LinkTasks /\ [task EXCEPT !.pc = pc, !.s = s] \in LinkTasks
  BY <1>0, TaskOfLink
<1>u. \A s \in Sessions : [task EXCEPT !.s = s] \in LinkTasks
  <2>1. "end" \in LinkPcs
    BY DEF LinkPcs
  <2> QED
    BY <1>0, <2>1, TaskOfLink
<1>s. \A a, b \in BOOLEAN :
        /\ [task.s EXCEPT !.pending = a] \in Sessions /\ [task.s EXCEPT !.text = a] \in Sessions
        /\ [task.s EXCEPT !.pending = a, !.half = b] \in Sessions
        /\ [task.s EXCEPT !.half = a] \in Sessions
        /\ [task.s EXCEPT !.delivered = a] \in Sessions
        /\ NoSession \in Sessions
  BY <1>0, SessionTypes
<1>q. /\ near # <<>> => Head(near) \in Pieces /\ Tail(near) \in Seq(Pieces)
      /\ \A n \in 1..Len(near) : SubSeq(near, n + 1, Len(near)) \in Seq(Pieces)
      /\ stderr # <<>> => /\ stderr[Len(stderr)] \in Said /\ Head(stderr) \in Said
                          /\ Tail(stderr) \in Seq(Said)
  BY <1>0, Takings
<1>c. Said \subseteq Reasons /\ Reasons \subseteq Shows
  BY DEF Said, Reasons, Shows
<1>r. {"nothing", "text", "framing_lost", "read_failed", "unreadable"} \subseteq Reasons
  BY DEF Reasons
<1>w. {"closed", "no_connection", "frame", "mismatch", "duplicate", "replaced",
                       "not_replaced"} \subseteq Shows
  BY DEF Shows
<1>1. CASE Connect
  <2>1. task' \in LinkTasks /\ shown' \in Shows
    <3>1. \/ task' = [task EXCEPT !.pc = "handshake", !.s = NoSession] /\ shown' = shown
          \/ task' = [task EXCEPT !.pc = "end"] /\ shown' = "no_connection"
      BY <1>1 DEF Connect, Goto
    <3>2. "handshake" \in LinkPcs /\ "end" \in LinkPcs
      BY DEF LinkPcs
    <3> QED
      BY <3>1, <3>2, <1>0, <1>t, <1>s, <1>w
  <2>2. agent' \in Processes
    <3>1. agent' = agent \/ agent' = [Down EXCEPT !.up = TRUE, !.build = onHost]
      BY <1>1 DEF Connect
    <3> QED
      BY <3>1, <1>d DEF LinkTypeOK
  <2>3. errbuf' \in Reasons /\ told' \in 0..2 /\ far' \in Seq(Pieces) /\ near' \in Seq(Pieces)
    BY <1>1, <1>e, <1>r DEF Connect
  <2>4. stderr' \in Seq(Said) /\ stdin' \in Seq({1, 2}) /\ spoke' \in BOOLEAN /\ torn' \in BOOLEAN
    BY <1>1, <1>e DEF Connect
  <2>5. UNCHANGED <<failures, linkPanel, onHost, dry>>
    BY <1>1 DEF Connect
  <2> QED
    BY <2>1, <2>2, <2>3, <2>4, <2>5 DEF LinkTypeOK, LinkTasks
<1>2. CASE ReadHandshake
  <2>1. task' \in LinkTasks
    <3>1. \/ task' = [task EXCEPT !.pc = "header", !.s = [task.s EXCEPT !.pending = TRUE]]
          \/ task' = [task EXCEPT !.pc = "header", !.s = [task.s EXCEPT !.text = TRUE]]
          \/ task' = [task EXCEPT !.pc = "end"]
      BY <1>2, <1>0 DEF ReadHandshake, Goto, LinkTasks
    <3>2. "header" \in LinkPcs /\ "end" \in LinkPcs
      BY DEF LinkPcs
    <3> QED
      BY <3>1, <3>2, <1>0, <1>t, <1>s
  <2>2. near' \in Seq(Pieces) /\ stderr' \in Seq(Said) /\ shown' \in Shows
    <3>1. \/ near # <<>> /\ near' = Tail(near) /\ stderr' = stderr /\ shown' = shown
          \/ /\ near' = near /\ stderr' = <<>>
             /\ shown' = IF stderr = <<>> THEN "closed" ELSE stderr[Len(stderr)]
      BY <1>2 DEF ReadHandshake
    <3> QED
      BY <3>1, <1>0, <1>q, <1>e, <1>c, <1>w
  <2> QED
    BY <1>2, <2>1, <2>2 DEF ReadHandshake, LinkTypeOK, LinkTasks, outside, history
<1>3. CASE ReadHeader
  <2> DEFINE need == IF task.s.pending \/ task.s.half THEN 1 ELSE 2
  <2>0. "body" \in LinkPcs /\ "report" \in LinkPcs /\ need \in {1, 2}
    BY DEF LinkPcs
  <2>1. \/ /\ Len(near) >= need /\ near' = SubSeq(near, need + 1, Len(near))
           /\ task' = [task EXCEPT !.pc = "body", !.s = [task.s EXCEPT !.pending = FALSE, !.half = FALSE]]
           /\ errbuf' = errbuf
        \/ /\ Len(near) >= need /\ near' = SubSeq(near, need + 1, Len(near))
           /\ task' = [task EXCEPT !.pc = "report"]
           /\ errbuf' \in {"text", "framing_lost"}
        \/ /\ near' = <<>> /\ errbuf' = errbuf
           /\ task' = [task EXCEPT !.s = [task.s EXCEPT !.half = TRUE]]
    BY <1>3, <1>0 DEF ReadHeader, Stop, Goto, LinkTasks, Sessions
  <2>2. Len(near) \in Nat
    BY <1>0
  <2>3. task' \in LinkTasks /\ near' \in Seq(Pieces) /\ errbuf' \in Reasons
    <3>1. CASE Len(near) >= need /\ near' = SubSeq(near, need + 1, Len(near))
      <4>1. need \in 1..Len(near)
        BY <3>1, <2>0, <2>2
      <4> HIDE DEF need
      <4>2. near' \in Seq(Pieces)
        BY <4>1, <3>1, <1>q
      <4> QED
        BY ZenonT(40), <4>2, <2>1, <2>0, <1>0, <1>t, <1>u, <1>s, <1>r
    <3> HIDE DEF need
    <3>2. CASE ~(Len(near) >= need /\ near' = SubSeq(near, need + 1, Len(near)))
      BY <3>2, <2>1, <1>0, <1>e, <1>u, <1>s
    <3> QED
      BY <3>1, <3>2
  <2>4. stderr' = stderr
    BY <1>3 DEF ReadHeader
  <2> QED
    BY <1>3, <2>3, <2>4 DEF ReadHeader, LinkTypeOK, LinkTasks, outside, history
<1>4. CASE ReadLinkStderr
  <2>1. task' = [task EXCEPT !.s = [task.s EXCEPT !.half = FALSE]]
    BY <1>4, <1>0 DEF ReadLinkStderr, LinkTasks
  <2>2. task' \in LinkTasks
    BY <2>1, <1>0, <1>u, <1>s
  <2>3. errbuf' \in Reasons /\ stderr' \in Seq(Said)
    BY <1>4, <1>q, <1>c DEF ReadLinkStderr
  <2>4. torn' \in BOOLEAN
    BY <1>4, <1>0 DEF ReadLinkStderr, LinkTypeOK, Sessions
  <2> QED
    BY <1>4, <2>2, <2>3, <2>4 DEF ReadLinkStderr, LinkTypeOK, LinkTasks, outside
<1>5. CASE EndInHeader \/ EndInBody
  <2>1. task' = [task EXCEPT !.pc = "report"] /\ errbuf' \in Reasons /\ stderr' \in Seq(Said)
    <3>1. CASE EndInHeader
      BY <3>1, <1>0, <1>q, <1>c, <1>e DEF EndInHeader, Stop, Goto
    <3>2. CASE EndInBody
      BY <3>2, <1>0, <1>r DEF EndInBody, Stop, Goto, wires
    <3> QED
      BY <1>5, <3>1, <3>2
  <2>2. task' \in LinkTasks
    BY <2>1, <1>t, <1>0 DEF LinkPcs
  <2> QED
    BY <1>5, <2>1, <2>2 DEF EndInHeader, EndInBody, LinkTypeOK, LinkTasks, outside, history, wires
<1>6. CASE ReadBody
  <2>0. /\ "header" \in LinkPcs /\ "report" \in LinkPcs /\ "replace" \in LinkPcs
    BY DEF LinkPcs
  <2>1. near' \in Seq(Pieces)
    BY <1>6, <1>q DEF ReadBody
  <2>2. told' \in 0..2 /\ stdin' \in Seq({1, 2})
    <3>1. \/ told' = told /\ stdin' = stdin
          \/ told' = linkPanel.size /\ stdin' = Append(stdin, linkPanel.size)
      BY <1>6 DEF ReadBody, TellSize
    <3>2. Append(stdin, linkPanel.size) \in Seq({1, 2})
      BY <1>0, Takings
    <3>3. told \in 0..2 /\ linkPanel.size \in 0..2 /\ stdin \in Seq({1, 2})
      BY <1>0
    <3> QED
      BY <3>1, <3>2, <3>3
  <2>3. task' \in LinkTasks /\ shown' \in Shows /\ errbuf' \in Reasons
    <3> DEFINE p == Head(near).of
    <3>1. CASE Stop("unreadable") /\ UNCHANGED <<shown, told, stdin>>
      BY <3>1, <2>0, <1>0, <1>t, <1>r DEF Stop, Goto
    <3>2. CASE ReadMonitor(p) /\ UNCHANGED errbuf
      <4> DEFINE s == Known(p, task.s)
      <4>1. s \in Sessions
        <5>1. s = [task.s EXCEPT !.hello = (task.s.hello \/ p = "hello"),
                         !.checked = (task.s.checked \/ p # "hello" \/ agent.build # "invalid")]
          BY <1>0 DEF Known, Sessions
        <5>2. /\ (task.s.hello \/ p = "hello") \in BOOLEAN
              /\ (task.s.checked \/ p # "hello" \/ agent.build # "invalid") \in BOOLEAN
          OBVIOUS
        <5> QED
          BY ZenonT(40), <5>1, <5>2, <1>0, SessionTypes
      <4>2. [s EXCEPT !.delivered = TRUE] \in Sessions /\ [s EXCEPT !.mismatch = TRUE] \in Sessions
        BY <4>1, SessionTypes
      <4>3. \/ task' = [task EXCEPT !.pc = "header", !.s = s] /\ shown' = shown
            \/ task' = [task EXCEPT !.pc = "header", !.s = [s EXCEPT !.delivered = TRUE]] /\ shown' = "frame"
            \/ task' = [task EXCEPT !.pc = "replace", !.s = [s EXCEPT !.mismatch = TRUE]] /\ shown' = "mismatch"
            \/ task' = [task EXCEPT !.pc = "report", !.s = s] /\ shown' = "duplicate"
        BY <3>2 DEF ReadMonitor, On
      <4> HIDE DEF s
      <4> QED
        BY ZenonT(40), <3>2, <4>1, <4>2, <4>3, <2>0, <1>0, <1>t, <1>w
    <3>3. CASE ReadOnce(p) /\ UNCHANGED errbuf
      <4>1. task' = [task EXCEPT !.pc = "header", !.s = [task.s EXCEPT !.delivered = (task.s.delivered \/ p = "frame")]]
        BY <3>3, <1>0 DEF ReadOnce, LinkTasks, Sessions
      <4>2. (task.s.delivered \/ p = "frame") \in BOOLEAN
        OBVIOUS
      <4>3. shown' \in Shows
        BY <3>3, <1>0, <1>w DEF ReadOnce
      <4> HIDE DEF p
      <4> QED
        BY <3>3, <4>1, <4>2, <4>3, <2>0, <1>0, <1>t, <1>s
    <3> QED
      BY <1>6, <3>1, <3>2, <3>3 DEF ReadBody
  <2> QED
    BY <1>6, <2>1, <2>2, <2>3 DEF ReadBody, LinkTypeOK, LinkTasks, outside, history
<1>7. CASE Report \/ Replace \/ Wake
  <2>1. task' \in LinkTasks
    <3>1. \/ task' = [task EXCEPT !.pc = "end"] \/ task' = [task EXCEPT !.pc = "connect"]
      BY <1>7 DEF Report, Replace, Wake, Goto
    <3> QED
      BY <3>1, <1>t, <1>0 DEF LinkPcs
  <2>2. shown' \in Shows /\ onHost' \in Agents
    <3>1. CASE Report
      BY <3>1, <1>0, <1>c, <1>w DEF Report, LinkTypeOK
    <3>2. CASE Replace
      BY <3>2, <1>0, <1>w DEF Replace, LinkTypeOK
    <3>3. CASE Wake
      BY <3>3, <1>0 DEF Wake, LinkTypeOK, outside
    <3> QED
      BY <1>7, <3>1, <3>2, <3>3
  <2> QED
    BY <1>7, <2>1, <2>2 DEF Report, Replace, Wake, LinkTypeOK, LinkTasks, outside, history, wires
<1>8. CASE End
  <2>1. task' \in LinkTasks
    <3>1. \/ task' = [task EXCEPT !.pc = "wait", !.s = NoSession]
          \/ task' = [task EXCEPT !.pc = "done", !.s = NoSession]
      BY <1>8 DEF End
    <3> QED
      BY <3>1, <1>t, <1>s, <1>0 DEF LinkPcs
  <2>2. failures' \in 0..(MaxFailures + 1) /\ dry' \in 0..(MaxFailures + 1)
    BY <1>8, <1>0 DEF End, Least, Progress
  <2> QED
    BY <1>8, <2>1, <2>2, <1>e, <1>d DEF End, Dropped, LinkTypeOK, LinkTasks
<1> QED
  BY <1>1, <1>2, <1>3, <1>4, <1>5, <1>6, <1>7, <1>8 DEF ReadOn

\* So do the agent's, the connection's and the user's.
LEMMA OutsideTypes ==
  ASSUME LinkTypeOK, Emit \/ BannerEnds \/ Arrive \/ Resized \/ Chatter \/ Cut \/ ResizePanel
  PROVE  LinkTypeOK'
<1>0. /\ near \in Seq(Pieces) /\ far \in Seq(Pieces) /\ stderr \in Seq(Said) /\ stdin \in Seq({1, 2})
      /\ linkPanel.size \in {1, 2} /\ linkPanel.resizes \in Nat /\ Said = {"chatter", "reason"}
  BY DEF LinkTypeOK, Said
<1> DEFINE Processes == [up : BOOLEAN, build : Agents \cup {"same"}, size : 0..2, greeted : BOOLEAN]
<1>a. /\ \A b \in BOOLEAN : [agent EXCEPT !.greeted = b] \in Processes /\ [agent EXCEPT !.up = b] \in Processes
      /\ \A n \in 0..2 : [agent EXCEPT !.size = n] \in Processes
      /\ agent \in Processes /\ agent.greeted \in BOOLEAN
  BY DEF LinkTypeOK
<1>1. CASE Emit
  <2>1. /\ far' \in {LinkText, MonitorPacket("hello"), MonitorPacket("frame")}
        /\ \/ agent' = [agent EXCEPT !.greeted = TRUE]
           \/ agent' = [agent EXCEPT !.greeted = (agent.greeted \/ agent.build # "repeats")]
           \/ agent' = [agent EXCEPT !.up = FALSE] \/ agent' = agent
    BY <1>1, <1>a DEF Emit
  <2>2. (agent.greeted \/ agent.build # "repeats") \in BOOLEAN
    OBVIOUS
  <2>3. agent' \in Processes
    BY <2>1, <2>2, <1>a
  <2>4. far' \in Seq(Pieces)
    BY <2>1, PacketTypes
  <2> QED
    BY <1>1, <2>3, <2>4 DEF Emit, LinkTypeOK, history
<1>2. CASE BannerEnds
  <2>1. agent' \in Processes
    BY <1>2, <1>a DEF BannerEnds
  <2> QED
    BY <1>2, <2>1 DEF BannerEnds, LinkTypeOK, history, wires
<1>3. CASE Arrive
  <2>1. far # <<>> /\ near' = Append(near, Head(far)) /\ far' = Tail(far)
    BY <1>3 DEF Arrive
  <2>2. Head(far) \in Pieces /\ far' \in Seq(Pieces)
    BY <2>1, <1>0, Takings
  <2>3. near' \in Seq(Pieces)
    BY <2>1, <2>2, <1>0, Takings
  <2> QED
    BY <1>3, <2>2, <2>3 DEF Arrive, LinkTypeOK, history, outside
<1>4. CASE Resized
  <2>1. stdin # <<>> /\ agent' = [agent EXCEPT !.size = Head(stdin)] /\ stdin' = Tail(stdin)
    BY <1>4 DEF Resized
  <2>2. Head(stdin) \in {1, 2} /\ stdin' \in Seq({1, 2})
    BY <2>1, <1>0, Takings
  <2>3. agent' \in Processes
    BY <2>1, <2>2, <1>a
  <2> QED
    BY <1>4, <2>2, <2>3 DEF Resized, LinkTypeOK, history
<1>5. CASE Chatter
  <2>1. stderr' = Append(stderr, "chatter") /\ spoke' = TRUE
    BY <1>5 DEF Chatter
  <2>2. stderr' \in Seq(Said)
    BY <2>1, <1>0, Takings
  <2> QED
    BY <1>5, <2>1, <2>2 DEF Chatter, LinkTypeOK, outside
<1>6. CASE Cut
  <2>1. agent' \in Processes
    BY <1>6, <1>a DEF Cut
  <2>2. far' \in Seq(Pieces)
    <3>1. PICK n \in 0..Len(far) : far' = SubSeq(far, 1, n)
      BY <1>6 DEF Cut
    <3> QED
      BY <3>1, <1>0, Takings
  <2>3. stderr' \in Seq(Said) /\ spoke' \in BOOLEAN
    <3>1. \/ stderr' = Append(stderr, "reason") /\ spoke' = TRUE
          \/ stderr' = stderr /\ spoke' = spoke
      BY <1>6 DEF Cut
    <3>2. Append(stderr, "reason") \in Seq(Said)
      BY <1>0, Takings
    <3> QED
      BY <3>1, <3>2, <1>0 DEF LinkTypeOK
  <2>4. stdin' \in Seq({1, 2})
    BY <1>6 DEF Cut
  <2> QED
    BY <1>6, <2>1, <2>2, <2>3, <2>4 DEF Cut, LinkTypeOK
<1>7. CASE ResizePanel
  <2>1. linkPanel' = [size |-> 3 - linkPanel.size, resizes |-> linkPanel.resizes + 1]
    BY <1>7 DEF ResizePanel
  <2>2. linkPanel' \in [size : {1, 2}, resizes : Nat]
    BY <2>1, <1>0
  <2> QED
    BY <1>7, <2>2 DEF ResizePanel, LinkTypeOK, history, wires
<1> QED
  BY <1>1, <1>2, <1>3, <1>4, <1>5, <1>6, <1>7

\* Every step keeps the types.
LEMMA LinkTypes ==
  ASSUME LinkTypeOK, [LinkNext]_linkVars
  PROVE  LinkTypeOK'
<1>1. CASE LinkNext
  BY <1>1, ReadOnTypes, OutsideTypes DEF LinkNext
<1>2. CASE UNCHANGED linkVars
  BY <1>2 DEF linkVars, LinkTypeOK
<1> QED
  BY <1>1, <1>2

---------------------------------------------------------------------------
\* R is what is left of S without its first n pieces; what is left of it when it is cut;
\* or S with the pieces of q behind it.
Rest(R, S, n) ==
  /\ R \in Seq(Pieces) /\ S \in Seq(Pieces) /\ n \in 0..Len(S) /\ Len(R) = Len(S) - n
  /\ \A i \in 1..Len(R) : R[i] = S[i + n]
Shorter(R, S) ==
  /\ R \in Seq(Pieces) /\ S \in Seq(Pieces) /\ Len(R) <= Len(S)
  /\ \A i \in 1..Len(R) : R[i] = S[i]
Extended(R, S, q) ==
  /\ R \in Seq(Pieces) /\ S \in Seq(Pieces) /\ q \in Seq(Pieces) /\ Len(R) = Len(S) + Len(q)
  /\ \A i \in 1..Len(S) : R[i] = S[i]
  /\ \A i \in 1..Len(q) : R[i + Len(S)] = q[i]

\* Reading takes from the head of the stream, and the connection moves nothing.
LEMMA Reading ==
  ASSUME NEW a \in Seq(Pieces), NEW b \in Seq(Pieces)
  PROVE  /\ \A n \in 1..Len(a) : Rest(SubSeq(a, n + 1, Len(a)) \o b, a \o b, n)
         /\ a # <<>> => Rest(Tail(a) \o b, a \o b, 1) /\ (a \o b)[1] = Head(a) /\ a \o b # <<>>
         /\ \A n \in 1..Len(a) : (a \o b)[n] = a[n]
         /\ b # <<>> => Append(a, Head(b)) \o Tail(b) = a \o b
         /\ \A n \in 0..Len(b) : Shorter(a \o SubSeq(b, 1, n), a \o b)
         /\ b = <<>> => a \o b = a /\ \A q \in Seq(Pieces) : Extended(a \o q, a \o b, q)
<1>0. /\ a \o b \in Seq(Pieces) /\ Len(a \o b) = Len(a) + Len(b) /\ Len(a) \in Nat /\ Len(b) \in Nat
      /\ \A i \in 1..Len(a) : (a \o b)[i] = a[i]
      /\ \A i \in 1..Len(b) : (a \o b)[i + Len(a)] = b[i]
  OBVIOUS
<1>1. ASSUME NEW n \in 1..Len(a)
      PROVE  Rest(SubSeq(a, n + 1, Len(a)) \o b, a \o b, n)
  <2> DEFINE c == SubSeq(a, n + 1, Len(a))
  <2>1. c \in Seq(Pieces)
    BY <1>1, Takings
  <2>2. Len(c) = Len(a) - n /\ \A i \in 1..Len(c) : c[i] = a[i + n]
    BY <1>1
  <2> HIDE DEF c
  <2>3. /\ c \o b \in Seq(Pieces) /\ Len(c \o b) = Len(c) + Len(b) /\ Len(c) \in Nat
        /\ \A i \in 1..Len(c) : (c \o b)[i] = c[i]
        /\ \A i \in (Len(c) + 1)..(Len(c) + Len(b)) : (c \o b)[i] = b[i - Len(c)]
    BY <2>1
  <2>4. ASSUME NEW i \in 1..Len(c \o b)
        PROVE  (c \o b)[i] = (a \o b)[i + n]
    <3>1. CASE i <= Len(c)
      <4>1. (c \o b)[i] = c[i] /\ c[i] = a[i + n] /\ i + n \in 1..Len(a)
        BY <3>1, <2>2, <2>3, <2>4, <1>1, <1>0
      <4> QED
        BY <4>1, <1>0
    <3>2. CASE i > Len(c)
      <4>1. i \in (Len(c) + 1)..(Len(c) + Len(b)) /\ i - Len(c) \in 1..Len(b)
        BY <3>2, <2>3, <2>4, <1>0
      <4>2. (a \o b)[(i - Len(c)) + Len(a)] = b[i - Len(c)]
        BY <4>1, <1>0
      <4>3. (i - Len(c)) + Len(a) = i + n
        BY <2>2, <2>3, <1>0, <1>1, <4>1
      <4> QED
        BY <4>1, <4>2, <4>3, <2>3
    <3>3. i \in Nat /\ Len(c) \in Nat
      BY <2>3, <2>4, <1>0
    <3>4. i <= Len(c) \/ i > Len(c)
      BY <3>3
    <3> QED
      BY <3>1, <3>2, <3>4
  <2> QED
    BY SMTT(30), <2>2, <2>3, <2>4, <1>0, <1>1 DEF Rest, c
<1>2. ASSUME a # <<>>
      PROVE  Rest(Tail(a) \o b, a \o b, 1) /\ (a \o b)[1] = Head(a) /\ a \o b # <<>>
  <2>1. 1 \in 1..Len(a) /\ Tail(a) = SubSeq(a, 2, Len(a)) /\ Head(a) = a[1]
    BY <1>2
  <2>2. Rest(SubSeq(a, 1 + 1, Len(a)) \o b, a \o b, 1)
    BY <1>1, <2>1
  <2>3. SubSeq(a, 1 + 1, Len(a)) = Tail(a)
    BY <2>1
  <2>4. Rest(Tail(a) \o b, a \o b, 1)
    BY <2>2, <2>3
  <2>5. (a \o b)[1] = Head(a) /\ a \o b # <<>>
    BY <2>1, <1>0
  <2> QED
    BY <2>4, <2>5
<1>3. ASSUME b # <<>>
      PROVE  Append(a, Head(b)) \o Tail(b) = a \o b
  BY <1>3
<1>4. ASSUME NEW n \in 0..Len(b)
      PROVE  Shorter(a \o SubSeq(b, 1, n), a \o b)
  <2> DEFINE c == SubSeq(b, 1, n)
  <2>1. c \in Seq(Pieces)
    BY <1>4, Takings
  <2>2. Len(c) = n /\ \A i \in 1..n : c[i] = b[i]
    BY <1>4
  <2> HIDE DEF c
  <2>3. /\ a \o c \in Seq(Pieces) /\ Len(a \o c) = Len(a) + n
        /\ \A i \in 1..Len(a) : (a \o c)[i] = a[i]
        /\ \A i \in 1..n : (a \o c)[i + Len(a)] = c[i]
    BY SMTT(30), <2>1, <2>2
  <2>4. ASSUME NEW i \in 1..Len(a \o c)
        PROVE  (a \o c)[i] = (a \o b)[i]
    <3>1. CASE i <= Len(a)
      BY <3>1, <2>3, <1>0, <2>4
    <3>2. CASE i > Len(a)
      <4>1. i - Len(a) \in 1..n /\ i - Len(a) \in 1..Len(b) /\ (i - Len(a)) + Len(a) = i
        BY <3>2, <2>3, <2>4, <1>0, <1>4
      <4>2. (a \o c)[(i - Len(a)) + Len(a)] = c[i - Len(a)] /\ (a \o b)[(i - Len(a)) + Len(a)] = b[i - Len(a)]
        BY <4>1, <2>3, <1>0
      <4> QED
        BY <4>1, <4>2, <2>2
    <3> QED
      BY <3>1, <3>2, <1>0, <2>4, <2>3
  <2> QED
    BY <2>3, <2>4, <1>0, <1>4 DEF Shorter, c
<1>5. ASSUME b = <<>>
      PROVE  a \o b = a /\ \A q \in Seq(Pieces) : Extended(a \o q, a \o b, q)
  <2>1. a \o b = a
    BY <1>5
  <2>2. ASSUME NEW q \in Seq(Pieces)
        PROVE  Extended(a \o q, a, q)
    BY <2>2 DEF Extended
  <2> QED
    BY <2>1, <2>2
<1> QED
  BY <1>0, <1>1, <1>2, <1>3, <1>4, <1>5

\* What is left of a stream is still in order.
LEMMA RestInOrder ==
  ASSUME NEW R, NEW S, NEW n, Rest(R, S, n) \/ Shorter(R, S)
  PROVE  /\ Aligned(S) => Aligned(R)
         /\ HelloOnce(S) => HelloOnce(R)
         /\ NoHello(S) => NoHello(R)
         /\ \A t \in BOOLEAN : (\A i \in 1..Len(S) : S[i].part = "text" <=> t)
                                 => \A i \in 1..Len(R) : R[i].part = "text" <=> t
         /\ Rest(R, S, n) /\ Ended(S) => Ended(R)
<1>1. CASE Rest(R, S, n)
  <2>1. /\ n \in Nat /\ Len(R) \in Nat /\ Len(S) \in Nat /\ Len(R) = Len(S) - n
        /\ \A i \in 1..Len(R) : i + n \in 1..Len(S) /\ R[i] = S[i + n]
    BY <1>1 DEF Rest
  <2>2. Aligned(S) => Aligned(R)
    <3> SUFFICES ASSUME Aligned(S), NEW i \in 1..(Len(R) - 1)
                 PROVE  /\ R[i + 1].part = After[R[i].part]
                        /\ R[i].part \in {"head", "tail"} => R[i + 1].of = R[i].of
      BY DEF Aligned
    <3>1. /\ i + n \in 1..(Len(S) - 1) /\ R[i] = S[i + n] /\ R[i + 1] = S[(i + n) + 1]
      <4>1. i \in 1..Len(R) /\ i + 1 \in 1..Len(R) /\ (i + 1) + n = (i + n) + 1
        BY <2>1
      <4>2. i + n \in 1..(Len(S) - 1)
        BY <2>1
      <4> QED
        BY SMTT(30), <4>1, <4>2, <2>1
    <3> QED
      BY <3>1 DEF Aligned
  <2>3. HelloOnce(S) => HelloOnce(R)
    BY SMTT(30), <2>1 DEF HelloOnce
  <2>4. NoHello(S) => NoHello(R)
    BY <2>1 DEF NoHello
  <2>5. Ended(S) => Ended(R)
    <3> SUFFICES ASSUME Ended(S), R # <<>> PROVE R[Len(R)].part \in {"body", "text"}
      BY DEF Ended
    <3>1. Len(R) \in 1..Len(R) /\ S # <<>> /\ Len(R) + n = Len(S)
      BY <1>1, <2>1 DEF Rest
    <3> QED
      BY <3>1, <2>1 DEF Ended
  <2> QED
    BY <2>1, <2>2, <2>3, <2>4, <2>5
<1>2. CASE Shorter(R, S)
  <2>1. /\ Len(R) \in Nat /\ Len(S) \in Nat /\ Len(R) <= Len(S)
        /\ \A i \in 1..Len(R) : i \in 1..Len(S) /\ R[i] = S[i]
    BY <1>2 DEF Shorter
  <2>2. Aligned(S) => Aligned(R)
    BY <2>1 DEF Aligned
  <2>3. HelloOnce(S) => HelloOnce(R)
    BY <2>1 DEF HelloOnce
  <2>4. NoHello(S) => NoHello(R)
    BY <2>1 DEF NoHello
  <2>5. ~Rest(R, S, n) \/ Rest(R, S, n)
    OBVIOUS
  <2> QED
    BY <1>1, <2>1, <2>2, <2>3, <2>4
<1> QED
  BY <1>1, <1>2

\* A packet behind a stream of whole packets leaves a stream of whole packets.
LEMMA PacketBehind ==
  ASSUME NEW R, NEW S, NEW k \in {"hello", "frame"}, Extended(R, S, MonitorPacket(k)),
         Aligned(S), Ended(S), \A i \in 1..Len(S) : S[i].part # "text"
  PROVE  /\ Aligned(R) /\ Ended(R) /\ \A i \in 1..Len(R) : R[i].part # "text"
         /\ NoHello(S) => HelloOnce(R)
         /\ k = "frame" => (NoHello(S) => NoHello(R)) /\ (HelloOnce(S) => HelloOnce(R))
         /\ R # <<>> /\ R[1] = IF S = <<>> THEN [part |-> "head", of |-> k] ELSE S[1]
<1> DEFINE n == Len(S)
<1>1. /\ n \in Nat /\ Len(R) = n + 3 /\ R # <<>> /\ (S = <<>> <=> n = 0)
      /\ \A i \in 1..n : R[i] = S[i]
      /\ R[n + 1] = [part |-> "head", of |-> k] /\ R[n + 2] = [part |-> "tail", of |-> k]
      /\ R[n + 3] = [part |-> "body", of |-> k]
  <2>1. /\ n \in Nat /\ Len(R) = n + Len(MonitorPacket(k))
        /\ \A i \in 1..n : R[i] = S[i]
        /\ \A i \in 1..Len(MonitorPacket(k)) : R[i + n] = MonitorPacket(k)[i]
        /\ (S = <<>> <=> n = 0)
    BY DEF Extended
  <2>2. /\ Len(MonitorPacket(k)) = 3 /\ MonitorPacket(k)[1] = [part |-> "head", of |-> k]
        /\ MonitorPacket(k)[2] = [part |-> "tail", of |-> k]
        /\ MonitorPacket(k)[3] = [part |-> "body", of |-> k]
    BY DEF MonitorPacket
  <2>3. R[1 + n] = MonitorPacket(k)[1] /\ R[2 + n] = MonitorPacket(k)[2] /\ R[3 + n] = MonitorPacket(k)[3]
    BY <2>1, <2>2
  <2>4. Len(R) = n + 3 /\ R # <<>>
    BY <2>1, <2>2 DEF Extended
  <2>5. 1 + n = n + 1 /\ 2 + n = n + 2 /\ 3 + n = n + 3
    BY <2>1
  <2> QED
    BY <2>1, <2>2, <2>3, <2>4, <2>5
<1> HIDE DEF n
<1>2. \A i \in 1..Len(R) : i \in 1..n \/ i = n + 1 \/ i = n + 2 \/ i = n + 3
  BY <1>1
<1>3. n # 0 => S[n].part = "body"
  <2>1. ASSUME n # 0
        PROVE  S[n].part = "body"
    <3>1. n \in 1..Len(S) /\ S # <<>>
      BY <2>1, <1>1 DEF n
    <3>2. S[n].part \in {"body", "text"}
      BY <3>1 DEF Ended, n
    <3> QED
      BY <3>1, <3>2
  <2> QED
    BY <2>1
<1>4. Aligned(R)
  <2> SUFFICES ASSUME NEW i \in 1..(Len(R) - 1)
               PROVE  /\ R[i + 1].part = After[R[i].part]
                      /\ R[i].part \in {"head", "tail"} => R[i + 1].of = R[i].of
    BY DEF Aligned
  <2>1. i \in 1..(n - 1) \/ (i = n /\ n # 0) \/ i = n + 1 \/ i = n + 2
    BY <1>1
  <2>2. CASE i \in 1..(n - 1)
    <3>1. i \in 1..(Len(S) - 1) /\ R[i] = S[i] /\ R[i + 1] = S[i + 1]
      BY <2>2, <1>1 DEF n
    <3> QED
      BY <3>1 DEF Aligned
  <2>3. CASE i = n /\ n # 0
    <3>1. R[i] = S[n] /\ R[i + 1] = [part |-> "head", of |-> k]
      BY <2>3, <1>1
    <3> QED
      BY <3>1, <2>3, <1>3 DEF After
  <2>4. CASE i = n + 1
    <3>1. R[i + 1] = R[n + 2]
      BY <2>4, <1>1
    <3> QED
      BY <3>1, <2>4, <1>1 DEF After
  <2>5. CASE i = n + 2
    <3>1. R[i + 1] = R[n + 3]
      BY <2>5, <1>1
    <3> QED
      BY <3>1, <2>5, <1>1 DEF After
  <2> QED
    BY <2>1, <2>2, <2>3, <2>4, <2>5
<1>5. Ended(R)
  BY <1>1 DEF Ended
<1>6. \A i \in 1..Len(R) : R[i].part # "text"
  BY <1>1, <1>2 DEF n
<1>7. ASSUME NoHello(S) PROVE HelloOnce(R)
  <2>1. \A i \in 1..n : R[i].of # "hello"
    BY <1>7, <1>1 DEF NoHello, n
  <2> SUFFICES ASSUME NEW i \in 1..Len(R), NEW j \in 1..Len(R), i < j, R[i].part = "body",
                      R[i].of = "hello"
               PROVE  R[j].of # "hello"
    BY DEF HelloOnce
  <2>2. i = n + 3
    BY <2>1, <1>1, <1>2
  <2> QED
    BY <2>2, <1>1
<1>8. ASSUME k = "frame", NoHello(S) PROVE NoHello(R)
  BY <1>8, <1>1, <1>2 DEF NoHello, n
<1>9. ASSUME k = "frame", HelloOnce(S) PROVE HelloOnce(R)
  <2> SUFFICES ASSUME NEW i \in 1..Len(R), NEW j \in 1..Len(R), i < j, R[i].part = "body",
                      R[i].of = "hello"
               PROVE  R[j].of # "hello"
    BY DEF HelloOnce
  <2>1. i \in 1..n
    BY <1>9, <1>1, <1>2
  <2>2. CASE j \in 1..n
    BY <2>1, <2>2, <1>9, <1>1 DEF HelloOnce, n
  <2>3. CASE j \notin 1..n
    BY <2>3, <1>9, <1>1, <1>2
  <2> QED
    BY <2>2, <2>3
<1>10. R[1] = IF S = <<>> THEN [part |-> "head", of |-> k] ELSE S[1]
  <2>1. CASE n = 0
    BY <2>1, <1>1
  <2>2. CASE n # 0
    <3>1. 1 \in 1..n
      BY <2>2, <1>1
    <3> QED
      BY <3>1, <2>2, <1>1
  <2> QED
    BY <2>1, <2>2
<1> QED
  BY <1>1, <1>4, <1>5, <1>6, <1>7, <1>8, <1>9, <1>10

\* So does text behind text.
LEMMA TextBehind ==
  ASSUME NEW R, NEW S, Extended(R, S, LinkText), \A i \in 1..Len(S) : S[i].part = "text"
  PROVE  /\ Aligned(R) /\ Ended(R) /\ R # <<>> /\ NoHello(R) /\ HelloOnce(R)
         /\ \A i \in 1..Len(R) : R[i].part = "text"
         /\ R[1].part = "text"
<1>1. /\ Len(S) \in Nat /\ Len(R) = Len(S) + Len(LinkText) /\ R \in Seq(Pieces)
      /\ \A i \in 1..Len(S) : R[i] = S[i]
      /\ \A i \in 1..Len(LinkText) : R[i + Len(S)] = LinkText[i]
  BY DEF Extended
<1>2. /\ Len(LinkText) = 2 /\ LinkText[1].part = "text" /\ LinkText[2].part = "text"
  BY DEF LinkText
<1>3. R[1 + Len(S)].part = "text" /\ R[2 + Len(S)].part = "text"
  BY <1>1, <1>2
<1>4. \A i \in 1..Len(R) : i \in 1..Len(S) \/ i = 1 + Len(S) \/ i = 2 + Len(S)
  BY <1>1, <1>2
<1>5. \A i \in 1..Len(R) : R[i].part = "text"
  BY <1>1, <1>3, <1>4
<1>6. \A i \in 1..Len(R) : R[i] \in Pieces
  BY <1>1
<1>7. Len(R) \in Nat /\ Len(R) > 0 /\ R # <<>>
  BY <1>1, <1>2
<1>8. NoHello(R)
  BY <1>5, <1>6, PieceTypes DEF NoHello
<1>9. Aligned(R)
  <2> SUFFICES ASSUME NEW i \in 1..(Len(R) - 1)
               PROVE  /\ R[i + 1].part = After[R[i].part]
                      /\ R[i].part \in {"head", "tail"} => R[i + 1].of = R[i].of
    BY DEF Aligned
  <2>1. i \in 1..Len(R) /\ i + 1 \in 1..Len(R)
    BY <1>7
  <2>2. R[i].part = "text" /\ R[i + 1].part = "text"
    BY <2>1, <1>5
  <2> QED
    BY <2>2 DEF After
<1>10. Ended(R) /\ HelloOnce(R) /\ R[1].part = "text"
  BY <1>5, <1>7, <1>8 DEF Ended, HelloOnce, NoHello
<1> QED
  BY <1>5, <1>7, <1>8, <1>9, <1>10

---------------------------------------------------------------------------
\* The connection moves a piece, a size is set, a line is said, the panel is resized: the
\* task knows no more and no less.
LEMMA StillKeeps ==
  ASSUME LinkTypeOK, StoryInv, Arrive \/ Resized \/ Chatter \/ ResizePanel
  PROVE  StoryInv'
<1>1. Stream' = Stream
  <2>1. CASE Arrive
    <3>1. far # <<>> /\ near' = Append(near, Head(far)) /\ far' = Tail(far)
      BY <2>1 DEF Arrive
    <3> QED
      BY <3>1, Reading DEF Stream, LinkTypeOK
  <2>2. CASE ~Arrive
    <3>1. near' = near /\ far' = far
      BY <2>2 DEF Resized, Chatter, ResizePanel, wires
    <3> QED
      BY <3>1 DEF Stream
  <2> QED
    BY <2>1, <2>2
<1>2. /\ task' = task /\ errbuf' = errbuf /\ shown' = shown /\ onHost' = onHost /\ torn' = torn
      /\ failures' = failures /\ dry' = dry
  BY DEF Arrive, Resized, Chatter, ResizePanel, outside, history, wires
<1>3. agent'.up = agent.up /\ agent'.build = agent.build /\ agent'.greeted = agent.greeted
  <2>1. agent' = agent \/ agent' = [agent EXCEPT !.size = Head(stdin)]
    BY DEF Arrive, Resized, Chatter, ResizePanel, outside
  <2> QED
    BY <2>1 DEF LinkTypeOK
<1>4. \/ stderr' = stderr /\ spoke' = spoke
      \/ stderr' = Append(stderr, "chatter") /\ agent.up
  BY DEF Arrive, Resized, Chatter, ResizePanel, outside, history, wires
<1>5. StreamInv' /\ HelloInv'
  BY <1>1, <1>2, <1>3 DEF StoryInv, StreamInv, HelloInv
<1>6. FirstInv' /\ NewerInv'
  BY <1>1, <1>2, <1>3 DEF StoryInv, FirstInv, NewerInv, At
<1>7. KnownInv' /\ CountInv' /\ FramingIsKept'
  BY <1>2, <1>3 DEF StoryInv, KnownInv, CountInv, FramingIsKept, At
<1>8. SaidInv'
  <2>1. stderr' # <<>> \/ (stderr' = stderr /\ spoke' = spoke)
    BY <1>4 DEF LinkTypeOK
  <2>2. spoke' = spoke \/ agent.up
    BY <1>4
  <2> QED
    BY <2>1, <2>2, <1>2, <1>3 DEF StoryInv, SaidInv, At
<1> QED
  BY <1>5, <1>6, <1>7, <1>8 DEF StoryInv

\* The task goes from one place to another and leaves the stream alone.
LEMMA GoesOn ==
  ASSUME LinkTypeOK, StoryInv, Report \/ Replace \/ Wake \/ EndInBody \/ EndInHeader
  PROVE  StoryInv'
<1>1. Stream' = Stream /\ agent' = agent /\ torn' = torn /\ failures' = failures /\ dry' = dry
      /\ spoke' = spoke
  BY DEF Report, Replace, Wake, EndInBody, EndInHeader, wires, outside, history, Stream
<1>2. /\ task'.mode = task.mode /\ task'.s = task.s
      /\ task'.pc \in {"end", "connect", "report"}
      /\ task'.pc = "report" => EndInBody \/ EndInHeader
      /\ task'.pc = "end" => Report \/ Replace
  BY DEF Report, Replace, Wake, EndInBody, EndInHeader, Goto, Stop, LinkTypeOK
<1>3. StreamInv' /\ HelloInv'
  BY <1>1, <1>2 DEF StoryInv, StreamInv, HelloInv
<1>4. FirstInv' /\ NewerInv'
  BY <1>1, <1>2 DEF StoryInv, FirstInv, NewerInv, At
<1>5. KnownInv' /\ CountInv'
  BY <1>1, <1>2 DEF StoryInv, KnownInv, CountInv, At
<1>6. CASE EndInBody \/ EndInHeader
  <2>1. errbuf' # "nothing" \/ (errbuf' = errbuf /\ stderr = <<>> /\ At("header"))
    <3>1. stderr # <<>> => stderr[Len(stderr)] \in Said
      BY Takings DEF LinkTypeOK
    <3> QED
      BY <1>6, <3>1 DEF EndInBody, EndInHeader, Stop, Said
  <2>2. errbuf' # "framing_lost" \/ errbuf' = errbuf
    <3>1. stderr # <<>> => stderr[Len(stderr)] \in Said
      BY Takings DEF LinkTypeOK
    <3> QED
      BY <1>6, <3>1 DEF EndInBody, EndInHeader, Stop, Said
  <2>3. ~agent.up /\ task'.pc = "report"
    BY <1>6 DEF EndInBody, EndInHeader, Closed, Stop, Goto, LinkTypeOK
  <2>4. SaidInv'
    BY <1>1, <2>1, <2>3 DEF StoryInv, SaidInv, At
  <2>5. FramingIsKept'
    BY <2>2, <1>1 DEF StoryInv, FramingIsKept
  <2> QED
    BY <1>3, <1>4, <1>5, <2>4, <2>5 DEF StoryInv
<1>7. CASE Report
  <2>1. /\ errbuf' = errbuf /\ At("report") /\ task'.pc = "end"
        /\ task.mode = "monitor" => shown' = IF errbuf = "nothing" THEN "closed" ELSE errbuf
    BY <1>7 DEF Report, Goto, LinkTypeOK
  <2>2. errbuf # "closed"
    BY DEF LinkTypeOK, Reasons, Said
  <2>3. SaidInv'
    BY <1>1, <1>2, <2>1, <2>2 DEF StoryInv, SaidInv, At
  <2>4. FramingIsKept'
    BY <2>1, <1>1 DEF StoryInv, FramingIsKept
  <2> QED
    BY <1>3, <1>4, <1>5, <2>3, <2>4 DEF StoryInv
<1>8. CASE Replace \/ Wake
  <2>1. errbuf' = errbuf /\ (task'.pc = "connect" \/ shown' # "closed") /\ task'.pc \in {"end", "connect"}
    BY <1>8 DEF Replace, Wake, Goto, LinkTypeOK
  <2>2. SaidInv'
    BY <1>1, <1>2, <2>1 DEF StoryInv, SaidInv, At
  <2>3. FramingIsKept'
    BY <2>1, <1>1 DEF StoryInv, FramingIsKept
  <2> QED
    BY <1>3, <1>4, <1>5, <2>2, <2>3 DEF StoryInv
<1> QED
  BY <1>6, <1>7, <1>8

\* A line of stderr tears a header that is half read; a banner's shell ends.
LEMMA StderrKeeps ==
  ASSUME LinkTypeOK, StoryInv, ReadLinkStderr \/ BannerEnds
  PROVE  StoryInv'
<1>1. CASE ReadLinkStderr
  <2>1. /\ Stream' = Stream /\ agent' = agent /\ failures' = failures /\ dry' = dry /\ spoke' = spoke
        /\ onHost' = onHost /\ shown' = shown
    BY <1>1 DEF ReadLinkStderr, outside, Stream
  <2>2. /\ task'.mode = task.mode /\ task'.pc = "header" /\ task.pc = "header" /\ ~task.s.pending
        /\ ~task'.s.pending /\ ~task'.s.half /\ task'.s.text = task.s.text
        /\ task'.s.hello = task.s.hello /\ task'.s.checked = task.s.checked
        /\ task'.s.delivered = task.s.delivered
    BY <1>1 DEF ReadLinkStderr, LinkTypeOK, Sessions, At
  <2>3. torn' = (torn \/ task.s.half)
    BY <1>1 DEF ReadLinkStderr
  <2>4. errbuf' \in Said
    BY <1>1, Takings DEF ReadLinkStderr, LinkTypeOK
  <2>5. StreamInv' /\ HelloInv'
    BY <2>1, <2>2 DEF StoryInv, StreamInv, HelloInv
  <2>6. FirstInv'
    BY <2>1, <2>2, <2>3 DEF StoryInv, FirstInv, At
  <2>7. NewerInv' /\ KnownInv' /\ CountInv'
    BY <2>1, <2>2 DEF StoryInv, NewerInv, KnownInv, CountInv, At
  <2>8. SaidInv' /\ FramingIsKept'
    BY <2>1, <2>2, <2>4 DEF SaidInv, FramingIsKept, At, Said
  <2> QED
    BY <2>5, <2>6, <2>7, <2>8 DEF StoryInv
<1>2. CASE BannerEnds
  <2>1. /\ Stream' = Stream /\ task' = task /\ failures' = failures /\ dry' = dry /\ spoke' = spoke
        /\ onHost' = onHost /\ shown' = shown /\ errbuf' = errbuf /\ torn' = torn /\ stderr' = stderr
    BY <1>2 DEF BannerEnds, history, wires, Stream
  <2>2. /\ ~agent'.up /\ agent'.build = agent.build /\ agent'.greeted = agent.greeted
    BY <1>2 DEF BannerEnds, LinkTypeOK
  <2>3. StreamInv' /\ HelloInv' /\ FirstInv'
    BY <2>1, <2>2 DEF StoryInv, StreamInv, HelloInv, FirstInv, At
  <2>4. NewerInv' /\ KnownInv' /\ CountInv' /\ SaidInv' /\ FramingIsKept'
    BY <2>1, <2>2 DEF StoryInv, NewerInv, KnownInv, CountInv, SaidInv, FramingIsKept, At
  <2> QED
    BY <2>3, <2>4 DEF StoryInv
<1> QED
  BY <1>1, <1>2

\* A stream of nothing is in order.
LEMMA EmptyInOrder ==
  ASSUME NEW S, S = <<>>
  PROVE  /\ Aligned(S) /\ Ended(S) /\ HelloOnce(S) /\ NoHello(S)
         /\ \A i \in 1..Len(S) : FALSE
BY DEF Aligned, Ended, HelloOnce, NoHello

\* A session begins with nothing on its wires.
LEMMA ConnectKeeps ==
  ASSUME LinkTypeOK, StoryInv, Connect
  PROVE  StoryInv'
<1>1. /\ Stream' = <<>> /\ errbuf' = "nothing" /\ spoke' = FALSE /\ torn' = FALSE
      /\ failures' = failures /\ dry' = dry /\ onHost' = onHost
  BY DEF Connect, Stream
<1>2. /\ Aligned(Stream') /\ Ended(Stream') /\ HelloOnce(Stream') /\ NoHello(Stream')
      /\ \A i \in 1..Len(Stream') : FALSE
  BY <1>1, EmptyInOrder
<1>3. \/ /\ agent'.up /\ agent'.build = onHost /\ ~agent'.greeted
         /\ task'.pc = "handshake" /\ task'.s = NoSession /\ task'.mode = task.mode
      \/ /\ agent' = agent /\ task'.pc = "end" /\ task'.s = task.s /\ task'.mode = task.mode
         /\ shown' = "no_connection"
  BY DEF Connect, Goto, LinkTypeOK, Down
<1>4. StreamInv'
  BY <1>2 DEF StreamInv
<1>5. FirstInv'
  BY <1>1, <1>3 DEF FirstInv, At
<1>6. HelloInv'
  <2>1. agent'.build = "no_hello" => ~agent'.greeted
    BY <1>3 DEF StoryInv, HelloInv
  <2>2. agent'.build # "repeats" /\ task'.s.hello => agent'.greeted
    BY <1>3 DEF StoryInv, HelloInv, NoSession
  <2> QED
    BY <1>2, <2>1, <2>2 DEF HelloInv
<1>7. NewerInv'
  BY <1>1, <1>3 DEF NewerInv, At
<1>8. KnownInv'
  BY <1>1, <1>3 DEF StoryInv, KnownInv, At, NoSession
<1>9. SaidInv' /\ CountInv' /\ FramingIsKept'
  BY <1>1, <1>3 DEF StoryInv, SaidInv, CountInv, FramingIsKept, At
<1> QED
  BY <1>4, <1>5, <1>6, <1>7, <1>8, <1>9 DEF StoryInv

\* A session ends, and nothing is left of it.
LEMMA EndKeeps ==
  ASSUME LinkTypeOK, StoryInv, End
  PROVE  StoryInv'
<1>1. /\ Stream' = <<>> /\ errbuf' = errbuf /\ spoke' = spoke /\ torn' = torn
      /\ agent' = Down /\ ~agent'.up /\ agent'.build = "same" /\ ~agent'.greeted /\ onHost' = onHost
  BY DEF End, Dropped, Stream, Down
<1>2. /\ Aligned(Stream') /\ Ended(Stream') /\ HelloOnce(Stream') /\ NoHello(Stream')
      /\ \A i \in 1..Len(Stream') : FALSE
  BY <1>1, EmptyInOrder
<1>3. task'.pc \in {"wait", "done"} /\ task'.s = NoSession
  BY DEF End, LinkTypeOK
<1>4. CountInv'
  <2>1. /\ failures' = Least((IF task.s.delivered THEN 0 ELSE failures) + 1, MaxFailures + 1)
        /\ dry' = IF task.s.delivered THEN 0 ELSE Least(dry + 1, MaxFailures + 1)
    BY DEF End, Progress
  <2>2. failures \in Nat /\ dry \in Nat /\ MaxFailures \in Nat /\ dry <= failures /\ failures <= dry + 1
    BY LinkAssumption DEF LinkTypeOK, StoryInv, CountInv
  <2> QED
    BY <2>1, <2>2 DEF Least, CountInv
<1>5. StreamInv' /\ HelloInv'
  BY <1>1, <1>2, <1>3 DEF StreamInv, HelloInv, NoSession
<1>6. FirstInv' /\ NewerInv' /\ KnownInv' /\ SaidInv'
  BY <1>1, <1>3 DEF FirstInv, NewerInv, KnownInv, SaidInv, At, NoSession, Refused
<1>7. FramingIsKept'
  BY <1>1 DEF StoryInv, FramingIsKept
<1> QED
  BY <1>4, <1>5, <1>6, <1>7 DEF StoryInv

\* The stream is cut anywhere in what has not arrived.
LEMMA CutLinkKeeps ==
  ASSUME LinkTypeOK, StoryInv, Cut
  PROVE  StoryInv'
<1>1. Shorter(Stream', Stream)
  <2>1. near' = near /\ \E n \in 0..Len(far) : far' = SubSeq(far, 1, n)
    BY DEF Cut
  <2> QED
    BY <2>1, Reading DEF Stream, LinkTypeOK
<1>2. /\ task' = task /\ errbuf' = errbuf /\ shown' = shown /\ onHost' = onHost /\ torn' = torn
      /\ failures' = failures /\ dry' = dry /\ agent.up
      /\ ~agent'.up /\ agent'.build = agent.build /\ agent'.greeted = agent.greeted
  BY DEF Cut, LinkTypeOK
<1>3. Stream' # <<>> => Stream # <<>> /\ Stream'[1] = Stream[1]
  <2> DEFINE R == Stream'
  <2>1. Shorter(R, Stream)
    BY <1>1
  <2> HIDE DEF R
  <2>2. R # <<>> => Stream # <<>> /\ R[1] = Stream[1]
    BY <2>1 DEF Shorter
  <2> QED
    BY <2>2 DEF R
<1>4. /\ Aligned(Stream') /\ (HelloOnce(Stream) => HelloOnce(Stream'))
      /\ (NoHello(Stream) => NoHello(Stream'))
      /\ \A i \in 1..Len(Stream') : Stream'[i].part = "text" <=> agent.build = "banner"
  <2> DEFINE R == Stream'
             S == Stream
             t == agent.build = "banner"
  <2>1. Shorter(R, S)
    BY <1>1
  <2>2. Aligned(S) /\ \A i \in 1..Len(S) : S[i].part = "text" <=> t
    BY DEF StoryInv, StreamInv
  <2>3. t \in BOOLEAN
    OBVIOUS
  <2> HIDE DEF R, S, t
  <2>4. /\ Aligned(S) => Aligned(R)
        /\ HelloOnce(S) => HelloOnce(R)
        /\ NoHello(S) => NoHello(R)
    BY <2>1, RestInOrder
  <2>5. ASSUME NEW i \in 1..Len(R) PROVE R[i].part = "text" <=> t
    <3>1. Len(R) \in Nat /\ Len(S) \in Nat /\ Len(R) <= Len(S) /\ R[i] = S[i]
      BY <2>1 DEF Shorter
    <3>2. i \in 1..Len(S)
      BY <3>1
    <3> QED
      BY <2>2, <3>1, <3>2
  <2>6. Aligned(R)
    BY <2>2, <2>4
  <2> QED
    BY <2>4, <2>5, <2>6 DEF R, S, t
<1>5. StreamInv' /\ HelloInv'
  BY <1>2, <1>4 DEF StoryInv, StreamInv, HelloInv
<1>6. FirstInv' /\ NewerInv'
  BY <1>2, <1>3 DEF StoryInv, FirstInv, NewerInv, At
<1>7. KnownInv' /\ CountInv' /\ FramingIsKept'
  BY <1>2 DEF StoryInv, KnownInv, CountInv, FramingIsKept, At
<1>8. SaidInv'
  <2>1. stderr' # <<>> \/ (stderr' = stderr /\ spoke' = spoke)
    BY DEF Cut, LinkTypeOK
  <2> QED
    BY <2>1, <1>2 DEF StoryInv, SaidInv, At
<1> QED
  BY <1>5, <1>6, <1>7, <1>8 DEF StoryInv

---------------------------------------------------------------------------
\* What follows what was read.
LEMMA NextPiece ==
  ASSUME NEW R, NEW S, NEW n \in Nat \ {0}, Rest(R, S, n), Aligned(S)
  PROVE  /\ R # <<>> => /\ R[1].part = After[S[n].part]
                        /\ S[n].part \in {"head", "tail"} => R[1].of = S[n].of
         /\ Ended(S) /\ S[n].part \notin {"body", "text"} => R # <<>>
<1>1. n \in 1..Len(S) /\ Len(S) \in Nat /\ Len(R) \in Nat /\ Len(R) = Len(S) - n /\ S # <<>>
  BY DEF Rest
<1>2. ASSUME R # <<>>
      PROVE  /\ R[1].part = After[S[n].part]
             /\ S[n].part \in {"head", "tail"} => R[1].of = S[n].of
  <2>1. 1 \in 1..Len(R) /\ n \in 1..(Len(S) - 1)
    BY <1>1, <1>2 DEF Rest
  <2>2. R[1] = S[1 + n] /\ 1 + n = n + 1
    BY <2>1, <1>1 DEF Rest
  <2> QED
    BY <2>1, <2>2 DEF Aligned
<1>3. ASSUME Ended(S), S[n].part \notin {"body", "text"}
      PROVE  R # <<>>
  <2>1. n # Len(S)
    BY <1>1, <1>3 DEF Ended
  <2> QED
    BY <2>1, <1>1 DEF Rest
<1> QED
  BY <1>2, <1>3

\* What holds of the stream holds of what is left of it.
LEMMA RestOfStream ==
  ASSUME LinkTypeOK, StoryInv, NEW n, Rest(Stream', Stream, n), agent' = agent
  PROVE  /\ StreamInv'
         /\ (HelloOnce(Stream) => HelloOnce(Stream')) /\ (NoHello(Stream) => NoHello(Stream'))
<1>1. Aligned(Stream) /\ \A i \in 1..Len(Stream) : Stream[i].part = "text" <=> (agent.build = "banner")
  BY DEF StoryInv, StreamInv
<1>2. /\ Aligned(Stream') /\ (HelloOnce(Stream) => HelloOnce(Stream'))
      /\ (NoHello(Stream) => NoHello(Stream')) /\ (Ended(Stream) => Ended(Stream'))
      /\ \A i \in 1..Len(Stream') : Stream'[i].part = "text" <=> agent.build = "banner"
  <2> DEFINE R == Stream'
             S == Stream
             t == agent.build = "banner"
  <2>1. Rest(R, S, n) /\ Aligned(S) /\ \A i \in 1..Len(S) : S[i].part = "text" <=> t
    BY <1>1
  <2>2. t \in BOOLEAN
    OBVIOUS
  <2> HIDE DEF R, S, t
  <2>3. /\ Aligned(S) => Aligned(R)
        /\ HelloOnce(S) => HelloOnce(R)
        /\ NoHello(S) => NoHello(R)
        /\ Ended(S) => Ended(R)
    BY <2>1, RestInOrder
  <2>4. \A i \in 1..Len(R) : R[i].part = "text" <=> t
    BY <2>1, <2>2, RestInOrder
  <2>5. Aligned(R)
    BY <2>1, <2>3
  <2> QED
    BY <2>3, <2>4, <2>5 DEF R, S, t
<1> QED
  BY <1>2 DEF StoryInv, StreamInv

\* The handshake reads the first half of a header, or text, or finds the end.
LEMMA HandshakeKeeps ==
  ASSUME LinkTypeOK, StoryInv, ReadHandshake
  PROVE  StoryInv'
<1>0. /\ task.pc = "handshake" /\ far' = far /\ agent' = agent /\ errbuf' = errbuf /\ torn' = torn
      /\ failures' = failures /\ dry' = dry /\ spoke' = spoke /\ onHost' = onHost
      /\ task.s = NoSession /\ errbuf = "nothing" /\ agent.build = onHost
      /\ (spoke => stderr # <<>>)
  BY DEF ReadHandshake, outside, history, At, StoryInv, KnownInv, SaidInv
<1>1. CASE Closed /\ Goto("end") /\ near' = near
  <2>1. Stream' = Stream /\ ~agent.up
    BY <1>0, <1>1 DEF Stream, Closed
  <2>2. task'.pc = "end" /\ task'.s = task.s /\ task'.mode = task.mode
    BY <1>1 DEF Goto, LinkTypeOK
  <2>3. spoke => shown' # "closed"
    <3>1. stderr # <<>> => stderr[Len(stderr)] \in Said
      BY Takings DEF LinkTypeOK
    <3>2. shown' = IF stderr = <<>> THEN "closed" ELSE stderr[Len(stderr)]
      <4>1. near = <<>>
        BY <1>1 DEF Closed
      <4> QED
        BY <4>1 DEF ReadHandshake
    <3> QED
      BY <3>1, <3>2, <1>0 DEF Said
  <2>4. StreamInv' /\ HelloInv'
    BY <2>1, <2>2, <1>0 DEF StoryInv, StreamInv, HelloInv
  <2>5. FirstInv' /\ NewerInv' /\ KnownInv' /\ SaidInv'
    BY <2>1, <2>2, <2>3, <1>0 DEF StoryInv, FirstInv, NewerInv, KnownInv, SaidInv, At
  <2>6. CountInv' /\ FramingIsKept'
    BY <1>0 DEF StoryInv, CountInv, FramingIsKept
  <2> QED
    BY <2>4, <2>5, <2>6 DEF StoryInv
<1>2. CASE near # <<>> /\ near' = Tail(near) /\ stderr' = stderr
  <2>1. Rest(Stream', Stream, 1) /\ Stream[1] = Head(near) /\ Stream # <<>>
    BY <1>0, <1>2, Reading DEF Stream, LinkTypeOK
  <2>2. /\ StreamInv'
        /\ (HelloOnce(Stream) => HelloOnce(Stream')) /\ (NoHello(Stream) => NoHello(Stream'))
    BY <2>1, <1>0, RestOfStream
  <2>3. /\ Stream' # <<>> => /\ Stream'[1].part = After[Stream[1].part]
                             /\ Stream[1].part \in {"head", "tail"} => Stream'[1].of = Stream[1].of
        /\ Ended(Stream) /\ Stream[1].part \notin {"body", "text"} => Stream' # <<>>
    BY <2>1, NextPiece DEF StoryInv, StreamInv
  <2>4. /\ task'.pc = "header" /\ task'.mode = task.mode /\ ~task'.s.half /\ ~task'.s.hello
        /\ ~task'.s.checked /\ ~task'.s.delivered
        /\ \/ Stream[1].part = "head" /\ task'.s.pending
           \/ Stream[1].part = "text" /\ task'.s.text /\ ~task'.s.pending
    <3>1. \/ Head(near).part = "head" /\ task' = [task EXCEPT !.pc = "header", !.s.pending = TRUE]
          \/ Head(near).part = "text" /\ task' = [task EXCEPT !.pc = "header", !.s.text = TRUE]
      BY <1>2 DEF ReadHandshake, Closed
    <3>2. \/ Head(near).part = "head" /\ task'.s = [task.s EXCEPT !.pending = TRUE]
          \/ Head(near).part = "text" /\ task'.s = [task.s EXCEPT !.text = TRUE]
      BY <3>1 DEF LinkTypeOK
    <3>3. task'.pc = "header" /\ task'.mode = task.mode
      BY <3>1 DEF LinkTypeOK
    <3> QED
      BY <3>2, <3>3, <2>1, <1>0 DEF NoSession
  <2>5. Stream[1].part = "text" <=> agent.build = "banner"
    <3>1. 1 \in 1..Len(Stream)
      BY <2>1 DEF Rest
    <3> QED
      BY <3>1 DEF StoryInv, StreamInv
  <2>6. agent.up => Ended(Stream)
    BY DEF StoryInv, StreamInv
  <2>7. FirstInv'
    BY <2>3, <2>4, <2>5, <2>6, <1>0 DEF FirstInv, At, After
  <2>8. HelloInv'
    BY <2>2, <2>4, <1>0 DEF StoryInv, HelloInv
  <2>9. NewerInv'
    <3>1. agent.build = "newer" => Stream[1].part = "head" /\ task'.s.pending
      BY <2>4, <2>5
    <3>2. task.mode = "monitor" /\ agent.build = "newer" => Stream[1].of = "hello"
      BY <2>1, <1>0 DEF StoryInv, NewerInv, At, NoSession
    <3> QED
      BY <3>1, <3>2, <2>3, <2>4, <1>0 DEF NewerInv, At
  <2>10. KnownInv' /\ SaidInv' /\ CountInv' /\ FramingIsKept'
    BY <2>4, <1>0, <1>2 DEF StoryInv, KnownInv, SaidInv, CountInv, FramingIsKept, At
  <2> QED
    BY <2>2, <2>7, <2>8, <2>9, <2>10 DEF StoryInv
<1> QED
  BY <1>1, <1>2 DEF ReadHandshake

\* Behind the only piece there is nothing.
LEMMA TailOfOne ==
  ASSUME NEW T, NEW q \in Seq(T), Len(q) = 1
  PROVE  q # <<>> /\ Tail(q) = <<>>
<1>0. q # <<>>
  <2>1. Len(<<>>) = 0 /\ 0 # 1
    OBVIOUS
  <2> QED
    BY <2>1
<1>1. Tail(q) \in Seq(T) /\ Len(Tail(q)) = 0
  <2>1. Tail(q) \in Seq(T) /\ Len(Tail(q)) = Len(q) - 1
    BY <1>0
  <2>2. Len(q) - 1 = 0
    OBVIOUS
  <2> QED
    BY <2>1, <2>2
<1>2. \A r \in Seq(T) : Len(r) = 0 => r = <<>>
  OBVIOUS
<1> QED
  BY <1>0, <1>1, <1>2

\* The two halves of a header are read, at once or one after the other.
LEMMA HeaderKeeps ==
  ASSUME LinkTypeOK, StoryInv, ReadHeader
  PROVE  StoryInv'
<1> DEFINE need == IF task.s.pending \/ task.s.half THEN 1 ELSE 2
           good == near[need].part = "tail" /\ (need = 2 => near[1].part = "head")
<1>0. /\ task.pc = "header" /\ far' = far /\ agent' = agent /\ torn' = torn /\ stderr' = stderr
      /\ failures' = failures /\ dry' = dry /\ spoke' = spoke /\ onHost' = onHost /\ shown' = shown
      /\ need \in {1, 2}
  BY DEF ReadHeader, outside, history, At
<1>1. CASE Len(near) >= need /\ near' = SubSeq(near, need + 1, Len(near))
  <2>0. need \in 1..Len(near) /\ need \in Nat \ {0}
    <3>1. Len(near) \in Nat
      BY DEF LinkTypeOK
    <3> QED
      BY <3>1, <1>0, <1>1
  <2>1. /\ Rest(Stream', Stream, need) /\ Stream[need] = near[need]
        /\ Stream[1] = near[1] /\ Stream # <<>>
    <3> HIDE DEF need
    <3>1. near \in Seq(Pieces) /\ far \in Seq(Pieces) /\ 1 \in 1..Len(near) /\ near # <<>>
      BY <2>0 DEF LinkTypeOK
    <3>2. Stream' = SubSeq(near, need + 1, Len(near)) \o far
      BY <1>0, <1>1 DEF Stream
    <3> QED
      BY <3>1, <3>2, <2>0, Reading DEF Stream
  <2>2. /\ StreamInv'
        /\ (HelloOnce(Stream) => HelloOnce(Stream')) /\ (NoHello(Stream) => NoHello(Stream'))
    <3> HIDE DEF need
    <3> QED
      BY <2>1, <1>0, RestOfStream
  <2>3. /\ Stream' # <<>> => /\ Stream'[1].part = After[Stream[need].part]
                             /\ Stream[need].part \in {"head", "tail"} => Stream'[1].of = Stream[need].of
        /\ Ended(Stream) /\ Stream[need].part \notin {"body", "text"} => Stream' # <<>>
    <3> HIDE DEF need
    <3> QED
      BY <2>0, <2>1, NextPiece DEF StoryInv, StreamInv
  <2>4. \/ /\ good /\ errbuf' = errbuf
           /\ task' = [task EXCEPT !.pc = "body", !.s.pending = FALSE, !.s.half = FALSE]
        \/ /\ ~good /\ Stop(IF task.s.text THEN "text" ELSE "framing_lost")
    <3>1. ~(Len(near) = 1 /\ need = 2)
      <4> HIDE DEF need
      <4>1. Len(near) \in Nat
        BY DEF LinkTypeOK
      <4>2. \A n \in Nat : need \in 1..n => need <= n
        OBVIOUS
      <4>3. need <= Len(near)
        BY <2>0, <4>1, <4>2
      <4>4. need # 2 \/ Len(near) # 1
        <5> SUFFICES ASSUME need = 2, Len(near) = 1 PROVE FALSE
          OBVIOUS
        <5>1. 2 <= 1
          BY <4>3
        <5> QED
          BY <5>1
      <4> QED
        BY <4>4
    <3> QED
      BY <3>1 DEF ReadHeader
  <2>5. CASE good
    <3>1. /\ errbuf' = errbuf /\ task'.pc = "body" /\ task'.mode = task.mode
          /\ ~task'.s.pending /\ ~task'.s.half
          /\ task'.s.hello = task.s.hello /\ task'.s.checked = task.s.checked
          /\ task'.s.delivered = task.s.delivered
      <4>1. errbuf' = errbuf /\ task' = [task EXCEPT !.pc = "body", !.s.pending = FALSE, !.s.half = FALSE]
        BY <2>4, <2>5
      <4>2. /\ task'.pc = "body" /\ task'.mode = task.mode
            /\ task'.s = [task.s EXCEPT !.pending = FALSE, !.half = FALSE]
        BY <4>1 DEF LinkTypeOK
      <4>3. task.s \in Sessions
        BY DEF LinkTypeOK
      <4>4. ~task'.s.pending /\ ~task'.s.half
        BY <4>2, <4>3 DEF Sessions
      <4>5. /\ task'.s.hello = task.s.hello /\ task'.s.checked = task.s.checked
            /\ task'.s.delivered = task.s.delivered
        BY <4>2, <4>3 DEF Sessions
      <4> QED
        BY <4>1, <4>2, <4>4, <4>5
    <3>2. Stream[need].part = "tail"
      BY <2>1, <2>5
    <3> HIDE DEF need, good
    <3>3. FirstInv'
      BY <3>1, <3>2, <2>3, <1>0 DEF StoryInv, StreamInv, FirstInv, At, After
    <3>4. HelloInv' /\ CountInv' /\ FramingIsKept'
      BY <3>1, <2>2, <1>0 DEF StoryInv, HelloInv, CountInv, FramingIsKept
    <3>5. NewerInv'
      <4>1. task.mode = "monitor" /\ agent.build = "newer" /\ ~task.s.checked =>
              task.s.pending /\ Stream[1].of = "hello"
        BY <2>1, <1>0 DEF StoryInv, NewerInv, At
      <4>2. task.s.pending => need = 1
        BY DEF need
      <4> QED
        BY <4>1, <4>2, <3>1, <3>2, <2>3, <1>0 DEF NewerInv, At
    <3>6. KnownInv' /\ SaidInv'
      BY <3>1, <1>0 DEF StoryInv, KnownInv, SaidInv, At
    <3> QED
      BY <2>2, <3>3, <3>4, <3>5, <3>6 DEF StoryInv
  <2>6. CASE ~good
    <3>1. /\ errbuf' = IF task.s.text THEN "text" ELSE "framing_lost"
          /\ task'.pc = "report" /\ task'.mode = task.mode /\ task'.s = task.s
      BY <2>4, <2>6 DEF Stop, Goto, LinkTypeOK
    <3>2. ~torn /\ ~task.s.text => FALSE
      <4> SUFFICES ASSUME ~torn, ~task.s.text PROVE good
        BY <2>6
      <4>1. agent.build # "banner"
        BY <1>0 DEF StoryInv, FirstInv, At
      <4>2. CASE task.s.pending
        <5>1. Stream[1].part = "tail" /\ need = 1
          BY <4>2, <1>0, <2>1 DEF StoryInv, FirstInv, At
        <5> QED
          BY <5>1, <2>1
      <4>3. CASE ~task.s.pending /\ task.s.half
        <5>1. Stream[1].part = "tail" /\ need = 1
          BY <4>3, <4>1, <1>0, <2>1 DEF StoryInv, FirstInv, At
        <5> QED
          BY <5>1, <2>1
      <4>4. CASE ~task.s.pending /\ ~task.s.half
        <5>1. Stream[1].part = "head" /\ need = 2
          BY <4>4, <4>1, <1>0, <2>1 DEF StoryInv, FirstInv, At
        <5>2. Stream[1 + 1].part = After[Stream[1].part]
          <6>1. 1 \in 1..(Len(Stream) - 1)
            BY <5>1, <2>1 DEF Rest
          <6> QED
            BY <6>1 DEF StoryInv, StreamInv, Aligned
        <5>3. Stream[2].part = "tail"
          BY <5>1, <5>2 DEF After
        <5> QED
          BY <5>1, <5>3, <2>1
      <4> QED
        BY <4>2, <4>3, <4>4
    <3> HIDE DEF need, good
    <3>3. FirstInv' /\ NewerInv' /\ KnownInv' /\ SaidInv' /\ FramingIsKept'
      BY <3>1, <3>2, <1>0 DEF StoryInv, FirstInv, NewerInv, KnownInv, SaidInv, FramingIsKept, At
    <3>4. HelloInv' /\ CountInv'
      BY <3>1, <2>2, <1>0 DEF StoryInv, HelloInv, CountInv
    <3> QED
      BY <2>2, <3>3, <3>4 DEF StoryInv
  <2> QED
    BY <2>5, <2>6
<1>2. CASE ~(Len(near) >= need /\ near' = SubSeq(near, need + 1, Len(near)))
  <2>1. /\ Len(near) = 1 /\ need = 2 /\ near' = <<>> /\ errbuf' = errbuf
        /\ task' = [task EXCEPT !.s.half = TRUE]
    BY <1>2 DEF ReadHeader
  <2>2. /\ task'.pc = "header" /\ task'.mode = task.mode /\ task'.s.half
        /\ ~task.s.pending /\ ~task'.s.pending /\ ~task.s.half /\ task'.s.text = task.s.text
        /\ task'.s.hello = task.s.hello /\ task'.s.checked = task.s.checked
        /\ task'.s.delivered = task.s.delivered
    <3>1. /\ task'.pc = "header" /\ task'.mode = task.mode
          /\ task'.s = [task.s EXCEPT !.half = TRUE]
      BY <2>1, <1>0 DEF LinkTypeOK
    <3>2. task.s \in Sessions
      BY DEF LinkTypeOK
    <3> QED
      BY <3>1, <3>2, <2>1 DEF Sessions
  <2>3. near # <<>> /\ near' = Tail(near)
    <3>1. near \in Seq(Pieces)
      BY DEF LinkTypeOK
    <3>2. Len(near) = 1
      BY <2>1
    <3>3. near # <<>> /\ Tail(near) = <<>>
      BY <3>1, <3>2, TailOfOne
    <3> QED
      BY <3>1, <3>3, <2>1
  <2>4. Rest(Stream', Stream, 1) /\ Stream # <<>>
    BY <1>0, <2>3, Reading DEF Stream, LinkTypeOK
  <2>5. /\ StreamInv'
        /\ (HelloOnce(Stream) => HelloOnce(Stream')) /\ (NoHello(Stream) => NoHello(Stream'))
    BY <2>4, <1>0, RestOfStream
  <2>6. /\ Stream' # <<>> => Stream'[1].part = After[Stream[1].part]
        /\ Ended(Stream) /\ Stream[1].part \notin {"body", "text"} => Stream' # <<>>
    BY <2>4, NextPiece DEF StoryInv, StreamInv
  <2> HIDE DEF need, good
  <2>7. FirstInv'
    BY <2>2, <2>4, <2>6, <1>0 DEF StoryInv, StreamInv, FirstInv, At, After
  <2>8. HelloInv' /\ CountInv'
    BY <2>2, <2>5, <1>0 DEF StoryInv, HelloInv, CountInv
  <2>9. NewerInv' /\ KnownInv' /\ SaidInv' /\ FramingIsKept'
    BY <2>1, <2>2, <1>0 DEF StoryInv, NewerInv, KnownInv, SaidInv, FramingIsKept, At
  <2> QED
    BY <2>5, <2>7, <2>8, <2>9 DEF StoryInv
<1> QED
  BY <1>1, <1>2

---------------------------------------------------------------------------
\* Behind the one Hello there is no other.
LEMMA AfterHello ==
  ASSUME NEW R, NEW S, Rest(R, S, 1), HelloOnce(S), S[1].part = "body", S[1].of = "hello"
  PROVE  NoHello(R)
<1> SUFFICES ASSUME NEW i \in 1..Len(R) PROVE R[i].of # "hello"
  BY DEF NoHello
<1>1. R[i] = S[i + 1] /\ 1 \in 1..Len(S) /\ i + 1 \in 1..Len(S) /\ 1 < i + 1
  BY DEF Rest
<1> QED
  BY <1>1 DEF HelloOnce

\* What a monitor makes of a packet.
LEMMA Verdicts ==
  ASSUME NEW p \in {"hello", "frame"}, NEW s \in Sessions
  PROVE  /\ Verdict(p, s) = "duplicate" => p = "hello" /\ s.hello
         /\ Verdict(p, s) = "skip" => /\ p = "hello" /\ agent.build # "invalid"
                                      /\ s.checked \/ agent.build \notin {"older", "incompatible"}
         /\ Verdict(p, s) = "proceed" => s.checked \/ agent.build \in {"same", "no_version"}
         /\ Verdict(p, s) = "mismatch" =>
              \/ agent.build \in {"invalid", "older", "incompatible"}
              \/ p = "frame" /\ ~s.checked
<1>1. CASE p = "hello" /\ s.hello
  <2>1. Verdict(p, s) = "duplicate"
    BY <1>1 DEF Verdict
  <2> QED
    BY <1>1, <2>1
<1>2. CASE p = "hello" /\ ~s.hello /\ agent.build = "invalid"
  <2>1. Verdict(p, s) = "mismatch"
    BY <1>2 DEF Verdict
  <2> QED
    BY <1>2, <2>1
<1>3. CASE p = "hello" /\ ~s.hello /\ agent.build # "invalid"
  <2>1. Verdict(p, s) = IF ~s.checked /\ NeedsReplacement(agent.build) THEN "mismatch" ELSE "skip"
    BY <1>3 DEF Verdict
  <2> QED
    BY <1>3, <2>1 DEF NeedsReplacement
<1>4. CASE p = "frame"
  <2>1. Verdict(p, s) = IF ~s.checked /\ Outdated(agent.build) THEN "mismatch" ELSE "proceed"
    BY <1>4 DEF Verdict
  <2> QED
    BY <1>4, <2>1 DEF Outdated
<1> QED
  BY <1>1, <1>2, <1>3, <1>4

\* A packet is read.
LEMMA BodyKeeps ==
  ASSUME LinkTypeOK, StoryInv, ReadBody
  PROVE  StoryInv'
<1> DEFINE p == Head(near).of
<1>0. /\ task.pc = "body" /\ far' = far /\ agent' = agent /\ torn' = torn /\ stderr' = stderr
      /\ failures' = failures /\ dry' = dry /\ spoke' = spoke /\ onHost' = onHost
      /\ near # <<>> /\ near' = Tail(near) /\ agent.build = onHost
      /\ ~task.s.pending /\ ~task.s.half /\ task.s \in Sessions
  BY DEF ReadBody, outside, history, At, StoryInv, KnownInv, FirstInv, LinkTypeOK
<1>1. /\ Rest(Stream', Stream, 1) /\ Stream # <<>>
      /\ Stream[1].part = "body" /\ Stream[1].of = p /\ p \in {"hello", "frame"}
  <2>1. Rest(Stream', Stream, 1) /\ Stream[1] = Head(near) /\ Stream # <<>>
    BY <1>0, Reading DEF Stream, LinkTypeOK
  <2>2. Stream[1].part = "body"
    BY <2>1, <1>0 DEF StoryInv, FirstInv, At
  <2>3. Head(near) \in Pieces
    BY <1>0, Takings DEF LinkTypeOK
  <2> QED
    BY <2>1, <2>2, <2>3, PieceTypes
<1>2. /\ StreamInv'
      /\ (HelloOnce(Stream) => HelloOnce(Stream')) /\ (NoHello(Stream) => NoHello(Stream'))
  BY <1>0, <1>1, RestOfStream
<1>3. /\ Stream' # <<>> => Stream'[1].part = "head"
      /\ agent.build # "banner"
  <2>1. Stream' # <<>> => Stream'[1].part = After[Stream[1].part]
    BY <1>1, NextPiece DEF StoryInv, StreamInv
  <2>2. 1 \in 1..Len(Stream)
    BY <1>1 DEF Rest
  <2> QED
    BY <1>1, <2>1, <2>2 DEF After, StoryInv, StreamInv
<1>4. ~NoHello(Stream) \/ p = "frame"
  <2>1. 1 \in 1..Len(Stream)
    BY <1>1 DEF Rest
  <2> QED
    BY <1>1, <2>1 DEF NoHello
<1>5. p = "hello" /\ HelloOnce(Stream) => NoHello(Stream')
  BY <1>1, AfterHello
<1>6. CASE Stop("unreadable")
  <2>1. errbuf' = "unreadable" /\ task'.pc = "report" /\ task'.mode = task.mode /\ task'.s = task.s
    BY <1>6 DEF Stop, Goto, LinkTypeOK
  <2> HIDE DEF p
  <2>2. HelloInv' /\ CountInv'
    BY <1>0, <1>2, <2>1 DEF StoryInv, HelloInv, CountInv
  <2>3. FirstInv' /\ NewerInv' /\ KnownInv' /\ SaidInv' /\ FramingIsKept'
    BY <1>0, <2>1 DEF StoryInv, FirstInv, NewerInv, KnownInv, SaidInv, FramingIsKept, At
  <2> QED
    BY <1>2, <2>2, <2>3 DEF StoryInv
<1>7. CASE task.mode = "once" /\ ReadOnce(p) /\ errbuf' = errbuf
  <2>1. /\ task'.pc = "header" /\ task'.mode = "once" /\ ~task'.s.pending /\ ~task'.s.half
        /\ task'.s.hello = task.s.hello
    <3>1. task' = [task EXCEPT !.pc = "header", !.s.delivered = (task.s.delivered \/ p = "frame")]
      BY <1>7, <1>0 DEF ReadOnce, LinkTypeOK, Sessions
    <3>2. /\ task'.pc = "header" /\ task'.mode = task.mode
          /\ task'.s = [task.s EXCEPT !.delivered = (task.s.delivered \/ p = "frame")]
      BY <3>1 DEF LinkTypeOK
    <3> HIDE DEF p
    <3> QED
      BY <3>2, <1>0, <1>7 DEF Sessions
  <2> HIDE DEF p
  <2>2. HelloInv' /\ CountInv'
    BY <1>0, <1>2, <2>1 DEF StoryInv, HelloInv, CountInv
  <2>3. FirstInv' /\ NewerInv' /\ KnownInv' /\ SaidInv' /\ FramingIsKept'
    BY <1>0, <1>3, <1>7, <2>1 DEF StoryInv, FirstInv, NewerInv, KnownInv, SaidInv, FramingIsKept, At
  <2> QED
    BY <1>2, <2>2, <2>3 DEF StoryInv
<1>8. CASE task.mode = "monitor" /\ ReadMonitor(p) /\ errbuf' = errbuf
  <2> DEFINE v == Verdict(p, task.s)
             s == Known(p, task.s)
  <2>1. /\ s.pending = task.s.pending /\ s.half = task.s.half
        /\ s.delivered = task.s.delivered
        /\ s.hello = (task.s.hello \/ p = "hello")
        /\ s.checked = (task.s.checked \/ p # "hello" \/ agent.build # "invalid")
        /\ s \in Sessions
    <3> HIDE DEF p
    <3>1. s = [task.s EXCEPT !.hello = (task.s.hello \/ p = "hello"),
                     !.checked = (task.s.checked \/ p # "hello" \/ agent.build # "invalid")]
      BY <1>0 DEF Known, Sessions
    <3>2. /\ (task.s.hello \/ p = "hello") \in BOOLEAN
          /\ (task.s.checked \/ p # "hello" \/ agent.build # "invalid") \in BOOLEAN
      OBVIOUS
    <3>3. s \in Sessions
      BY <3>1, <3>2, <1>0, SessionTypes
    <3>4. /\ s.pending = task.s.pending /\ s.half = task.s.half
          /\ s.delivered = task.s.delivered
      BY <3>1, <1>0 DEF Sessions
    <3>5. /\ s.hello = (task.s.hello \/ p = "hello")
          /\ s.checked = (task.s.checked \/ p # "hello" \/ agent.build # "invalid")
      BY <3>1, <1>0 DEF Sessions
    <3> QED
      BY <3>3, <3>4, <3>5
  <2>2. /\ v = "duplicate" => p = "hello" /\ task.s.hello
        /\ v = "skip" => /\ p = "hello" /\ agent.build # "invalid"
                         /\ task.s.checked \/ agent.build \notin {"older", "incompatible"}
        /\ v = "proceed" => task.s.checked \/ agent.build \in {"same", "no_version"}
        /\ v = "mismatch" => \/ agent.build \in {"invalid", "older", "incompatible"}
                             \/ p = "frame" /\ ~task.s.checked
    BY <1>0, <1>1, Verdicts
  <2>3. /\ task'.mode = task.mode
        /\ \/ v = "skip" /\ task'.pc = "header" /\ task'.s = s
           \/ v = "proceed" /\ task'.pc = "header" /\ task'.s = [s EXCEPT !.delivered = TRUE]
           \/ v = "mismatch" /\ task'.pc = "replace" /\ task'.s = [s EXCEPT !.mismatch = TRUE]
           \/ v = "duplicate" /\ task'.pc = "report" /\ task'.s = s
    <3>1. \/ v = "skip" /\ task' = [task EXCEPT !.pc = "header", !.s = s]
          \/ v = "proceed" /\ task' = [task EXCEPT !.pc = "header", !.s = [s EXCEPT !.delivered = TRUE]]
          \/ v = "mismatch" /\ task' = [task EXCEPT !.pc = "replace", !.s = [s EXCEPT !.mismatch = TRUE]]
          \/ v = "duplicate" /\ task' = [task EXCEPT !.pc = "report", !.s = s]
      BY <1>8 DEF ReadMonitor, On
    <3> HIDE DEF v, s
    <3> QED
      BY <3>1, ZenonT(60) DEF LinkTypeOK
  <2> HIDE DEF v, s, p
  <2>4. /\ ~task'.s.pending /\ ~task'.s.half
        /\ task'.s.hello = (task.s.hello \/ p = "hello")
        /\ task'.s.checked = (task.s.checked \/ p # "hello" \/ agent.build # "invalid")
        /\ task'.s.delivered => task.s.delivered \/ v = "proceed"
    <3>1. /\ task'.s.pending = s.pending /\ task'.s.half = s.half /\ task'.s.hello = s.hello
          /\ task'.s.checked = s.checked
          /\ task'.s.delivered => s.delivered \/ v = "proceed"
      BY <2>1, <2>3 DEF Sessions
    <3> QED
      BY <3>1, <2>1, <1>0
  <2>5. HelloInv'
    <3>1. ASSUME agent.build # "repeats", task'.s.hello
          PROVE  NoHello(Stream') /\ agent.greeted
      <4>1. CASE task.s.hello
        BY <4>1, <3>1, <1>2 DEF StoryInv, HelloInv
      <4>2. CASE p = "hello"
        BY <4>2, <3>1, <1>4, <1>5 DEF StoryInv, HelloInv
      <4> QED
        BY <4>1, <4>2, <3>1, <2>4
    <3> QED
      BY <3>1, <1>0, <1>2 DEF StoryInv, HelloInv
  <2>6. FirstInv'
    BY <1>0, <1>3, <2>3, <2>4 DEF FirstInv, At
  <2>7. agent.build = "newer" => task'.s.checked
    BY <2>4
  <2>8. NewerInv'
    BY <2>7, <1>0 DEF NewerInv
  <2>9. task.s.checked => agent.build \notin Refused
    BY <1>0, <1>8 DEF StoryInv, KnownInv
  <2>10. v = "skip" => agent.build \notin Refused
    <3>1. p = "hello" => agent.build # "no_hello"
      BY <1>4 DEF StoryInv, HelloInv
    <3> QED
      BY <3>1, <2>2, <2>9 DEF Refused
  <2>11. v = "proceed" => agent.build \notin Refused
    BY <2>2, <2>9 DEF Refused
  <2>12. v = "mismatch" => onHost # "newer"
    <3>1. agent.build = "newer" /\ ~task.s.checked => p = "hello"
      BY <1>0, <1>1, <1>8 DEF StoryInv, NewerInv
    <3> QED
      BY <3>1, <2>2, <1>0
  <2>13. task.s.delivered => agent.build \notin Refused
    BY <1>8 DEF StoryInv, KnownInv
  <2>14. KnownInv'
    BY <1>0, <2>3, <2>4, <2>10, <2>11, <2>12, <2>13 DEF KnownInv, At
  <2>15. SaidInv'
    <3>1. v = "duplicate" => agent.build = "repeats"
      BY <2>2, <1>4 DEF StoryInv, HelloInv
    <3> QED
      BY <3>1, <2>3, <1>0, <1>8 DEF StoryInv, SaidInv, At
  <2>16. CountInv' /\ FramingIsKept'
    BY <1>0, <1>8 DEF StoryInv, CountInv, FramingIsKept
  <2> QED
    BY <1>2, <2>5, <2>6, <2>8, <2>14, <2>15, <2>16 DEF StoryInv
<1>9. task.mode \in {"monitor", "once"}
  BY DEF LinkTypeOK
<1> QED
  BY <1>6, <1>7, <1>8, <1>9 DEF ReadBody

\* The agent writes a packet, or text, behind what it has written.
LEMMA EmitKeeps ==
  ASSUME LinkTypeOK, StoryInv, Emit
  PROVE  StoryInv'
<1>0. /\ agent.up /\ far = <<>> /\ near' = near /\ task' = task /\ errbuf' = errbuf
      /\ shown' = shown /\ onHost' = onHost /\ torn' = torn /\ stderr' = stderr /\ spoke' = spoke
      /\ failures' = failures /\ dry' = dry /\ agent'.build = agent.build
  <2>1. agent'.build = agent.build
    BY DEF Emit, LinkTypeOK
  <2> QED
    BY <2>1 DEF Emit, history
<1>1. ASSUME NEW q \in Seq(Pieces), far' = q
      PROVE  Extended(Stream', Stream, q)
  <2>1. near \in Seq(Pieces) /\ far \in Seq(Pieces)
    BY DEF LinkTypeOK
  <2>2. Extended(near \o q, near \o far, q)
    BY <2>1, <1>0, Reading
  <2>3. Stream' = near \o q /\ Stream = near \o far
    BY <1>0, <1>1 DEF Stream
  <2> QED
    BY <2>2, <2>3
<1>2. /\ Aligned(Stream) /\ Ended(Stream)
      /\ \A i \in 1..Len(Stream) : Stream[i].part = "text" <=> agent.build = "banner"
  BY <1>0 DEF StoryInv, StreamInv
<1>3. KnownInv' /\ CountInv' /\ FramingIsKept' /\ SaidInv'
  BY <1>0 DEF StoryInv, KnownInv, CountInv, FramingIsKept, SaidInv, At
<1>4. CASE agent.build = "banner"
  <2>1. far' = LinkText /\ agent'.greeted /\ agent'.up = agent.up
    BY <1>4 DEF Emit, LinkTypeOK
  <2>2. Extended(Stream', Stream, LinkText)
    BY <2>1, <1>1, PacketTypes
  <2>3. /\ Aligned(Stream') /\ Ended(Stream') /\ Stream' # <<>> /\ NoHello(Stream')
        /\ HelloOnce(Stream') /\ \A i \in 1..Len(Stream') : Stream'[i].part = "text"
        /\ Stream'[1].part = "text"
    BY <1>2, <1>4, <2>2, TextBehind
  <2>4. StreamInv'
    BY <2>3, <1>0, <1>4 DEF StreamInv
  <2>5. HelloInv' /\ NewerInv'
    BY <2>1, <2>3, <1>0, <1>4 DEF HelloInv, NewerInv
  <2>6. Stream # <<>> => Stream[1].part = "text"
    <3>1. Stream # <<>> => 1 \in 1..Len(Stream)
      BY <2>2 DEF Extended
    <3> QED
      BY <3>1, <1>2, <1>4
  <2>7. FirstInv'
    BY <2>1, <2>3, <2>6, <1>0, <1>4 DEF StoryInv, FirstInv, At
  <2> QED
    BY <1>3, <2>4, <2>5, <2>7 DEF StoryInv
<1>5. CASE agent.build # "banner"
  <2>1. PICK k \in {"hello", "frame"} :
          /\ far' = MonitorPacket(k)
          /\ k = "hello" => Greets /\ ~agent.greeted
          /\ k = "frame" => (Greets => agent.greeted)
          /\ k = "hello" => agent'.greeted = (agent.greeted \/ agent.build # "repeats")
          /\ k = "frame" => agent'.greeted = agent.greeted
    <3>1. \/ /\ far' = MonitorPacket("hello") /\ Greets /\ ~agent.greeted
             /\ agent'.greeted = (agent.greeted \/ agent.build # "repeats")
          \/ /\ far' = MonitorPacket("frame") /\ (Greets => agent.greeted)
             /\ agent'.greeted = agent.greeted
      BY <1>5 DEF Emit, LinkTypeOK
    <3> QED
      BY <3>1
  <2>2. Extended(Stream', Stream, MonitorPacket(k))
    BY <2>1, <1>1, PacketTypes
  <2>3. \A i \in 1..Len(Stream) : Stream[i].part # "text"
    BY <1>2, <1>5
  <2>4. /\ Aligned(Stream') /\ Ended(Stream') /\ \A i \in 1..Len(Stream') : Stream'[i].part # "text"
        /\ NoHello(Stream) => HelloOnce(Stream')
        /\ k = "frame" => (NoHello(Stream) => NoHello(Stream')) /\ (HelloOnce(Stream) => HelloOnce(Stream'))
        /\ Stream' # <<>>
        /\ Stream'[1] = IF Stream = <<>> THEN [part |-> "head", of |-> k] ELSE Stream[1]
    BY <2>2, <2>3, <1>2, PacketBehind
  <2>5. StreamInv'
    BY <2>4, <1>0, <1>5 DEF StreamInv
  <2>6. FirstInv'
    BY <2>4, <1>0, <1>5 DEF StoryInv, FirstInv, At
  <2>7. HelloInv'
    <3>1. CASE k = "hello"
      <4>1. agent.build # "repeats" => NoHello(Stream) /\ ~task.s.hello /\ agent'.greeted
        BY <3>1, <2>1 DEF StoryInv, HelloInv
      <4>2. agent.build # "no_hello"
        BY <3>1, <2>1 DEF Greets
      <4> QED
        BY <4>1, <4>2, <2>4, <1>0 DEF HelloInv
    <3>2. CASE k = "frame"
      <4>1. agent'.greeted = agent.greeted
        BY <3>2, <2>1 DEF LinkTypeOK
      <4> QED
        BY <3>2, <4>1, <2>4, <1>0 DEF StoryInv, HelloInv
    <3> QED
      BY <3>1, <3>2
  <2>8. NewerInv'
    <3> SUFFICES ASSUME task.mode = "monitor", agent.build = "newer", ~task.s.checked
                 PROVE  /\ At("handshake") /\ agent'.up /\ agent'.greeted => Stream' # <<>>
                        /\ At("header") => task.s.pending
                        /\ task.pc \in {"handshake", "header", "body"} /\ Stream' # <<>>
                             => Stream'[1].of = "hello"
      BY <1>0 DEF NewerInv, At
    <3>1. /\ At("handshake") /\ agent.greeted => Stream # <<>>
          /\ At("header") => task.s.pending
          /\ task.pc \in {"handshake", "header", "body"} /\ Stream # <<>> => Stream[1].of = "hello"
      BY <1>0 DEF StoryInv, NewerInv
    <3>2. task.pc \in {"header", "body"} => Stream # <<>>
      BY <3>1, <1>0 DEF StoryInv, FirstInv, At
    <3>3. k = "frame" => agent.greeted
      BY <2>1 DEF Greets
    <3> QED
      BY <3>1, <3>2, <3>3, <2>4 DEF At
  <2> QED
    BY <1>3, <2>5, <2>6, <2>7, <2>8 DEF StoryInv
<1> QED
  BY <1>4, <1>5

---------------------------------------------------------------------------
\* What the task, the agent and the connection keep between them.
THEOREM LinkInvariant == LinkSpec => []LinkInv
<1>1. LinkInit => LinkInv
  <2> SUFFICES ASSUME LinkInit PROVE LinkInv
    OBVIOUS
  <2>1. LinkTypeOK
    <3>1. NoSession \in Sessions
      BY DEF NoSession, Sessions
    <3>2. "connect" \in LinkPcs /\ "nothing" \in Reasons /\ "nothing" \in Shows
      BY DEF LinkPcs, Reasons, Shows
    <3>3. task \in [mode : {"monitor", "once"}, pc : LinkPcs, s : Sessions]
      BY <3>1, <3>2 DEF LinkInit
    <3>4. /\ far \in Seq(Pieces) /\ near \in Seq(Pieces)
          /\ stderr \in Seq(Said) /\ stdin \in Seq({1, 2})
      BY DEF LinkInit
    <3>5. agent \in [up : BOOLEAN, build : Agents \cup {"same"}, size : 0..2, greeted : BOOLEAN]
      BY DEF LinkInit, Down
    <3>6. linkPanel \in [size : {1, 2}, resizes : Nat]
      BY DEF LinkInit
    <3>7. /\ failures \in 0..(MaxFailures + 1) /\ dry \in 0..(MaxFailures + 1) /\ told \in 0..2
          /\ spoke \in BOOLEAN /\ torn \in BOOLEAN /\ onHost \in Agents
      <4>1. failures = 0 /\ dry = 0 /\ told = 0 /\ spoke = FALSE /\ torn = FALSE /\ onHost \in Agents
        BY DEF LinkInit
      <4>2. MaxFailures \in Nat
        BY LinkAssumption
      <4>3. 0 \in 0..(MaxFailures + 1) /\ 0 \in 0..2
        BY <4>2
      <4>4. spoke \in BOOLEAN /\ torn \in BOOLEAN
        BY <4>1
      <4> QED
        BY <4>1, <4>3, <4>4
    <3>8. errbuf \in Reasons /\ shown \in Shows
      BY <3>2 DEF LinkInit
    <3> QED
      BY <3>3, <3>4, <3>5, <3>6, <3>7, <3>8 DEF LinkTypeOK
  <2>2. Stream = <<>> /\ task.pc = "connect" /\ task.s = NoSession /\ ~agent.up /\ agent.build = "same"
    BY DEF LinkInit, Stream, Down
  <2>3. /\ Aligned(Stream) /\ Ended(Stream) /\ HelloOnce(Stream) /\ NoHello(Stream)
        /\ \A i \in 1..Len(Stream) : FALSE
    BY <2>2, EmptyInOrder
  <2>4. StreamInv /\ HelloInv
    BY <2>2, <2>3 DEF StreamInv, HelloInv, NoSession
  <2>5. FirstInv /\ NewerInv /\ KnownInv /\ SaidInv
    BY <2>2 DEF FirstInv, NewerInv, KnownInv, SaidInv, At, NoSession, Refused
  <2>6. CountInv /\ FramingIsKept
    BY DEF LinkInit, CountInv, FramingIsKept
  <2> QED
    BY <2>1, <2>4, <2>5, <2>6 DEF LinkInv, StoryInv
<1>2. LinkInv /\ [LinkNext]_linkVars => LinkInv'
  <2> SUFFICES ASSUME LinkInv, [LinkNext]_linkVars PROVE LinkInv'
    OBVIOUS
  <2>1. LinkTypeOK'
    BY LinkTypes DEF LinkInv
  <2>2. CASE LinkNext
    <3>1. StoryInv'
      BY <2>2, StillKeeps, GoesOn, StderrKeeps, ConnectKeeps, EndKeeps, CutLinkKeeps,
         HandshakeKeeps, HeaderKeeps, BodyKeeps, EmitKeeps DEF LinkInv, LinkNext, ReadOn
    <3> QED
      BY <2>1, <3>1 DEF LinkInv
  <2>3. CASE UNCHANGED linkVars
    <3>1. Stream' = Stream
      BY <2>3 DEF linkVars, Stream
    <3>2. StreamInv' /\ HelloInv'
      BY <2>3, <3>1 DEF LinkInv, StoryInv, StreamInv, HelloInv, linkVars
    <3>3. FirstInv' /\ NewerInv'
      BY <2>3, <3>1 DEF LinkInv, StoryInv, FirstInv, NewerInv, linkVars, At
    <3>4. KnownInv' /\ SaidInv' /\ CountInv' /\ FramingIsKept'
      BY <2>3 DEF LinkInv, StoryInv, KnownInv, SaidInv, CountInv, FramingIsKept, linkVars, At
    <3> QED
      BY <2>1, <3>2, <3>3, <3>4 DEF LinkInv, StoryInv
  <2> QED
    BY <2>2, <2>3
<1> QED
  BY <1>1, <1>2, PTL DEF LinkSpec

\* The link's variables keep their types.
THEOREM LinkTypeCorrect == LinkSpec => []LinkTypeOK
<1>1. LinkInv => LinkTypeOK
  BY DEF LinkInv
<1> QED
  BY <1>1, LinkInvariant, PTL

\* drain_stderr: an end is shown as a mere close only when nobody said why.
THEOREM EndsAreExplained == LinkSpec => []EndIsExplained
<1>1. LinkInv => EndIsExplained
  BY DEF LinkInv, StoryInv, SaidInv, EndIsExplained
<1> QED
  BY <1>1, LinkInvariant, PTL

\* handshake_verdict: a panel shows no frame of an agent older than the program.
THEOREM NoOlderFrames == LinkSpec => []NoFrameOfAnOlder
<1>1. LinkInv => NoFrameOfAnOlder
  BY DEF LinkInv, StoryInv, KnownInv, NoFrameOfAnOlder, Refused
<1> QED
  BY <1>1, LinkInvariant, PTL

\* read_packet: the stream loses its framing only to text in its place, or to a line of
\* stderr between the halves of a header.
THEOREM FramingHolds == LinkSpec => []FramingIsKept
<1>1. LinkInv => FramingIsKept
  BY DEF LinkInv, StoryInv
<1> QED
  BY <1>1, LinkInvariant, PTL

\* reconnect_wait: the wait grows with the sessions that delivered nothing.
THEOREM TheWaitGrows == LinkSpec => []BackoffGrows
<1>1. LinkInv => BackoffGrows
  <2> SUFFICES ASSUME LinkInv PROVE BackoffGrows
    OBVIOUS
  <2>1. dry \in Nat /\ failures \in Nat /\ MaxFailures \in Nat /\ dry <= failures /\ failures <= dry + 1
    BY LinkAssumption DEF LinkInv, LinkTypeOK, StoryInv, CountInv
  <2> QED
    BY <2>1 DEF BackoffGrows, Least
<1> QED
  BY <1>1, LinkInvariant, PTL

\* needs_replacement: a newer agent whose Hello is compatible is never replaced by
\* an older one; a panel that got as far as replacing has read another one's word.
THEOREM NewerStays == LinkSpec => NeverDowngrades
<1>1. LinkInv /\ [LinkNext]_linkVars => [onHost = "newer" => onHost' = "newer"]_linkVars
  <2> SUFFICES ASSUME LinkInv, LinkNext, onHost = "newer" PROVE onHost' = "newer"
    OBVIOUS
  <2>1. ~Replace
    BY DEF Replace, LinkInv, StoryInv, KnownInv
  <2> QED
    BY <2>1 DEF LinkNext, ReadOn, Connect, ReadHandshake, ReadHeader, ReadLinkStderr,
       EndInHeader, EndInBody, ReadBody, Report, End, Wake, Emit, BannerEnds, Arrive, Resized,
       Chatter, Cut, ResizePanel, outside
<1> QED
  BY <1>1, LinkInvariant, PTL DEF LinkSpec, NeverDowngrades
=============================================================================
