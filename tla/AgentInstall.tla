---------------------------- MODULE AgentInstall ----------------------------
(***************************************************************************)
(* Starting the agent on a host, and installing it there when it is not    *)
(* (ssh/command.rs, ssh/spawn.rs, stream/prod.rs, tasks/upgrade.rs,        *)
(* tasks/exec_runner.rs, run/spawn.rs).                                    *)
(*                                                                         *)
(* An upload is a shell command on the host: `cat` into a staging file,    *)
(* compare the size, chmod, mv, or else rm.  Several may run on one host:  *)
(* other panels, other tasks, other multitops of other builds.  A file is  *)
(* two halves of an agent; its length is that of the furthest write, and   *)
(* what was skipped is a hole.                                             *)
(***************************************************************************)
EXTENDS Naturals, FiniteSets

CONSTANTS
  Comers,    \* those who want the agent there
  Build,     \* the build each comes from: the hash of its agents
  Token,     \* what makes each one's staging name its own
  Errand,    \* "connect" for connect(), "replace" for replace_agent
  NoFile     \* nothing at a path

Builds == {Build[c] : c \in Comers}

ASSUME InstallAssumption ==
  /\ NoFile \notin Comers
  /\ Errand \in [Comers -> {"connect", "replace"}]

VARIABLES
  installed, \* the file at agent-{hash}, by build
  staging,  \* the files at agent-{hash}.{token}
  files,    \* every file made: its halves, its length and whether it may run
  comer,    \* where each one is, its attempt, its open file, its offset
  cut,      \* those whose connection is gone
  shared,   \* history: two uploads had one staging name at the same time
  swept     \* history: those whose staging file a sweep removed

installVars == <<installed, staging, files, comer, cut, shared, swept>>

Name(c) == <<Build[c], Token[c]>>
Names == {Name(c) : c \in Comers}
Empty == [halves |-> {}, len |-> 0, x |-> FALSE]
WholeBuild(f) == files[f].halves = {1, 2}

InstallInit ==
  /\ installed = [b \in Builds |-> NoFile]
  /\ staging = [n \in Names |-> NoFile]
  /\ files = [c \in Comers |-> Empty]
  /\ comer = [c \in Comers |-> [pc |-> "idle", attempt |-> 0, fd |-> NoFile, at |-> 0]]
  /\ cut = {} /\ shared = FALSE /\ swept = {}

ComerAt(c, pcs) == comer[c].pc \in pcs
ComerGoto(c, pc) == comer' = [comer EXCEPT ![c].pc = pc]

\* An upload from the moment its staging file is opened to its mv or rm.
Uploading(c) == ComerAt(c, {"cat", "size", "chmod", "mv", "rm"})

---------------------------------------------------------------------------
\* connect() starts the bootstrap script; replace_agent goes straight to the
\* upload.
Come(c) ==
  /\ ComerAt(c, {"idle"})
  /\ ComerGoto(c, IF Errand[c] = "connect" THEN "test" ELSE "open")
  /\ UNCHANGED <<installed, staging, files, cut, shared, swept>>

\* The bootstrap script: [ -x agent ], or ask for it.  bootstrap(): an agent
\* that is still asked for after an install is a failure.
Bootstrap(c) ==
  /\ ComerAt(c, {"test"})
  /\ LET f == installed[Build[c]]
     IN IF f # NoFile /\ files[f].x
          THEN ComerGoto(c, "exec")
          ELSE ComerGoto(c, IF comer[c].attempt = 0 THEN "open" ELSE "unstarted")
  /\ UNCHANGED <<installed, staging, files, cut, shared, swept>>

\* exec: it may be gone by now, or still be written to.
Exec(c) ==
  /\ ComerAt(c, {"exec"})
  /\ LET f == installed[Build[c]]
     IN ComerGoto(c, IF f = NoFile \/ ~WholeBuild(f) \/ \E d \in Comers : comer[d].fd = f
                  THEN "broken" ELSE "framed")
  /\ UNCHANGED <<installed, staging, files, cut, shared, swept>>

---------------------------------------------------------------------------
\* upload_command: mkdir -p && cat > staging, which makes the file or empties
\* the one that is there.
OpenStaging(c) ==
  /\ ComerAt(c, {"open"})
  /\ LET f == IF staging[Name(c)] = NoFile THEN c ELSE staging[Name(c)]
     IN /\ staging' = [staging EXCEPT ![Name(c)] = f]
        /\ files' = [files EXCEPT ![f].halves = {}, ![f].len = 0]
        /\ comer' = [comer EXCEPT ![c].pc = "cat", ![c].fd = f, ![c].at = 0]
  /\ shared' = (shared \/ \E d \in Comers \ {c} : Uploading(d) /\ Name(d) = Name(c))
  /\ UNCHANGED <<installed, cut, swept>>

Longer(a, b) == IF a < b THEN b ELSE a

Cat(c) ==
  /\ ComerAt(c, {"cat"})
  /\ \/ /\ comer[c].at < 2 /\ c \notin cut
        /\ comer' = [comer EXCEPT ![c].at = @ + 1]
        /\ LET f == comer[c].fd
               half == comer[c].at + 1
           IN files' = [files EXCEPT ![f].halves = @ \cup {half}, ![f].len = Longer(@, half)]
     \/ /\ comer[c].at = 2 \/ c \in cut
        /\ comer' = [comer EXCEPT ![c].pc = "size", ![c].fd = NoFile]
        /\ UNCHANGED files
  /\ UNCHANGED <<installed, staging, cut, shared, swept>>

\* Mutant: cat's success is enough.
SizeFits(c) == TRUE
\* [ "$(wc -c < staging)" = expected ]
Fits(c) == staging[Name(c)] # NoFile /\ files[staging[Name(c)]].len = 2

CheckSize(c) ==
  /\ ComerAt(c, {"size"})
  /\ ComerGoto(c, IF Fits(c) THEN "chmod" ELSE "rm")
  /\ UNCHANGED <<installed, staging, files, cut, shared, swept>>

Chmod(c) ==
  /\ ComerAt(c, {"chmod"})
  /\ IF staging[Name(c)] = NoFile
       THEN ComerGoto(c, "rm") /\ UNCHANGED files
       ELSE ComerGoto(c, "mv") /\ files' = [files EXCEPT ![staging[Name(c)]].x = TRUE]
  /\ UNCHANGED <<installed, staging, cut, shared, swept>>

\* How an upload ends for whoever waits for it: with the exit status, which a
\* cut connection never brings.
UploadEnds(c, ok) ==
  comer' = [comer EXCEPT ![c].pc = IF c \in cut THEN "lost" ELSE IF ok THEN "list" ELSE "refused"]

MoveInto(c) ==
  /\ ComerAt(c, {"mv"})
  /\ IF staging[Name(c)] = NoFile
       THEN ComerGoto(c, "rm") /\ UNCHANGED <<installed, staging>>
       ELSE /\ installed' = [installed EXCEPT ![Build[c]] = staging[Name(c)]]
            /\ staging' = [staging EXCEPT ![Name(c)] = NoFile]
            /\ UploadEnds(c, TRUE)
  /\ UNCHANGED <<files, cut, shared, swept>>

RemoveStaging(c) ==
  /\ ComerAt(c, {"rm"})
  /\ staging' = [staging EXCEPT ![Name(c)] = NoFile]
  /\ UploadEnds(c, FALSE)
  /\ UNCHANGED <<installed, files, cut, shared, swept>>

\* cleanup_old_agents_command: everything agent-* but the agents of this build,
\* so also what others are uploading.
Spares(c, b) == b = Build[c]

Sweep(c) ==
  /\ ComerAt(c, {"list"})
  /\ installed' = [b \in Builds |-> IF Spares(c, b) THEN installed[b] ELSE NoFile]
  /\ \E gone \in SUBSET {n \in Names : staging[n] # NoFile} :
       /\ staging' = [n \in Names |-> IF n \in gone THEN NoFile ELSE staging[n]]
       /\ swept' = swept \cup {d \in Comers : Name(d) \in gone}
  /\ comer' = [comer EXCEPT ![c].pc = IF Errand[c] = "connect" THEN "test" ELSE "replaced",
                            ![c].attempt = 1]
  /\ UNCHANGED <<files, cut, shared>>

---------------------------------------------------------------------------
\* The connection goes, or the local ssh is ended by an abort: cat reads an end
\* of file, and the rest of the command runs on.
CutUpload(c) ==
  /\ Uploading(c) /\ c \notin cut
  /\ cut' = cut \cup {c}
  /\ UNCHANGED <<installed, staging, files, comer, shared, swept>>

\* The command is killed on the host.
KillCommand(c) ==
  /\ Uploading(c)
  /\ comer' = [comer EXCEPT ![c].pc = "killed", ![c].fd = NoFile]
  /\ cut' = cut \cup {c}
  /\ UNCHANGED <<installed, staging, files, shared, swept>>

InstallNext ==
  \E c \in Comers :
    \/ Come(c) \/ Bootstrap(c) \/ Exec(c) \/ OpenStaging(c) \/ Cat(c) \/ CheckSize(c)
    \/ Chmod(c) \/ MoveInto(c) \/ RemoveStaging(c) \/ Sweep(c) \/ CutUpload(c) \/ KillCommand(c)

InstallSpec == InstallInit /\ [][InstallNext]_installVars
---------------------------------------------------------------------------
\* upload_command, why the size is checked: however many uploads are cut short
\* or killed, what may be run under the agent's name is a whole agent; as long
\* as no two of them had one staging name.
CutInstallsNothing ==
  shared \/ \A b \in Builds : installed[b] # NoFile => WholeBuild(installed[b]) /\ files[installed[b]].x

\* An upload is refused, or its agent asked for again, only when the connection
\* went or somebody else's sweep took its file or its agent.
RefusedForAReason ==
  \A c \in Comers :
    /\ ComerAt(c, {"refused"}) => shared \/ c \in swept
    /\ ComerAt(c, {"unstarted", "broken"}) =>
         shared \/ \E d \in Comers \ {c} : Build[d] # Build[c] /\ ComerAt(d, {"test", "exec", "framed", "replaced", "broken", "unstarted"})

\* "the staging file is removed rather than left to accumulate": only a killed
\* command leaves one.
NoDebris ==
  \A n \in Names : staging[n] # NoFile =>
    \E c \in Comers : Name(c) = n /\ (Uploading(c) \/ ComerAt(c, {"killed"}) \/ shared)

\* upload_command: the token makes the staging name unique, "so two panels
\* bootstrapping the same host cannot have one `mv` the file another is still
\* writing".
OneWriter ==
  \A c \in Comers : ComerAt(c, {"cat"}) => \A b \in Builds : installed[b] # comer[c].fd
==============================================================================
