---------------------------- MODULE Credentials ----------------------------
(***************************************************************************)
(* A host's sudo password in the app: the panel's copy, the OS credential  *)
(* store and the vault, and the keys and answers that move it between them *)
(* (app/vault.rs, app/apply_vault.rs, password_actions.rs, passwords/,     *)
(* vault.rs).  Whatever derives a key or may wait for a dialog runs as a   *)
(* job off the event loop and answers with a message that carries the      *)
(* vault epoch of its start; answers may come in any order.                *)
(***************************************************************************)
EXTENDS Naturals, FiniteSets

CONSTANTS
  Pw,        \* passwords a host can have
  NoPw,      \* none
  NoFile,    \* there is no vault.bin
  MaxVaultEpoch, \* bound of vault_epoch
  MaxPanels, \* bound of panels_epoch
  MaxJobs    \* bound of the jobs in flight

ASSUME CredAssumption ==
  /\ {NoPw, NoFile} \cap Pw = {} /\ NoFile # NoPw
  /\ {MaxVaultEpoch, MaxPanels, MaxJobs} \subseteq Nat

VARIABLES
  state,     \* vault_state
  hasVault,  \* whether the app knows of a vault
  epoch,     \* vault_epoch
  pepoch,    \* panels_epoch
  held,      \* what the unlocked vault holds for the host
  vfile,     \* what vault.bin holds for it
  ring,      \* what the OS credential store holds for it
  panel,     \* the host's panel
  manager,   \* Server Settings: whether it is up, its draft and its rotation
  jobs,      \* jobs off the loop, and their answers
  want,      \* history: what the operator last set for the host
  asked,     \* history: whether the operator wants a vault opened
  excuse     \* history: what else has touched the stores

credVars == <<state, hasVault, epoch, pepoch, held, vfile, ring, panel, manager,
              jobs, want, asked, excuse>>
stores == <<held, vfile, ring, panel>>
history == <<want, asked, excuse>>

Maybe == Pw \cup {NoPw}
Idle == [open |-> FALSE, draft |-> NoFile, rotating |-> FALSE]

CredInit ==
  /\ want \in Maybe
  /\ vfile \in {NoFile, want}
  /\ hasVault = (vfile # NoFile)
  /\ ring = want
  /\ state = "locked" /\ epoch = 0 /\ pepoch = 0 /\ held = NoPw
  /\ panel = [pw |-> NoPw, saved |-> FALSE, lookup |-> "not asked"]
  /\ manager = Idle /\ jobs = {} /\ asked = FALSE /\ excuse = {}

---------------------------------------------------------------------------
\* A job: what it does, the epoch of its start, whether it has yet to run, what
\* it read, and how it ended.
Job(kind, e) == [kind |-> kind, epoch |-> e, stage |-> "start", read |-> NoPw, ok |-> FALSE]
Spawn(j) == Cardinality(jobs) < MaxJobs /\ jobs' = jobs \cup {j}
Settle(j, k) == jobs' = (jobs \ {j}) \cup {k}

Bumped == epoch < MaxVaultEpoch /\ epoch' = epoch + 1

\* Keys reach the vault's own prompts and waits first, then Server Settings.
Waiting == state \in {"touch", "verify"}
FreeKey == ~Waiting /\ state \notin {"prompt", "creating", "in flight"}

\* begin_vault_unlock, from `u` or the palette, which is there above Server
\* Settings as well; and begin_password_unlock where touch will not do.
BeginUnlock ==
  /\ FreeKey /\ state = "locked" /\ hasVault
  /\ Bumped
  /\ \/ state' = "touch" /\ Spawn(Job("touch", epoch + 1))
     \/ state' = "prompt" /\ UNCHANGED jobs
  /\ asked' = TRUE
  /\ UNCHANGED <<hasVault, pepoch, manager, want, excuse>> /\ UNCHANGED stores

\* Enter in the password prompt: set_vault_unlocking.
EnterMaster ==
  /\ state = "prompt" /\ Bumped
  /\ state' = "verify" /\ Spawn(Job("unlock", epoch + 1))
  /\ UNCHANGED <<hasVault, pepoch, manager>> /\ UNCHANGED stores /\ UNCHANGED history

\* Mutant: a creation in flight is retired by its own start.
EnterNewMasterBumped ==
  /\ state = "creating" /\ Bumped
  /\ state' = "in flight" /\ Spawn(Job("create", epoch))
  /\ asked' = TRUE
  /\ UNCHANGED <<hasVault, pepoch, manager, want, excuse>> /\ UNCHANGED stores

\* Enter in the creation prompt: begin_vault_create_attempt keeps the epoch.
EnterNewMaster ==
  /\ state = "creating"
  /\ state' = "in flight" /\ Spawn(Job("create", epoch))
  /\ asked' = TRUE
  /\ UNCHANGED <<hasVault, epoch, pepoch, manager, want, excuse>> /\ UNCHANGED stores

\* Mutant: Esc leaves what is in flight current.
EscKeepsEpoch ==
  /\ ~FreeKey
  /\ state' = "locked"
  /\ asked' = FALSE
  /\ UNCHANGED <<hasVault, epoch, pepoch, manager, jobs, want, excuse>> /\ UNCHANGED stores

\* Esc: cancel_vault_biometric, _verify and _creation retire what is in flight;
\* a prompt with nothing behind it just closes.
Esc ==
  /\ ~FreeKey
  /\ state' = "locked"
  /\ IF state = "prompt" THEN UNCHANGED epoch ELSE Bumped
  /\ asked' = FALSE
  /\ excuse' = excuse \cup IF state = "in flight" THEN {"given up"} ELSE {}
  /\ UNCHANGED <<hasVault, pepoch, manager, jobs, want>> /\ UNCHANGED stores

---------------------------------------------------------------------------
\* Server Settings.  open() looks up the selected host if it was not asked yet;
\* a row walked to afterwards is not looked up.
NeedsLoad == panel.lookup = "not asked" /\ panel.pw = NoPw

Look == IF NeedsLoad
          THEN /\ panel' = [panel EXCEPT !.lookup = "in flight"]
               /\ Spawn(Job("lookup", pepoch))
          ELSE UNCHANGED <<panel, jobs>>

OpenSettings ==
  /\ FreeKey /\ ~manager.open
  /\ manager' = [Idle EXCEPT !.open = TRUE]
  /\ Look \/ UNCHANGED <<panel, jobs>>
  /\ UNCHANGED <<state, hasVault, epoch, pepoch, held, vfile, ring>> /\ UNCHANGED history

\* enter_upgrade_view: the vault's copy if it is open, the credential store on
\* the loop if the vault has none, and a lookup only where there is no vault.
Known == IF held # NoPw THEN held ELSE ring
EnterUpgradeView ==
  /\ FreeKey /\ ~manager.open
  /\ IF state = "unlocked"
       THEN /\ panel' = IF panel.pw = NoPw /\ Known # NoPw
                          THEN [panel EXCEPT !.pw = Known, !.lookup = "answered"] ELSE panel
            /\ UNCHANGED jobs
       ELSE ~hasVault /\ NeedsLoad /\ Look
  /\ UNCHANGED <<state, hasVault, epoch, pepoch, held, vfile, ring, manager>>
  /\ UNCHANGED history

CloseSettings ==
  /\ FreeKey /\ manager.open /\ manager.draft = NoFile
  /\ manager' = Idle
  /\ UNCHANGED <<state, hasVault, epoch, pepoch, jobs>> /\ UNCHANGED stores
  /\ UNCHANGED history

\* The editor shows the password the panel has.
EditRow ==
  /\ FreeKey /\ manager.open /\ manager.draft = NoFile
  /\ manager' = [manager EXCEPT !.draft = panel.pw]
  /\ UNCHANGED <<state, hasVault, epoch, pepoch, jobs>> /\ UNCHANGED stores
  /\ UNCHANGED history

\* What a save or a removal that the vault never hears of is excused by.
Unheard == (IF hasVault /\ state # "unlocked" THEN {"locked"} ELSE {})
           \cup (IF \E j \in jobs : j.kind = "rotate" THEN {"rotation"} ELSE {})

\* Writing one store: done, or refused with the rest carried on.
Put(v) == \/ ring' = v /\ excuse' = excuse \cup Unheard
          \/ ring' = ring /\ excuse' = excuse \cup Unheard \cup {"refused"}

\* set_password and remove_password of the open vault.
PutInVault(v) == IF state = "unlocked" /\ held # v
                   THEN held' = v /\ vfile' = v
                   ELSE UNCHANGED <<held, vfile>>

\* offer_vault_creation, begin_vault_creation.
Offer == IF FreeKey /\ ~hasVault
           THEN state' = "creating" /\ Bumped
           ELSE UNCHANGED <<state, epoch>>

\* Mutant: the panels keep their epoch across the edit.
SavePasswordSameEpoch(p) ==
  /\ FreeKey /\ manager.draft # NoFile
  /\ Put(p) /\ PutInVault(p)
  /\ panel' = [panel EXCEPT !.pw = p, !.saved = (ring' = p)]
  /\ manager' = [manager EXCEPT !.draft = NoFile]
  /\ IF ring' = p THEN Offer ELSE UNCHANGED <<state, epoch>>
  /\ want' = p
  /\ UNCHANGED <<hasVault, pepoch, jobs, asked>>

\* Enter in the editor with a password: apply_server_edit replaces the panels,
\* so a lookup in flight is dropped, and saves to the credential store and to an
\* open vault.
SavePassword(p) ==
  /\ FreeKey /\ manager.draft # NoFile /\ pepoch < MaxPanels
  /\ pepoch' = pepoch + 1
  /\ Put(p) /\ PutInVault(p)
  /\ panel' = [panel EXCEPT !.pw = p, !.saved = (ring' = p)]
  /\ manager' = [manager EXCEPT !.draft = NoFile]
  /\ IF ring' = p THEN Offer ELSE UNCHANGED <<state, epoch>>
  /\ want' = p
  /\ UNCHANGED <<hasVault, jobs, asked>>

\* The same with an empty field, which on_delete takes for an emptied one.
Unasked == IF manager.draft = NoPw /\ {ring, vfile} \cap Pw # {} THEN {"unasked"} ELSE {}

\* Mutant: a removal forgets the vault.
DeleteFromStoreOnly ==
  /\ FreeKey /\ manager.draft # NoFile /\ pepoch < MaxPanels
  /\ pepoch' = pepoch + 1
  /\ ring' = NoPw /\ excuse' = excuse \cup Unheard \cup Unasked
  /\ panel' = [pw |-> NoPw, saved |-> FALSE, lookup |-> "answered"]
  /\ manager' = [manager EXCEPT !.draft = NoFile]
  /\ want' = NoPw
  /\ UNCHANGED <<state, hasVault, epoch, jobs, asked, held, vfile>>

DeletePassword ==
  /\ FreeKey /\ manager.draft # NoFile /\ pepoch < MaxPanels
  /\ pepoch' = pepoch + 1
  /\ \/ ring' = NoPw /\ excuse' = excuse \cup Unheard \cup Unasked
     \/ ring' = ring /\ excuse' = excuse \cup Unheard \cup {"refused"}
  /\ PutInVault(NoPw)
  /\ panel' = [pw |-> NoPw, saved |-> FALSE, lookup |-> "answered"]
  /\ manager' = [manager EXCEPT !.draft = NoFile]
  /\ want' = NoPw
  /\ UNCHANGED <<state, hasVault, epoch, jobs, asked>>

\* `r` and its two prompts: on_rotate_vault_password.
RotateMaster ==
  /\ FreeKey /\ manager.open /\ manager.draft = NoFile /\ ~manager.rotating /\ hasVault
  /\ Bumped
  /\ manager' = [manager EXCEPT !.rotating = TRUE]
  /\ Spawn(Job("rotate", epoch + 1))
  /\ UNCHANGED <<state, hasVault, pepoch>> /\ UNCHANGED stores /\ UNCHANGED history

---------------------------------------------------------------------------
\* The jobs.  An unlock reads the vault, then derives the key; it may be
\* refused.  Creation initializes a vault, unless there is one, and unlocks it.
\* A rotation reads the vault, and writes what it read back later.
Run(j) ==
  /\ j \in jobs
  /\ \/ /\ j.kind \in {"touch", "unlock"} /\ j.stage = "start"
        /\ \/ vfile # NoFile /\ Settle(j, [j EXCEPT !.stage = "done", !.read = vfile, !.ok = TRUE])
           \/ Settle(j, [j EXCEPT !.stage = "done"])
        /\ UNCHANGED vfile /\ UNCHANGED history
     \/ /\ j.kind = "create" /\ j.stage = "start"
        /\ \/ vfile = NoFile /\ vfile' = NoPw
              /\ \E ok \in BOOLEAN : Settle(j, [j EXCEPT !.stage = "done", !.ok = ok])
           \/ Settle(j, [j EXCEPT !.stage = "done"]) /\ UNCHANGED vfile
        /\ excuse' = IF vfile # vfile' /\ \A k \in jobs' : k.kind = "create" => ~k.ok
                       THEN excuse \cup {"given up"} ELSE excuse
        /\ UNCHANGED <<want, asked>>
     \/ /\ j.kind = "rotate" /\ j.stage = "start"
        /\ \/ vfile # NoFile /\ Settle(j, [j EXCEPT !.stage = "write", !.read = vfile])
           \/ Settle(j, [j EXCEPT !.stage = "done"])
        /\ UNCHANGED vfile /\ UNCHANGED history
     \/ /\ j.kind = "rotate" /\ j.stage = "write"
        /\ vfile' = j.read /\ Settle(j, [j EXCEPT !.stage = "done", !.ok = TRUE])
        /\ UNCHANGED history
     \/ /\ j.kind = "lookup" /\ j.stage = "start"
        /\ Settle(j, [j EXCEPT !.stage = "done", !.read = ring, !.ok = TRUE])
        /\ UNCHANGED vfile /\ UNCHANGED history
  /\ UNCHANGED <<state, hasVault, epoch, pepoch, held, ring, panel, manager>>

Answer(j) == j \in jobs /\ j.stage = "done" /\ jobs' = jobs \ {j}

\* vault_epoch_current.  Mutant: every answer is taken for current.
AnyEpoch(j) == TRUE
Current(j) == j.epoch = epoch

Loaded(v) == IF panel.pw = NoPw /\ v # NoPw
               THEN [panel EXCEPT !.pw = v, !.lookup = "answered"] ELSE panel

\* on_vault_unlocked, on_vault_unlock_failed, on_vault_biometric_failed.
AnswerUnlock(j) ==
  /\ j.kind \in {"touch", "unlock"} /\ Answer(j)
  /\ IF ~Current(j)
       THEN UNCHANGED <<state, held, panel, asked>>
       ELSE IF j.ok
         THEN /\ state' = "unlocked" /\ held' = j.read
              /\ panel' = Loaded(IF j.read # NoPw THEN j.read ELSE ring)
              /\ asked' = FALSE
         ELSE state' = "prompt" /\ UNCHANGED <<held, panel, asked>>
  /\ UNCHANGED <<hasVault, epoch, pepoch, vfile, ring, manager, want, excuse>>

\* on_vault_created, with seed_vault_from_panels, and on_vault_create_failed.
Seed == IF panel.pw # NoPw THEN panel.pw ELSE ring

AnswerCreate(j) ==
  /\ j.kind = "create" /\ Answer(j)
  /\ IF Current(j) /\ j.ok
       THEN /\ state' = "unlocked" /\ hasVault' = TRUE
            /\ \/ held' = Seed /\ vfile' = Seed /\ UNCHANGED excuse
               \/ held' = Seed /\ vfile' = vfile /\ excuse' = excuse \cup {"refused"}
            /\ asked' = FALSE
       ELSE /\ state' = IF Current(j) /\ ~hasVault THEN "creating" ELSE state
            /\ UNCHANGED <<hasVault, held, vfile, asked, excuse>>
  /\ UNCHANGED <<epoch, pepoch, ring, panel, manager, want>>

\* on_vault_password_rotated and on_vault_password_rotation_failed.
AnswerRotate(j) ==
  /\ j.kind = "rotate" /\ Answer(j)
  /\ manager' = IF Current(j) THEN [manager EXCEPT !.rotating = FALSE] ELSE manager
  /\ excuse' = IF \E k \in jobs' : k.kind = "rotate" THEN excuse \cup {"rotation"} ELSE excuse
  /\ UNCHANGED <<state, hasVault, epoch, pepoch, want, asked>> /\ UNCHANGED stores

\* on_credential_loaded.
AnswerLookup(j) ==
  /\ j.kind = "lookup" /\ Answer(j)
  /\ panel' = IF j.epoch # pepoch THEN panel
              ELSE [pw |-> IF j.read # NoPw THEN j.read ELSE panel.pw,
                    saved |-> panel.saved \/ j.read # NoPw, lookup |-> "answered"]
  /\ UNCHANGED <<state, hasVault, epoch, pepoch, held, vfile, ring, manager>>
  /\ UNCHANGED history

\* The app is ended and started again: its jobs end, the stores stay.
Restart ==
  /\ state' = "locked" /\ hasVault' = (vfile # NoFile)
  /\ epoch' = 0 /\ pepoch' = 0 /\ held' = NoPw
  /\ panel' = [pw |-> NoPw, saved |-> FALSE, lookup |-> "not asked"]
  /\ manager' = Idle /\ jobs' = {} /\ asked' = FALSE
  /\ excuse' = excuse \cup IF \E j \in jobs : j.kind = "create" THEN {"given up"} ELSE {}
  /\ UNCHANGED <<vfile, ring, want>>

CredNext ==
  \/ BeginUnlock \/ EnterMaster \/ EnterNewMaster \/ Esc
  \/ OpenSettings \/ EnterUpgradeView \/ CloseSettings \/ EditRow
  \/ \E p \in Pw : SavePassword(p)
  \/ DeletePassword \/ RotateMaster
  \/ \E j \in jobs : \/ Run(j) \/ AnswerUnlock(j) \/ AnswerCreate(j)
                     \/ AnswerRotate(j) \/ AnswerLookup(j)
  \/ Restart

CredSpec == CredInit /\ [][CredNext]_credVars
---------------------------------------------------------------------------
AllJobs == [kind : {"touch", "unlock", "create", "rotate", "lookup"}, epoch : Nat,
            stage : {"start", "write", "done"}, read : Maybe, ok : BOOLEAN]

\* The values of the app's credential state.
CredTypeOK ==
  /\ state \in {"locked", "touch", "prompt", "verify", "creating", "in flight", "unlocked"}
  /\ hasVault \in BOOLEAN /\ epoch \in Nat /\ pepoch \in Nat
  /\ {held, ring, want} \subseteq Maybe /\ vfile \in Maybe \cup {NoFile}
  /\ panel \in [pw : Maybe, saved : BOOLEAN, lookup : {"not asked", "in flight", "answered"}]
  /\ manager \in [open : BOOLEAN, draft : Maybe \cup {NoFile}, rotating : BOOLEAN]
  /\ jobs \subseteq AllJobs /\ IsFiniteSet(jobs) /\ Cardinality(jobs) <= MaxJobs
  /\ asked \in BOOLEAN
  /\ excuse \subseteq {"given up", "locked", "rotation", "refused", "unasked"}

\* The vault epoch: a vault opens only for an operator who still wants it open;
\* an answer to an attempt given up with Esc opens nothing.
OpensOnlyWhenAsked == [][state' = "unlocked" /\ state # "unlocked" => asked]_credVars

\* handle_key swallows every key but Esc while a touch, a check or a creation
\* is waited for: there is always a job whose answer ends the wait.
WaitsForSomebody ==
  state \in {"touch", "verify", "in flight"} => \E j \in jobs : j.epoch = epoch /\ j.kind # "lookup"

\* on_vault_create_failed: a duplicate attempt never takes a vault back.
NoCreationOverVault == state \in {"creating", "in flight"} => ~hasVault

\* Two stores and a copy, read in the order vault, credential store: what a run
\* would use is what the operator last set, and so is what an open vault and
\* the file behind it hold; unless a write was refused, a creation given up, or
\* the vault was locked or being rotated when the password was set.
WhatIsSetIsUsed ==
  excuse \ {"unasked"} = {} =>
    /\ panel.pw \in {NoPw, want}
    /\ state = "unlocked" => held = want /\ vfile = want

\* password_actions.rs: "`None` means the field was emptied on purpose".
EmptiedOnPurpose == "unasked" \notin excuse
==============================================================================
