------------------------------ MODULE MCVault ------------------------------
(***************************************************************************)
(* The vault and the credentials for TLC: the vault's file, its lockout,   *)
(* and the passwords of the panels.  The three modules share nothing and   *)
(* are run one at a time: a behaviour is one of one module, and the other  *)
(* variables stay as they began.                                           *)
(***************************************************************************)
EXTENDS VaultFile, VaultLockout, Credentials, TLC

VARIABLE part   \* the module whose behaviour this is

Alike == Permutations(Handles) \cup Permutations(Masters)

\* Three callers, two of them in one process.
HomeOf == [c \in Callers |-> IF c = "c3" THEN "p2" ELSE "p1"]

VaultInit ==
  /\ part \in {"file", "lockout", "credentials"}
  /\ FileInit /\ LockoutInit /\ CredInit
  /\ part # "file" => enclave.key = 0 /\ file.master = CHOOSE m \in Masters : TRUE

VaultNext ==
  /\ \/ part = "file" /\ FileNext /\ UNCHANGED <<lockoutVars, credVars>>
     \/ part = "lockout" /\ LockoutNext /\ UNCHANGED <<fileVars, credVars>>
     \/ part = "credentials" /\ CredNext /\ UNCHANGED <<fileVars, lockoutVars>>
  /\ UNCHANGED part

VaultSpec == VaultInit /\ [][VaultNext]_<<part, fileVars, lockoutVars, credVars>>

\* The vault's file: one fault at a time; handles that overlap are followed
\* while they do, each for one save of a fresh vault; a second enclave key is
\* followed while nothing else goes wrong; while the clock is ahead, only a file
\* put back and a save without its sync.
FewFaults ==
  /\ clock > 0 => excuses \subseteq {"restored", "unsynced"}
  /\ enclave.made > 1 => excuses = {} /\ clock = 0
  /\ excuses = {"overlap", "taken"} \/ Cardinality(excuses) <= 1
  /\ "overlap" \in excuses =>
       /\ \E h \in Handles : ~At(h, {"closed"})
       /\ \A h \in Handles : ~At(h, {"closed"}) => header[h].counter <= 1
       /\ Readable => file.counter <= 1
       /\ clock = 0 /\ enclave.made = 0 /\ ~anchor.there

\* The lockout: lost writes and crossed processes are followed one kind at a
\* time, as far as the second attempt.
Bounded ==
  /\ FewFaults
  /\ excused # {} => now <= 1 /\ \A p \in Procs : mem[p].n <= 2
  /\ Cardinality(excused) <= 1

\* What a closed handle had in memory does not matter, nor the histories of
\* what is excused.
Excused == excuse \ {"unasked"} # {}
Seen ==
  CASE part = "file" ->
         <<part, file, durable, inPlace, tmp, filled, locked, anchor, enclave, clock,
           backup, settled, told, excuses,
           [h \in Handles |-> IF At(h, {"closed"}) THEN {} ELSE {use[h], header[h]}]>>
    [] part = "lockout" ->
         <<part, mem, keyring, beside, call, now, excused,
           IF excused = {} THEN <<tries, wrong, last>> ELSE <<>> >>
    [] OTHER ->
         <<part, state, hasVault, epoch, pepoch, held, vfile, ring, panel, manager, jobs,
           asked, Excused, IF Excused THEN NoPw ELSE want>>
=============================================================================
