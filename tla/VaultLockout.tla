---------------------------- MODULE VaultLockout ----------------------------
(***************************************************************************)
(* The wait between wrong master passwords (crates/vault/src/lockout and   *)
(* the head of api/unlock.rs).  Every process that has the vault open      *)
(* keeps its own count of attempts and the time before which it refuses    *)
(* the next one, loads both once, and writes both to the OS credential     *)
(* store and to a file beside the vault, where a later process finds them. *)
(***************************************************************************)
EXTENDS Naturals, FiniteSets

CONSTANTS
  Procs,      \* processes that open the vault
  Callers,    \* calls of unlock_with_password, on threads of the processes
  Home,       \* the process a caller belongs to
  Free,       \* attempts that cost no wait (3 in the code)
  Hard,       \* MAX_ATTEMPTS_BEFORE_HARD_LOCKOUT
  Cap,        \* the longest of the growing waits (60 s)
  HardWait,   \* HARD_LOCKOUT_DURATION_MS
  MaxNow,     \* bound of the clock
  MaxTries    \* bound of the attempts

ASSUME LockoutAssumption ==
  /\ Home \in [Callers -> Procs]
  /\ {Free, Hard, Cap, HardWait, MaxNow, MaxTries} \subseteq Nat
  /\ 0 < Free /\ Free <= Hard /\ Cap <= HardWait

VARIABLES
  mem,      \* LockoutState of each process, and whether it is loaded
  keyring,  \* the record in the credential store
  beside,   \* the record in the file beside the vault
  call,     \* where each caller is, and the time it read
  now,      \* the wall clock
  tries,    \* history: attempts begun since the last success that was recorded
  wrong,    \* history: wrong passwords derived of those
  last,     \* history: when the last attempt began, or was found wrong
  excused   \* history: "lost" writes, "crossed" processes or callers

lockoutVars == <<mem, keyring, beside, call, now, tries, wrong, last, excused>>

NoRecord == [n |-> 0, until |-> 0, none |-> TRUE]

LockoutInit ==
  /\ mem = [p \in Procs |-> [n |-> 0, until |-> 0, loaded |-> FALSE]]
  /\ keyring = NoRecord /\ beside = NoRecord
  /\ call = [c \in Callers |-> [pc |-> "idle", at |-> 0]]
  /\ now = 0 /\ tries = 0 /\ wrong = 0 /\ last = 0 /\ excused = {}

Where(c, pc) == call' = [call EXCEPT ![c].pc = pc]

\* Two calls at once, or a process that starts while another one has loaded.
Crossed(c) ==
  \/ \E d \in Callers \ {c} : Home[d] = Home[c] /\ call[d].pc # "idle"
  \/ \E p \in Procs \ {Home[c]} : mem[p].loaded

\* ensure_lockout_loaded: once per process, the credential store first.
LoadedAttempts == LET from == IF keyring = NoRecord THEN beside ELSE keyring
          IN [n |-> from.n, until |-> from.until, loaded |-> TRUE]

\* Mutant: every call loads what was saved last, by whichever process.
BeginReloads(c) ==
  /\ call[c].pc = "idle"
  /\ mem' = [mem EXCEPT ![Home[c]] = LoadedAttempts]
  /\ call' = [call EXCEPT ![c] = [pc |-> "check", at |-> now]]
  /\ excused' = excused \cup IF Crossed(c) THEN {"crossed"} ELSE {}
  /\ UNCHANGED <<keyring, beside, now, tries, wrong, last>>

Begin(c) ==
  /\ call[c].pc = "idle"
  /\ mem' = IF mem[Home[c]].loaded THEN mem ELSE [mem EXCEPT ![Home[c]] = LoadedAttempts]
  /\ call' = [call EXCEPT ![c] = [pc |-> "check", at |-> now]]
  /\ excused' = excused \cup IF Crossed(c) THEN {"crossed"} ELSE {}
  /\ UNCHANGED <<keyring, beside, now, tries, wrong, last>>

\* check_lockout.  Refused is RateLimited.
CheckLockout(c) ==
  /\ call[c].pc = "check"
  /\ Where(c, IF call[c].at < mem[Home[c]].until THEN "idle" ELSE "attempt")
  /\ UNCHANGED <<mem, keyring, beside, now, tries, wrong, last, excused>>

Least(a, b) == IF a < b THEN a ELSE b
Greatest(a, b) == IF a < b THEN b ELSE a

Wait(n) == IF n >= Hard THEN HardWait
           ELSE IF n >= Free THEN Least(2 ^ (n - Free), Cap) ELSE 0

\* backoff_deadline.
Deadline(n, t) == IF Wait(n) = 0 THEN 0 ELSE t + Wait(n)

\* The state with its deadline moved out, for an attempt seen at t.
Anchored(m, t) == [m EXCEPT !.until = Greatest(Deadline(m.n, t), @)]

\* save: both writes are tried, and a failure of either is swallowed.
SaveAttempts(m) ==
  LET record == [n |-> m.n, until |-> m.until, none |-> FALSE]
  IN \/ keyring' = record /\ beside' = record /\ excused' = excused
     \/ /\ keyring' \in {keyring, record} /\ beside' \in {beside, record}
        /\ keyring' # record \/ beside' # record
        /\ excused' = excused \cup {"lost"}

\* Mutant: the attempt is only written on the way out.
OnAttemptInMemory(c) ==
  /\ call[c].pc = "attempt" /\ mem[Home[c]].n < MaxTries
  /\ LET p == Home[c]
     IN mem' = [mem EXCEPT ![p] = Anchored([mem[p] EXCEPT !.n = @ + 1], call[c].at)]
  /\ tries' = tries + 1 /\ last' = call[c].at
  /\ Where(c, "derive")
  /\ UNCHANGED <<keyring, beside, now, wrong, excused>>

\* Mutant: the attempt is counted, and the wait armed on the way out.
OnAttemptUnarmed(c) ==
  /\ call[c].pc = "attempt" /\ mem[Home[c]].n < MaxTries
  /\ LET p == Home[c]
         m == [mem[p] EXCEPT !.n = @ + 1]
     IN mem' = [mem EXCEPT ![p] = m] /\ SaveAttempts(m)
  /\ tries' = tries + 1 /\ last' = call[c].at
  /\ Where(c, "derive")
  /\ UNCHANGED <<now, wrong>>

\* on_attempt: counted and armed before the key is derived.
OnAttempt(c) ==
  /\ call[c].pc = "attempt" /\ mem[Home[c]].n < MaxTries
  /\ LET p == Home[c]
         m == Anchored([mem[p] EXCEPT !.n = @ + 1], call[c].at)
     IN mem' = [mem EXCEPT ![p] = m] /\ SaveAttempts(m)
  /\ tries' = tries + 1 /\ last' = call[c].at
  /\ Where(c, "derive")
  /\ UNCHANGED <<now, wrong>>

\* unwrap_argon2id and decrypt_and_load: right or wrong.
Derive(c) ==
  /\ call[c].pc = "derive"
  /\ \/ Where(c, "wrong") /\ wrong' = wrong + (IF tries > wrong THEN 1 ELSE 0)
     \/ Where(c, "right") /\ UNCHANGED wrong
  /\ UNCHANGED <<mem, keyring, beside, now, tries, last, excused>>

\* The guard's drop: on_success, or on_failure_recorded at the time it is now.
OnSuccess(c) ==
  /\ call[c].pc = "right"
  /\ LET p == Home[c]
         m == [mem[p] EXCEPT !.n = 0, !.until = 0]
     IN mem' = [mem EXCEPT ![p] = m] /\ SaveAttempts(m)
  /\ tries' = 0 /\ wrong' = 0
  /\ Where(c, "idle")
  /\ UNCHANGED <<now, last>>

OnFailureRecorded(c) ==
  /\ call[c].pc = "wrong"
  /\ LET p == Home[c]
         m == Anchored(mem[p], now)
     IN mem' = [mem EXCEPT ![p] = m] /\ SaveAttempts(m)
  /\ last' = now
  /\ Where(c, "idle")
  /\ UNCHANGED <<now, tries, wrong>>

KillProcess(p) ==
  /\ mem[p].loaded
  /\ mem' = [mem EXCEPT ![p] = [n |-> 0, until |-> 0, loaded |-> FALSE]]
  /\ call' = [c \in Callers |-> IF Home[c] = p THEN [pc |-> "idle", at |-> 0] ELSE call[c]]
  /\ UNCHANGED <<keyring, beside, now, tries, wrong, last, excused>>

\* The wall clock goes on, and may be set: forward, which is as if time passed,
\* or back.
Later   == now < MaxNow /\ now' = now + 1
SetBack == now > 0 /\ now' = now - 1

Clock ==
  /\ Later \/ SetBack
  /\ UNCHANGED <<mem, keyring, beside, call, tries, wrong, last, excused>>

LockoutNext ==
  \/ \E c \in Callers : \/ Begin(c) \/ CheckLockout(c) \/ OnAttempt(c) \/ Derive(c)
                        \/ OnSuccess(c) \/ OnFailureRecorded(c)
  \/ \E p \in Procs : KillProcess(p)
  \/ Clock

LockoutSpec == LockoutInit /\ [][LockoutNext]_lockoutVars
---------------------------------------------------------------------------
\* lockout/mod.rs: dying leaves an attempt counted rather than forgiven.  What
\* the next process would load counts every wrong password since the last
\* success, as long as no write failed and no two callers or processes met.
KilledIsNotForgiven ==
  excused = {} => LoadedAttempts.n >= wrong /\ \A p \in Procs : mem[p].loaded => mem[p].n >= wrong

\* on_attempt and check_lockout: no key is derived before the wall clock has shown
\* the time at which the wait that the attempts before it have earned is over,
\* kills, restarts and a clock set back between them or not.
WaitIsServed ==
  [][\A c \in Callers :
       call[c].pc = "attempt" /\ call'[c].pc = "derive" /\ excused = {} /\ Wait(tries) > 0
         => call[c].at >= last + Wait(tries)]_lockoutVars

\* Two processes write one record, and the later one's replaces the other's
\* count; but what a process itself has counted, and the wait it has armed, goes
\* down only by a success of its own (on_failure_recorded: "never earlier"):
\* nothing that another process saves, or that is lost, forgives it.
OnlySuccessEndsWait ==
  [][\A p \in Procs :
       /\ mem[p].loaded /\ mem'[p].loaded
       /\ mem'[p].n < mem[p].n \/ mem'[p].until < mem[p].until
       => \E c \in Callers : Home[c] = p /\ call[c].pc = "right" /\ call'[c].pc = "idle"]_lockoutVars

\* backoff_deadline: nobody is refused for longer than the hard lockout.  A clock
\* that is set back refuses for longer by as much.
NeverForGood == \A p \in Procs : mem[p].until <= now + HardWait
==============================================================================
