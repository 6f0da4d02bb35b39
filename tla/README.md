# multitop in TLA+

multitop is a terminal dashboard over SSH. A client (crates/multitop) connects
to each host of a server list, installs its agent (crates/agent) there and
draws what the agent streams back. It also keeps the hosts' passwords in a
vault, polls what the hosts say of themselves over MCP, and kills or follows
processes there. From the dashboard an operator upgrades the hosts: the client
starts the agent in `exec` mode over a second ssh, the agent takes the host's
upgrade lock, runs the configured command in a login shell on two terminals,
and sends its output back as frames. This directory models that path first, the
one on which a mistake costs most (a command run twice, a password in a log, a
failed upgrade called a success, a host that can never be upgraded again), and
then the machines around it.

Paths below are relative to the repository.

## Inventory

| Component | State it keeps | Operations | What is hard | What makes it correct |
|---|---|---|---|---|
| Upgrade lock (agent/src/exec/lock.rs) | a directory with a pid file | acquire, break a dead one, stamp, drop | several agents between any two file system calls; kills; pids that come up again | two runs never hold it together; a dead run's lock is broken |
| Exec shell (exec/script.rs, pty.rs) | the shell, two terminals | ask for the password, start, bracket the command, exit | start-up files that print or exit, commands that exit the shell, processes left behind | the command runs at most once; echo is off before the password is asked for |
| Marker sieve (exec/sieve.rs) | the unfinished line | feed, finish | reads that end anywhere | nothing lost, nothing twice, prompts not held back, markers found |
| Exec session (exec/serve.rs, run.rs, pump.rs) | hold-back buffer, reader's flags, guard | read request, lock, spawn, pump, drain, settle, report | exit against queued output; a client that is gone | the log is the command's output; Exit after the lock is let go |
| Upgrade task (multitop/src/tasks/upgrade.rs, verdict.rs) | what was heard of the run | connect, read frames, read stderr, install once, judge | cut and silent connections, retry | success only for a command that ended well; one verdict per run |
| App (multitop/src/app/) | panels with generations, records, confirmations | keys, answers of tasks, edits of the server list | answers of tasks that are no longer wanted | an answer goes to its own run; no panel stays in STARTED |
| Event loop and task slots (multitop/src/run/) | channel, budget, handles | drain, watchdog, spawn, abort | a task that dies; a flood of packets | see App |
| Records and state file (state.rs) | host_updates, upgrade_started_at | save, load | the app dies while a run goes on | an interrupted run is seen at the next start |
| Credentials (panel.rs, password_actions.rs, password_store.rs, app/vault.rs) | lookup state, the password, vault prompt and epoch, jobs in flight | unlock, create, seed, rotate, load, save, delete | answers in any order; a late lookup over a newer password | the newest wins; no vault opens unasked; no wait without an end |
| Vault (crates/vault) | the sealed file, attempts, rollback anchor, enclave key | init, unlock, save, rotate, rebind, repair, delete | two processes; kills and power cuts between any two calls | no attempt is free; no older file is accepted, and none refused without reason |
| Agent bootstrap (ssh/) | staging and installed files on the host | test, exec, upload, rename, sweep | several comers, cuts, kills | what runs is a whole agent |
| Monitor stream (stream/prod.rs, run/spawn.rs) | session, failures, delay, what was said on stderr | connect, install, stream, back off | ends in the middle of a packet; resizes against reconnects | the end is explained; the agent learns the size; retries go on |
| Agent monitor (agent/src/lib.rs, emit.rs, stdin_watch.rs, proto/) | size, samples | greet, sample, emit, stop at end of stdin | leaving when the client is gone | ends with its client |
| Ops view (multitop/src/ops/, tasks/ops_*.rs, mcp/) | cache of answers, kept tool lists, rates, triage | poll, pass, gather, judge, draw | two pollers of one cache; stale lists; sections that were not read | every host is read at its cadence; no tool hidden; nothing green that was not read |
| Actions on a host (run/confirm_keys.rs, tasks/kill.rs, exec_runner.rs) | the armed action, a task per panel | arm, confirm, run, install once, answer | the list edited between arming and running; silent links | what was confirmed runs, there, once; it is answered |
| Painted output (tasks/painted.rs, panel.rs) | the raw line, rows up, pinned bar, ring | feed, paint, finish | rewinds counted from the end of a ring that turns | the log is what a terminal would show |
| The client's files (state.rs, config/save.rs, owner_file.rs, serve_token.rs) | state.toml, config.toml, the token | write_atomic, move aside, create_new | kills and power cuts between calls; two instances | what was reported saved is there; one token |
| HTTP server and pairing (server.rs, pairing.rs, serve_*.rs) | snapshot, token | serve, pair | read-only | - |
| User interface, config, history, samplers, codecs, Android client, tools | - | layout, parsing, I/O | - | - |

The client talks to the agent by frames over ssh's stdin and stdout; agents of
one host meet only in the lock directory; background tasks of the client meet
the app only in one bounded channel, and the app meets them only through their
handles (abort, is_finished).

PROJECT.json lists every component with its status and every hazard at its
line.

## Modules

### UpgradeLock, ExecProofs

`acquire` and `Guard::drop` file system call by file system call. A process is
at one `pc`; `lock` is what is at the lock path: nothing, debris of an older
build, or a directory with the agent that made it, its pid file and whether its
time of modification is more than STALE_AFTER (6 h) ago. `remove_dir_all` is
the two calls that matter, one that empties the directory found and one that
removes the directory there is then. The environment kills agents anywhere
(`Crash`), lets time pass (`Age`) and gives pids of dead agents to other
processes (`ReusePid`). `judged` and `robbed` are history: whose directory an
agent found breakable, and which runs had theirs emptied or removed under them.
`SerialSpec` is the same system with at most one agent inside `acquire` at a
time.

### Sieve, ExecProofs

One terminal and the sieve that reads it. Bytes are text, a blank, `\r`, `\n`,
or the two parts of a marker: what all markers share and what tells them apart.
A newline is written as `\r\n`, as the terminals of pty.rs do. `Feed` takes any
number of the bytes there are; the constant SplitsNewline says whether a read
may end within a newline.

### ExecChild, ExecAgent, UpgradeSession, UpgradePromise, UpgradeSessionProofs

ExecChild is the wrapper script of script.rs, stage by stage, on the terminals
of pty.rs; ExecAgent extends it with the agent's session (serve.rs, run.rs,
pump.rs), UpgradeSession extends that with the client's task (upgrade.rs,
verdict.rs) and the connection, and its `Next` interleaves the three.
UpgradePromise is the abstract specification: a host's command that is idle,
runs and ends, and one verdict, with what each verdict may be said of.
UpgradeSession implements it (`KeepsPromise`) under the mapping `Host`, `Told`.

What the child says is a sequence of pieces, one per read: a numbered piece of
the command's output, a marker line, noise of the login shell, the password if
it is echoed, a line of a process left behind. So a read takes one piece and a
marker line is never split: Sieve is the model of what happens when it is.
Frames without news (Hello, Begin, Alive) are left out; `Quiet` says when they
do not come. The lock is one variable here, taken and let go in one step each;
UpgradeLock has the steps.

### AppUpgrade, AppUpgradeProofs

The app's upgrade state machine with the loop that drives it. A panel is a
record of its host, its generation, its mode, its upgrade's state and
generation, and its lookup's state. `lpc` is where the loop is: idle (waiting
in `select!`), in the drain, at the watchdog, between the key handler and
`execute_cmds`, or down. Each key handler is one action. The confirmation is
raised by `u`, which looks at the view and at the runs (`AskToConfirm`), and by
the answer of an unlock and `:vault unlock`, which look at neither
(`AskAfterUnlock`): so it may be confirmed over a run in flight, whose task is
then aborted and replaced. Messages carry panel, generation and epoch as in the
code, and the host their sender works on, which the code does not send and the
properties need. `orphans` are aborted tasks past their last await; `fate` is
history: how each host's last run really went.
Everything else a panel does (stats, graphs, vault prompt) is left out except
where it moves the generation.

### VaultFile, VaultLockout, Credentials, VaultFileProofs, UnlockProofs

VaultFile is `vault.bin` and every handle that is open on it: unlock, save,
rotate, rebind and repair as rows of file system calls (open the temporary
file or reclaim a stale one, lock, write, sync, rename, sync the directory,
store the anchor), with handles killed anywhere, power cuts, a lost enclave
key, a clock that goes back, a vault removed, and an old copy put back.
`excuses` is history: what has happened that a refusal may be blamed on; each
property says which excuses it grants. VaultLockout is the wait between wrong
master passwords: two processes, several callers in one, each call's check,
charge and verdict as separate critical sections, two places the count is
written to, writes that fail, kills, and a wall clock that goes on and may be
set back, because deadlines are wall-clock times. Credentials is one panel's password in its
four places (memory, credential store, open vault, vault file) and the keys,
jobs and answers that move it, with `vault_epoch` and `panels_epoch` as the
code compares them.

### AgentInstall, HostLink, AgentProofs

AgentInstall is the bootstrap script and the upload command on a host, one
shell command at a time, for several comers of one or two builds, with cuts and
kills; a file is two halves. HostLink is a panel's task against the agent's
process: a packet is two halves of a header and a body, pieces travel, stderr
is a queue of lines, `select!` in `read_packet` may drop half a header. Its
constant Agents is what may be found in the agent's place: the same build, a
newer one, a newer one whose Hello is not compatible (which is replaced like an
older one), an older, one that does not greet, a login banner.

### OpsPolls, OpsCatalogue, OpsCard, PanelProofs

OpsPolls is the two pollers over one cache file per host, in time: a clock that
steps only when nobody is ready, ages instead of instants. The code takes ages
from the wall clock; here time only passes, a wall clock that is set is not
modelled. OpsCatalogue is one
reading of a host over MCP: discover, the kept tool list under a version or a
digest, and each section's question. OpsCard is what the card makes of the
answers: a section's tone from the words on the wire. Their answers meet in
`cache::Raw`: a value, absent, failed or unknown.

### HostActions, Painter, Files, FilesProofs

HostActions is kill, journal, renice, tail and custom panels: keys that arm and
confirm, a task per panel with its two attempts and one install, messages with
generations, and the server list replaced under them. A task carries what the
confirmation named when it was armed (the action, the host, the process) beside
what it does, and so does the history of what ran. Painter is a tool that
writes on a terminal, the screen a terminal would show kept beside the log the
painter makes of it, and the ring of the panel; `lines` is the log as it would
be in a ring without an end. Files is the client's own
directory, call by call: state.toml with its record of upgrades and its moving
aside, config.toml with the port of plaintext passwords to the credential
store, and the token that several starts of --serve race for; a power cut
leaves any of the directories in `disk`.

### What meets what

ExecChild, ExecAgent and UpgradeSession are one system. The others meet in few
places, and each such place is a variable that one module refines and the other
takes as one step: UpgradeLock's acquire and drop are the `lock` of ExecAgent;
Sieve is the marker that ExecAgent reads in one piece; UpgradeSession's verdict
is the `fate` of AppUpgrade; AgentInstall is the one-step install of
UpgradeSession, HostLink and HostActions; VaultFile and VaultLockout are what an
unlock job of Credentials does in one step; Files is the one-step save of
AppUpgrade; OpsCatalogue is one `ask` of OpsPolls.

MCExec, MCVault and MCClient put modules that share nothing side by side for TLC:
`part` says whose behaviour it is, the others stay in one initial state, so the
reachable states are the sum of the modules', not the product.

## Runs

| Run | Asks | States |
|---|---|---|
| Exec | four agents, every interleaving of their calls, kills, ageing, pids reused: does create_dir ever admit two, and is a holder ever judged breakable before anybody has been robbed? The same agents in turn, without reused pids: two holders, or a refusal without reason? And a terminal read in pieces that end anywhere but within a newline: bytes lost, a marker missed? No. | 2*10^6 |
| UpgradeLockBreak | two holders when acquisitions do overlap? **Yes**: see below. | - |
| SessionPromise | does a session, cut, killed, stalled, refused, without an agent or behind a banner, implement UpgradePromise; is its log the command's output, free of the password; is the lock gone when Exit is read? Yes. | 6*10^6 |
| SessionLive | does every run end in a verdict and every live agent let go of the lock? Yes. | 7*10^4 |
| AppRuns | the server list edited under runs, lookups and views, runs confirmed over runs, tasks that die, quits, kills and restarts: a foreign answer, a lost task, a run ended by another one's last word, or a run the next start cannot see? No. | 4*10^6 |
| AppLive | does every run end? Yes. | 6*10^4 |
| AppLookup | does every lookup land when the list is edited under it? **No.** | - |
| AppReplace | is a run in flight ever aborted by a second one? **Yes**: see below. | - |
| Vault | the three vault modules: a torn or older vault, a refusal without reason, a wrong attempt forgiven, a wait cut short or taken back, a password that is not the one last set, a vault opened for nobody? No. | 2*10^6 |
| Client | the eight smaller machines, one at a time: half an agent run, an end unexplained, a host read too rarely, a tool hidden, a fault that is not drawn red, a command run twice, elsewhere or on another process, a log that is not the screen or not in the ring, a save lost, two tokens? No. | 2*10^6 |
| Loops | does an agent learn its panel's size, after a reconnect too, does a failed poll give way to an answer, is a kill answered? Yes. | 4*10^5 |
| FilesPort | does a panel get a password of another account? **Yes**: see below. | - |

The modules state more than the runs ask for every time: type invariants, and
HeldMayBeMarker (Sieve), NoDebris and
RefusedForAReason (AgentInstall), NoFrameOfAnOlder, FramingIsKept, BackoffGrows
and KeepsTrying (HostLink), NoHalfAnswerKept and GapIsSaid (OpsPolls),
OldListExpires and ListedOnce (OpsCatalogue), PoolsCountOnce (OpsCard),
LinesAreTheHosts (HostActions), WritesAreWhole,
SpoiltIsKept and PasswordIsSomewhere (Files), DebrisNeverBlocks and
EnrolledOnlyOnRequest (VaultFile), NoCreationOverVault (Credentials), NeverDowngrades (HostLink),
OkIsTrue (AppUpgrade). TLC finds them true on the instances of the same runs;
they are left out of the configurations to keep each run short. Of those named all but HeldMayBeMarker, KeepsTrying,
GapIsSaid, ListedOnce and PoolsCountOnce are theorems.

### Bounds

* UpgradeLock: four agents. The race needs one that died, one that breaks and
  one that comes between; a fourth is what it takes for an agent killed between
  the two halves of a removal to leave a running agent's directory empty to the
  judgement of another, which is why `robbed` counts emptied directories too.
  UpgradeLockBreak finds its counterexample with three. StampCanFail is off in
  the runs: a run whose pid could not be written is protected for six hours
  only, which is what the code says it does.
* Sieve: a marker is two bytes and there are two of them; three bytes or
  newlines of output are enough for text, a carriage return and a blank around
  a marker, and two markers for both in one read. The real read buffer of 8 KiB
  and the lengths of the markers only decide where reads end, and here they end
  anywhere.
* Session: PtyCap pieces make a writer block; HoldLimit stands for the 64 KiB
  of start-up output held back, and is small enough in SessionPromise to be
  reached (MaxNoise = 2). RcCodes leaves 0 out: a start-up file that ends the
  shell with 0 is a known disagreement (below), as are CmdCodes 111 and 125.
  MaxOut and MaxErr number the pieces of stdout and stderr, whose order and loss
  LogIsTheCommand tells apart. Daemons are off in SessionLive: DrainEnds is a known
  disagreement.
* App: two hosts, up to two panels, in any order. MaxGen, MaxEpoch, MaxBoots,
  MaxViews bound what otherwise grows for ever: three generations are enough for
  an answer that is two runs old, one edit for an answer of another list, one
  restart for a marker of an earlier life; AppRuns does not
  edit the list again after a restart (`FewChanges`). QueueCap 1 (2 in AppLookup) and Budget 0 or 1
  stand for the channel's capacity and MSG_DRAIN_BUDGET = 32: small, so that
  the channel does fill and the budget does run out.
* VaultFile: two handles (the app and a change of the password, or two
  multitops), counters to 2, so that there is an older, a current and a newer
  file; one tick of the clock; a second enclave key, so that a lost one is
  repaired. The constraint `Bounded` keeps one kind of fault
  to a behaviour, and follows handles that overlap for one save each, and a second
  enclave key without any fault: what two faults do together is mostly excused
  by either. While the clock is ahead only a file put back and a save without its
  sync are followed. VaultLockout: one free try,
  hard lockout at three, waits of 1, 2 and 3, so that every branch of
  `backoff_deadline` is taken within four ticks, of a clock that goes both ways;
  three callers, two of them in one process. Writes may be lost again and again;
  lost writes and crossed processes are followed one kind at a time, for two
  attempts and one tick. Credentials: two passwords, two jobs in flight, four vault
  epochs (open, give up, open again, rotate), two panel lists. `Seen` leaves
  out of the state what no step and no property reads any more.
* AgentInstall: three comers, two of them of one build and one token (one
  process id that came round again) and one of another build.
* HostLink: every kind of Agents in Client; in Loops the three whose links
  differ in kind (agrees, is replaced, never greets). Three entries of back-off
  (two in Client) for the four of RECONNECT_BACKOFF; only the clamp at the last
  matters.
* OpsPolls: two hosts that publish every 8, a fallback of 4, slack 2, check 2
  and margin 1, for the code's 450 s, 90 s, 60 s and 5 s: the same order of
  sizes, and small enough that a pass, its slack and the other poller's reading
  do collide. The cache is empty at first, or kept by an earlier run. One
  failure. OpsCatalogue: two tools, two versions one of which is unnamed, one
  move of the server, one break, a window of one tick. OpsCard: the Many...
  sets of MCClient name the values; each set holds one value for every branch of
  the judgement, and pairs, because a card's line is about the worst of several.
* HostActions: one panel, two hosts and two processes, three generations (what
  is running, what an edit makes, what is confirmed after it), one fault, one message on its way
  (two in Loops). The panels of the code share
  nothing but the confirmation, which names its panel.
* Painter: up to seven items of output, one letter and a ring of three, so
  that the ring turns and is then repainted: rows that are still in it are drawn
  where they are (RingIsTheTail, LogIsTheScreen), a row that has left it is drawn
  anew (`beyond`). CutAnywhere is off: see below.
* Files: two instances and two starts of --serve, one power cut or spoilt file,
  one account. `FewRuns` lets two instances at once save one run or one edit
  between them: what they may lose then is a known disagreement. FilesPort has
  the two accounts.

Symmetry is used where the values are interchangeable and no liveness is
checked. Deadlock is not checked: every system here stops (all agents are done,
the verdict is told, the app is down, a bound is reached).

### Fairness

* UpgradeSession.FairSpec: weak fairness of the script, of the agent, of the
  client, and of ssh giving up a dead connection (ServerAliveInterval 15 s
  times 3). Each is a process or a task of its own that nothing starves. That
  `ScriptStep` includes the command's end is an assumption: a command that
  never ends is an upgrade that never ends, by design. A kill, a cut, a banner
  and a refusal of sudo are never forced.
* AppUpgrade.FairSpec: the loop goes on (WF); a packet or a queued message,
  whichever `select!` takes, gets its turn again and again (SF, the channel is
  first in first out); a task that waits for room gets it (SF: tokio's channel
  is fair). `SendDone` is fair, so a run ends or dies: that is SessionLive's
  `EveryRunIsTold`. Keys are never fair.
* HostLink.LinkFairness: the task is polled, bytes that were written arrive,
  the agent's loop and its stdin watcher run (WF each). Cuts, resizes and
  chatter are never forced; SizeArrives is about a link that stays.
* OpsPolls.OpsFairness: both pollers and time go on (WF). A host is never
  forced to answer; failures are bounded (MaxPollFaults).
* HostActions.ActFairness: the app applies messages, each task takes its next
  step, and the host runs what it was sent or ssh gives the link up (WF).
* LoopsSpec in MCClient states the same conditions for the part that runs.

Liveness is checked by TLC only; it is out of the proof system's reach.

## Proofs

TLC says what holds on an instance; the eight ...Proofs modules say it for every
value of the constants, under the assumptions that each module names (ASSUME)
and the hypotheses given below. Every invariant was checked by TLC, with the
bounds of its run, before it was proved; the numbers are the states it was
checked on. A theorem that TLC has as a property of a run is marked *.

### ExecProofs (SieveInv: 3.6*10^5 states)

UpgradeLock, for any set of agents:

* `LockTypeCorrect`: Spec => []TypeOK. Used by the others.
* `LockExclusionUnlessRobbed`*: Spec => []MutualExclusionUnlessRobbed, under
  every interleaving, kill, failed stamp and reused pid. The invariant is
  `OwnsPath`: a holder nobody robbed made the directory that is at the path
  now. Exclusion alone is not inductive: that nobody else can win create_dir
  follows from what is at the path, not from who else holds.
* `JudgementIsRight`*: if stamps are written, Spec => []JudgementSparesHolders,
  under every interleaving, kill and reused pid. The invariant `JudgementInv`
  holds until the first robbery: a process makes at most one directory in its
  life (`MakersArePast`), the path of a run is as the run left it
  (`PathIntact`: its own directory, young before the stamp, with its pid from
  then on), and what an agent knows stays true (`KnowledgeIntact`: the pid it
  probes is that of the directory it judges; while it looks at the age, a
  directory that is in use is young; what it found breakable is not in use).
* `SerialMutualExclusion`: if stamps are written, SerialSpec =>
  []MutualExclusion. The invariant `SerialInv` says what an agent in `acquire`
  knows at each point: that the pid it read is that of whoever is holding or
  dropping (`probe`), that a directory without a pid which somebody still
  claims is one half dropped, and young (`age`), and that nobody claims the
  path once it is judged breakable. It needs the drop's two halves as
  claimants: exclusion of holders does not survive a step without them.
* `RefusalsAreJustified` (an action property): if stamps are written and pids
  do not come up again, SerialSpec => RefusalIsJustified. Beside `SerialInv` it
  needs `PidsArePast`: a pid that can be read is that of an agent past its
  create_dir, so one that answers still claims the path. Exec checks this and
  the theorem before it on its agents that acquire in turn (InTurnRefusedJustly,
  InTurnOneHolds).

Hypothesis of the last three: ~StampCanFail, that the pid file can be written;
and of RefusalsAreJustified ~PidsRecur, without which it is false (Known
disagreements, below).

Sieve, for any markers, any output and reads that end anywhere:

* `SieveInvariant`: SieveSpec => []SieveInv. What was written is three parts in
  order: what has left the sieve, up to `Held`; what is held back (`partial`);
  and what is not read (`tty`). The pieces cover the first part without a gap
  and without an overlap (`Cover`: each begins where the one before it ends),
  and no newline is held. A marker is written in full unless the shell was
  killed in its echo (`Spells`), `Held` is never inside one that starts a line
  (`Undivided`), and those before `Held` each have a piece that ends with them
  and says which they are (`FoundBy`).
* `NothingIsLostOrTwice`*: the pieces, what is held and what is not read are,
  in this order, what was written. It follows from the cover by
  `PartsMakeTheWhole`: if it did not, there would be a first piece up to which
  it does not, and the cover says that there is none.
* `EveryMarkerIsFound`*: if no read ends within the two bytes of a newline
  (~SplitsNewline; otherwise it is false, see below), every marker that starts
  a line, or a line that a carriage return went back on, is found as itself.
  The steps are those of `feed`: a read's lines are the slices between the
  newlines and the rest has none (`LinesAreSlices`, `LinesCover`), a tail
  that is let go cannot end within a marker (`ReleasedIsWhole`: could_become_marker
  holds of it whenever it begins one), and of a line with a marker marker_of
  finds that one, because the states before it are not markers and a blank
  before it is trimmed.

### UpgradeSessionProofs (SessionInv, LogInv: 6.4*10^6 states)

For any output, any start-up file, any number of cuts and kills:

* `ExitMeansTheLockIsFree`* and `PasswordStaysHidden`* from `SessionInvariant`.
  That Exit is read after the lock was let go is about two processes and a
  wire between them, so the invariant says of everything on its way what must
  have happened before it was sent (`CleanFrames`: an Exit is on the wire only
  of an agent that is over, with the status it reports; `CleanPieces`: a marker
  that asks for the password is written with echo off), and where the script,
  the agent and the client are (`ScriptInv`, `AgentInv`, `ClientInv`).
* `SessionKeepsPromise`*: the refinement. Spec => UpgradePromise's Spec under
  the mapping `Host`, `Told`; each step of the session is a step of the promise
  or leaves it as it is (`StepKeepsPromise`). It needs `ToldInv`: what a
  verdict says is true of the host, and stays true, because a command that has
  not started by then never does (`NeverStarts`).

* `LogIsTheOutput`*: the log, when an Exit has been read. `FlowInv` follows the
  command's output on its way: what is in the log, on the wire and in the
  terminal are its pieces in order, without a gap, for as long as the client
  reads, the connection is up and the agent lives; an Exit is the last frame of
  a wire, so whoever reads it has read all that came before. A cut keeps a
  prefix, and a prefix with the Exit in it is the whole. That the reader passes
  all of it on needs `MarkInv` (the output is between the markers, and none of
  it is kept back), and that an Exit finds the terminals empty needs `OpenInv`
  (a terminal is closed when it is empty and nobody can write to it). For the
  noise, `NoiseInv` and `EarlyInv`: it is outside the markers, and what is kept
  back and what lies ahead of the opening marker together are no more than
  there was noise, so it is not forwarded for want of room. The lemmas `Counts...`
  say what one more piece, a read and a cut do to a sequence that is counted.

Hypothesis of `SessionKeepsPromise` and `ToldIsTrue`: PlainCodes, that the command does
not itself end with 111 or 125 and that no start-up file ends the shell with 0.
Without it the statement is false: NeverRanIsTrue and OkMeansItRan, below.

### AppUpgradeProofs (AppInv: 4.5*10^6 states)

For any hosts, lists, capacities, budgets and numbers of restarts, and a
confirmation that may be raised at any moment: `AnswersReachTheirHost`*,
`StartedPanelsHaveTasks`*, `OnlyItsOwnWordEndsARun`*, `SuccessWasSaid` and
`InterruptedRunsAreSeen`*. One invariant carries them all, because none holds
alone: an answer is for the panel's host because a panel's generation moves
whenever its host may (`PendingInv`, `PanelsInv`); it is the last run's word
because a run that is replaced leaves the slot to one with a later generation,
and what it may still send has its own (`RunsInv`). That no run is replaced is
not among them: it is false (NoRunIsReplaced, below).

### VaultFileProofs (FileInv: 2.0*10^6 states)

For any handles, counters and times, with kills and power cuts between any two
calls: `VaultStaysWhole`*, `SavedIsKept`*, `OpenIsNeverOlder`*,
`OnlyRestoredIsRefused`* (an action property), `DebrisBlocksNobody` and
`OnlyARebindEnrolls`. `TmpInv` says whose the temporary file is and that it is
full once written, `AloneInv` what a handle alone may find there, `DataInv` how
the file, what a power cut would leave and every header in memory relate,
`TimeInv` and `AnchorInv` that the anchor is behind all of them. Each part has
the excuses under which it stops to hold; so have the properties, and no
theorem has more of them than its property. FileAssumption says that NoHandle
and the values for no file are not handles or versions.

### UnlockProofs (CredInv: 9.1*10^5 states)

* VaultLockout, for any processes, callers and waits, and a wall clock that is
  set forward or back: `KillingForgivesNothing`* and `TheWaitIsServed`* with
  `Agreement` (the two records are the same and count every attempt, and whoever
  has them loaded agrees, until a write is lost or two callers meet), and
  `WaitsEndBySuccess`* (an action property, without any excuse: another process's
  saves replace the record, but not what this one has counted). That nobody is
  refused for longer than the hard lockout is false when the clock is set back
  (NeverForGood, below).
* Credentials, for any passwords, epochs and jobs: `WaitsEnd`*,
  `WhatWasSetIsUsed`*, `OpensWhenAsked`* (an action property) and
  `NoVaultIsTakenBack`. `EpochInv` is the heart: of the jobs on their way
  exactly one is current, and it is the one the state waits for; `StoreInv` then
  follows a password through the four places it is in.

### FilesProofs (496,318 states, all of them)

For any instances, heads, accounts and numbers of faults: `FilesStayWhole` and
`EverybodyServesOneToken`* without hypotheses; `SavedStaysThere`*,
`SpoiltStaysThere` and `PasswordsAreSomewhere` if files can be read (~ReadErrors;
otherwise false, see SavedIsThere below). The first two of these three are about
one multitop at a time: once two have run together (`together`), the one that
writes last replaces what the other saved, and the properties say nothing. A
spoilt state.toml that cannot be moved aside is overwritten, after a notice that
ends `spoilt`; a password that the credential store refuses is stripped from
config.toml all the same, after a notice (`unsaved`). What is on disk is a set of
directories, so each invariant speaks of all of them; `SavedInv` adds what an
instance knew before it wrote, `SomewhereInv` what it is about to write.

### AgentProofs (InstallInv: 7.0*10^6 states; LinkInv: 5.6*10^5)

* AgentInstall, for any comers, builds and process ids: `OnlyWholeAgents`*,
  `NoRefusalForNothing`, `StagingIsRemoved`, `NobodyInstallsTheUnfinished`. As
  long as no two uploads had one staging name (`shared`, which the code cannot
  rule out; OneWriter, below), a file is at one name, open in one cat, and what
  test, chmod and mv found out still holds when the next command runs
  (`NameInv`, `WriteInv`, `StepInv`); a file that is gone was swept (`WhyInv`,
  `ThereInv`).
* HostLink, for any mixture of agents and any number of failures: `EndsAreExplained`*,
  `NoOlderFrames`, `FramingHolds`, `TheWaitGrows` and `NewerStays` (an action
  property: a newer agent whose Hello is compatible is not replaced; one whose
  Hello is not, is). That the task reads at the head of a packet is about every piece on
  its way (`StreamInv`: near \o far is a sequence of whole packets, but for the
  end of an agent that was killed; `FirstInv`: its first piece is what the task
  is to read next); that Hello comes once and first is about the stream too
  (`HelloInv`, `NewerInv`); and a word on stderr is there, or kept, until the
  end (`SaidInv`).

### PanelProofs (CatInv: 1.1*10^6 states; ActInv: 6.2*10^5; PollsInv: 3.4*10^5)

* OpsCatalogue, for any tools, sections and window: `KeptListIsNoFilter`*,
  `OldListsExpire`. A kept list is of its digest, and was answered as
  long ago as it says (`KeptInv`).
* OpsCard, for any answers: `CardIsDeserved`*, of `RedMeansAFault` (in both
  directions: what was read and is a fault is red, and nothing else) and
  `NothingUnreadIsGreen`. The cards have no history; the proofs are by cases over what an answer may say,
  part by part (`ToneOf`, `WasRead`, `CardFault`).
* HostActions, for any panels, hosts, processes and faults: `ActionsRunOnce`*
  and `PaneLinesAreTheHosts`. `NamedInv` says that a task does what its
  confirmation named, on that host and to that process, `OnceInv` that one whose
  command may have run does not come back to spawning it, `GenInv` that a
  panel's generation is one task's, `ToldOfInv` that the first word of a new task
  that is still to be read wipes the pane of the earlier one.

* OpsPolls, for any hosts, paces and numbers of failures: `HostsAreReadInTime`*
  and `NothingHalfIsKept`, from `PollsInvariant`. `KeptIsOfItsHost` says that a
  kept answer has its own host's rate, or the fallback if its health verdict was
  missing; `ViewInv` and `AgentInv` that what is about to be written is no older
  than the asking took, and how long the pass and the wait can be; `InTime` that
  an answer is not older than its host's cadence now, nor will be when the wait
  is over, and that one the pass has been at is younger still (`LeftBy`). The
  view is the hard part: it replaces an answer between the agent's look and its
  write, and the wait was computed from what was kept before.
  HostsAreReadInTime has a hypothesis, `TimelyPasses`: what a pass leaves
  behind, and the longer of the next pass and the next tick, fit in the cadence
  of every host; so do what the view kept meanwhile and what an earlier run
  kept. Without it the property is false (a pass over many slow hosts takes
  longer than the cadence of the first). With the code's constants and hosts
  that publish every 900 s, it is 359 s + 445 s <= 900 s, and holds for passes of
  up to 541 s; on the instance of Client it is 1 + 3 <= 8.

Assumptions that exist for the proofs, all of them about values that mean
"none" or about the shape of a constant: the sentinels of UpgradeLock, VaultFile,
Credentials, AgentInstall and Sieve are not members of the sets they stand
beside; Sections is a sequence, and the fields of Crons are a string and a
Boolean.

### What stays with TLC

* Liveness (EveryRunIsTold, LockIsLetGo, EveryRunEnds, SizeArrives,
  FailureIsNotForLong, KillIsAnswered): fairness and ENABLED are out of the
  proof system's reach.
* LogIsTheScreen (Painter): the painter folds an operator over the items of a
  line, that over the items of a piece, and the property compares the outcome
  with the terminal's, which took the items one by one: that needs induction
  over data with an operator as its parameter. So does RingIsTheTail, whose
  erased rows are a fold.

## Known disagreements

Where the code does something else than a comment, a doc or a test of the
repository says. The first four are runs and PROJECT.json quotes the lines.
Of the others, those with a property are stated in their module, and TLC
refutes them on the instance given; those without were met while modelling,
and the model follows the code.

| Property | What the code does | Instance |
|---|---|---|
| MutualExclusion (UpgradeLock) | lock.rs:94 removes the directory that is there, not the one that was judged: of two agents that break a dead lock, the slower removes the faster one's new lock, and both run. lock.rs:97-98: "That client now holds it legitimately." | UpgradeLockBreak |
| LookupsLand (AppUpgrade) | replace_panels carries a lookup in flight over, and its answer is dropped as one of the old list; the upgrade confirmation is deferred from then on. panel.rs:451-452: "a stale in-flight state would defer the confirm forever" | AppLookup |
| OwnPassword (Files) | port_plaintext_passwords gives an entry's password to every panel with its host and port, whatever the user. config/save.rs:92-98: credentials are carried "keyed on the full identity" | FilesPort |
| NoRunIsReplaced (AppUpgrade) | `:vault unlock` (run/palette.rs:66) and the answer of an unlock (app/apply_vault.rs:105) raise the upgrade confirmation without looking at the runs, and neither does the key that confirms it (run/confirm_keys.rs:60-71): a run in flight is aborted and replaced. run/tasks.rs:94-96: "a second run cannot start while the first is in flight" | AppReplace |
| StoppedStaysStopped (UpgradeSession) | aborting the client's task ends its ssh; the agent drops send errors and goes on, up to starting the command. run/tasks.rs:105-111: "Left running, the upgrade continues on the remote" | SessionLive |
| RefusalIsJustified (UpgradeLock) | the age is not looked at once a pid could be read, so a lock with a reused pid is never broken. lock.rs:31-33: STALE_AFTER "only governs the case where the PID cannot be read or has been reused" | SerialSpec with PidsRecur = TRUE |
| MarkersNeedNoNewline (Sieve) | a marker behind output without a newline, in one read, goes out as text. sieve.rs:6-8: markers "cannot be missed for want of a newline" | Exec |
| MarkersAreFound (Sieve) | so does one whose `\r` and `\n` come in two reads. agent/tests/sieve_test.rs:3-5: "reads split anywhere" | Exec with SplitsNewline = TRUE |
| MarkersHaveNewlines (Sieve) | finish takes a partial for a marker. sieve.rs:110-111: "A marker needs its newline to be a marker" | Exec |
| NeverRanIsTrue (UpgradeSession) | a command's own exit status 111 or 125 is told as a run that never was. exec/mod.rs:85: "it never ran" | SessionPromise with 125 in CmdCodes |
| OkMeansItRan (UpgradeSession) | a start-up file's `exit 0` is told as a success. verdict.rs:57: "Say what actually happened." | SessionPromise with 0 in RcCodes |
| SilenceIsBounded (UpgradeSession) | after a stall ssh's stderr is read to its end without a limit. tasks/upgrade.rs:21-23: "Silence is bounded" | SessionLive with CanHang = TRUE |
| DrainEnds (UpgradeSession) | a process left behind keeps the drain going. pump.rs:93-96: "rather than hanging forever" | SessionLive with Daemons = TRUE |
| FailedIsTrue (AppUpgrade) | the watchdog takes a run whose AuxDone is still queued for dead. run/event_loop.rs:167-169: "a task that dies without sending AuxDone" | AppRuns |
| ArmedMeansInFlight (AppUpgrade) | the watchdog does not disarm a quit. app/types.rs:21: "Upgrades are in flight and a quit is armed." | AppRuns |
| MarkerMeansInterrupted (AppUpgrade) | a failed run leaves the marker of an interrupted one. ui/keybar_confirm.rs:57-58: "when a run started and no completion followed" | AppRuns |
| NeverForGood (VaultLockout) | a deadline is a wall-clock time: when the clock is set back, a caller is refused for the hard lockout and for as long as the clock was set back. lockout/state.rs:122-134 caps the wait at the hard lockout | Vault |
| - (VaultLockout) | two processes each have the attempts in memory and write one record: the later one's count replaces the other's | - |
| RotationStays (VaultFile) | a vault that was open during a rotation keeps the old header, and its next change or removal of a password writes the old wrapper back. app/apply_vault.rs:113-115 has the open handle stay valid | Vault |
| RefusedOnlyIfRestored without its excuses (VaultFile) | a vault made anew after a removal, a clock set back, a failed directory sync or two handles together are refused as rolled back. rollback.rs promises "never falsely accusing" | Vault |
| WhatIsSetIsUsed without its excuses (Credentials) | a password saved or deleted while the vault is locked leaves the vault's entry, and the next unlock brings it back | Vault |
| EmptiedOnPurpose (Credentials) | the draft is prefilled before the stores have answered, so saving a row nobody emptied deletes. password_actions.rs:167: "`None` means the field was emptied on purpose" | Vault |
| - (Credentials) | Server Settings opened again forgets a rotation under way; "vault unlock" in the palette moves the epoch, the rotation's answer is dropped and the screen waits for ever. Esc during a creation leaves a vault.bin that later attempts find in their way until a restart. | - |
| - (Credentials, HostActions) | `?` and `:` are taken before a vault prompt or a confirmation. run/handle_key.rs:225: they "own every key while up". With a kill armed, `:add` opens the passwords screen, and a key typed there confirms the kill. | - |
| OneWriter (AgentInstall) | the staging token is the process id (stream/prod.rs:279, run/spawn.rs:56), one for all panels of a process. ssh/command.rs:51-52: two panels "cannot have one `mv` the file another is still writing" | Client |
| - (AgentInstall) | the sweep removes staging files of other builds that are being written. ssh/command.rs:86-88: "Safe to run concurrently" | - |
| OwnEndIsNotAClose (HostLink) | an end the task made itself, after a second Hello, is told as "Connection closed". run/spawn.rs:216-218 also says that a Hello must be first and only once | Client |
| - (HostLink) | `read_packet`'s select! drops a header's first half when a line of stderr comes between (`torn`); the wait for the last line of stderr has no limit; an older client replaces a newer agent whose Hello is not compatible (`NeedsReplacement`). proto/mod.rs:156-157: "never downgrade a newer remote" | - |
| ReadTwicePerCadence (OpsPolls) | a tick is an interval less five seconds, the time to ask the hosts before it comes on top, and an answer just short of due waits for the next tick. ops/cache.rs:330-336: the client reads "MORE often than the rule asks, never less" | Client with Slack = 1 |
| - (OpsPolls) | two pollers that find one file due both ask. ops/cache.rs:22-26: they "cannot ask the estate twice". With a cache that cannot be written a host is asked at every check. | - |
| NothingVanishes (OpsCatalogue) | the agent's own server looks at the machine once for discover and again for the list; the list of the second is kept under the first. mcp/catalogue.rs:51-54: a tool "cannot vanish from the panel" | Client with MaxMoves = 2 |
| LogIsTheScreen (Painter) | a piece that ends in a line that was moved up to and has text is read again and moves up twice. painted.rs:116-118: "makes the repeated emission of a growing line idempotent" | Client with CutAnywhere = TRUE |
| - (OpsCard) | a health verdict without a date is never stale; a check of the suite without a published verdict is not missed; disks are green when the pools could not be read | - |
| - (HostActions) | the note of a kill is overwritten by the next packet of the monitor; after a stall the wait for the end of stderr has no limit; a tail or kill on a custom panel ends its polling for good, and so does an edit of the list; tails go on after the view is left | - |
| SavedIsThere (Files) | a state.toml that cannot be read, unlike one that cannot be parsed, is replaced by the next save; save_servers does the same for a config.toml it cannot read. config/save.rs:63: "preserving everything else the file holds" | Client with ReadErrors = TRUE |
| - (Files) | of two instances, the last one's memory replaces the other's records; a start that finds the token's file empty refuses, where owner_file.rs:43-44 says that it "reads the winner's file instead"; a failed directory sync is not reported | - |
| - (AppUpgrade) | a run's history is saved under the host's own name (app/apply.rs:116) and looked for under the name in the list (panel.rs:307) | - |

## Not modelled

* Cryptography, the vault's byte layout, the platforms' secret stores: data and
  services. VaultFile has their outcomes (which key loads, what opens what).
* The HTTP server's routes, TLS and pairing: read-only snapshots of the app.
  Files has the race for their token.
* Parsing of config.toml, and what save_servers keeps of each table; history,
  notifications, diagnostics, `main.rs` and `background.rs`: parsing, append-only
  logs, start-up.
* Layout, drawing, filters, graphs, the modals that only show: no state that
  outlives a frame.
* Codecs of packets, samplers (`proc.rs` and the like), what the tools of the
  agent's MCP server answer: data read from the host.
* Escape sequences that a read cuts in the middle (Painter), columns (the code
  has none either), and MCP's matching of answers to ids: one request is out at
  a time.
* Several panels in Credentials, and the import of hosts from ssh's
  configuration.
* The Android client, tools, fuzz targets and scripts: other programs.

## Plan

The inventory above its last two rows is modelled, and what the runs check of
its safety is proved but for LogIsTheScreen. What is left:

1. Of the properties that are stated but in no configuration: GapIsSaid
   (OpsPolls), HeldMayBeMarker (Sieve), KeepsTrying (HostLink), ListedOnce
   (OpsCatalogue), PoolsCountOnce (OpsCard).
2. Painter: what one item does to the unfinished line, and one line to the
   ring, as lemmas about the operators that are folded; the properties over
   pieces of any length stay with TLC.
3. Hazards without a property (PROJECT.json): a process left behind that keeps
   the drain going, the host's side of an aborted task, and a vault handle that
   was open before a rotation. Each is a known disagreement above.
