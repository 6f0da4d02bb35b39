------------------------------- MODULE OpsCard -------------------------------
(***************************************************************************)
(* What the Ops card makes of a host's answers: ops/answers.rs reads each  *)
(* of them, ops/model.rs, model_health.rs and status.rs judge them, and    *)
(* ops/render/ draws a line of one tone for each section.                  *)
(*                                                                         *)
(* An answer is kept as the host sent it, so that a section's tone can be  *)
(* held against the words on the wire.  A card is about one section at a   *)
(* time, with the sections that it looks at.                               *)
(***************************************************************************)
EXTENDS Integers, Sequences, FiniteSets, FiniteSetsExt

CONSTANTS
  Healths, Suites,  \* what health://latest and health.list answer
  Egresses, Crons, Containers, PoolLists, Mounts, Triages, AlertCounts, Facts,
  Grace, FallbackStale,  \* STALE_GRACE_S, HEALTH_STALE_AFTER_S
  Tight        \* TIGHT_PERCENT

ASSUME CardAssumption ==
  /\ {Grace, FallbackStale, Tight} \subseteq Nat
  /\ Crons \subseteq SUBSET [rc : STRING, alerting : BOOLEAN]

VARIABLES
  wire,   \* the raw answers of the last reading, by section
  card   \* what the panel says: asking, ready, or failed with the last reading

cardVars == <<wire, card>>

Parts == {"health", "list", "vpn", "cron", "containers", "zfs", "disk", "facts", "alerts",
          "triage"}

\* cache::Raw: an answer, or why there is none.
Raws(values) == {<<"value", v>> : v \in values} \cup {<<"absent">>, <<"failed">>, <<"unknown">>}

Unasked == [p \in Parts |-> <<"absent">>]

CardInit == card = "asking" /\ wire = Unasked

\* A reading: one section varies, with the sections that its line looks at.
CardAnswered(r) == card' = "ready" /\ wire' = r
HealthAnswered == \E h \in Raws(Healths), l \in Raws(Suites) :
  CardAnswered([Unasked EXCEPT !["health"] = h, !["list"] = l])
DiskAnswered == \E z \in Raws(PoolLists), d \in Raws(Mounts) :
  CardAnswered([Unasked EXCEPT !["zfs"] = z, !["disk"] = d])
OtherAnswered ==
  \/ \E e \in Raws(Egresses) : CardAnswered([Unasked EXCEPT !["vpn"] = e])
  \/ \E f \in Raws(Facts) : CardAnswered([Unasked EXCEPT !["facts"] = f])
  \/ \E c \in Raws(Crons) : CardAnswered([Unasked EXCEPT !["cron"] = c])
  \/ \E c \in Raws(Containers) : CardAnswered([Unasked EXCEPT !["containers"] = c])
  \/ \E t \in Raws(Triages) : CardAnswered([Unasked EXCEPT !["triage"] = t])
  \/ \E a \in Raws(AlertCounts) : CardAnswered([Unasked EXCEPT !["alerts"] = a])

\* A poll that fails after an answer: the last one stays below the reason.
LastStays == card = "ready" /\ card' = "failed" /\ UNCHANGED wire

CardNext ==
  \/ card = "asking" /\ (HealthAnswered \/ DiskAnswered \/ OtherAnswered)
  \/ LastStays
CardSpec == CardInit /\ [][CardNext]_cardVars

---------------------------------------------------------------------------
Kind(p) == wire[p][1]
CardAnswer(p) == wire[p][2]

\* parse_part: an answer that cannot be read is the tool's failure.
Part(p, readable) ==
  IF Kind(p) = "value" THEN (IF readable THEN "ready" ELSE "failed") ELSE Kind(p)

\* Mutant: a section that was not read is one that is not there.
NotReadyQuiet(kind) == IF kind = "failed" THEN "warn" ELSE "quiet"
\* not_ready: the tone of a section without a reading.
NotReady(kind) == IF kind = "absent" THEN "quiet" ELSE "warn"

---------------------------------------------------------------------------
\* Mutant: a check is known by its name, whatever instance it ran in.
TakesName(suite, c) == \E s \in suite : s.inSuite = "yes" /\ s.name = c.name
\* Suite::takes: the instance must match when both name one.
Takes(suite, c) ==
  \E s \in suite : s.inSuite = "yes" /\ s.name = c.name
                   /\ (s.instance = "" \/ c.instance = "" \/ s.instance = c.instance)

\* parse_health_raw, of the two answers that make one section.
HealthPart ==
  LET kinds == {Kind("health"), Kind("list")}
  IN IF kinds = {"value"} THEN "ready"
     ELSE IF "failed" \in kinds THEN "failed"
     ELSE IF "unknown" \in kinds THEN "unknown" ELSE "absent"

\* is_stale: by the published cadence, and by the fallback without one.
Stale(h) ==
  h.oldest # -1 /\ h.oldest > (IF h.cadence = -1 THEN FallbackStale ELSE h.cadence + Grace)
\* sampling_warning.
Slow(h) == h.cadence # -1 /\ 2 * h.sampled > h.cadence

\* narrow_to, and health::health.  A verdict without a readable ok is a failure.
HealthTone ==
  LET h == CardAnswer("health")
      checks == {c \in h.checks : Takes(CardAnswer("list"), c)}
  IN IF HealthPart # "ready" THEN NotReady(HealthPart)
     ELSE IF checks = {} THEN "warn"
     ELSE IF \E c \in checks : c.ok # "yes" THEN "bad"
     ELSE IF Stale(h) \/ Slow(h) THEN "warn" ELSE "good"

---------------------------------------------------------------------------
LeakWords == {"confirmed", "leaked", "disagreement", "unverified", "unknown"}
\* leak_of: no word is Unknown, and a word that the client does not have is an error.
LeakOf(word) == IF word = "" THEN "unknown" ELSE word

\* Tunnel::severity.
Severity(leak) ==
  IF leak = "confirmed" THEN 0 ELSE IF leak \in {"leaked", "unknown"} THEN 2 ELSE 1

\* is_undeclared: the machine is its own and only stack.
Undeclared(f) == f.mtime = -1 /\ f.declared = 0 /\ ~f.read /\ \A r \in f.rows : r.present

\* Mutant: the first tunnel stands for all of them.
VpnToneOfFirst ==
  LET leaks == {LeakOf(w) : w \in CardAnswer("vpn")}
      part == Part("vpn", leaks \subseteq LeakWords)
  IN IF part # "ready" THEN NotReady(part)
     ELSE IF leaks = {} THEN "quiet"
     ELSE <<"good", "warn", "bad">>[1 + Min({Severity(l) : l \in leaks})]
\* parse_egress, and vpn: the worst tunnel decides.
VpnTone ==
  LET leaks == {LeakOf(w) : w \in CardAnswer("vpn")}
      part == Part("vpn", leaks \subseteq LeakWords)
  IN IF part # "ready" THEN NotReady(part)
     ELSE IF leaks = {} THEN "quiet"
     ELSE <<"good", "warn", "bad">>[1 + Max({Severity(l) : l \in leaks})]

\* machine: a stack with a problem has a line of its own, but a machine without a
\* declaration has none of them.
StackTones ==
  LET f == CardAnswer("facts")
  IN IF Kind("facts") # "value" THEN {}
     ELSE IF Undeclared(f) THEN {"quiet"}
     ELSE {"warn" : r \in {r \in f.rows : r.problem}}

---------------------------------------------------------------------------
\* Job::in_trouble, and cron.
CronTone ==
  LET jobs == CardAnswer("cron")
      part == Part("cron", TRUE)
  IN IF part # "ready" THEN NotReady(part)
     ELSE IF jobs = {} THEN "quiet"
     ELSE IF \E j \in jobs : j.rc \notin {"none", "0"} \/ j.alerting THEN "bad" ELSE "good"

\* Mutant: a container that has stopped is no trouble.
InTroubleWhenUnhealthy(c) == c.health = "unhealthy"
\* Container::in_trouble.
InTrouble(c) ==
  \/ c.health = "unhealthy"
  \/ c.state # "running" /\ ~(c.compose = "" /\ c.exited = "0")

\* Container::stack.
Stack(c) == IF c.instance # "" THEN c.instance ELSE c.compose

\* stack_row, of one stack.
StackTone(group) ==
  IF \E c \in group : InTrouble(c) THEN "bad"
  ELSE IF \A c \in group : c.state # "running" THEN "quiet"
  ELSE IF \E c \in group : c.state = "running" /\ c.health \in {"none", ""} THEN "warn"
  ELSE "good"

\* containers: one line for each stack.
ContainerTones ==
  LET cs == CardAnswer("containers")
      part == Part("containers", TRUE)
  IN IF part # "ready" THEN {NotReady(part)}
     ELSE IF cs = {} THEN {"quiet"}
     ELSE {StackTone({c \in cs : Stack(c) = s}) : s \in {Stack(c) : c \in cs}}

---------------------------------------------------------------------------
\* Mutant: a pool is what it says of itself, whatever its members say.
WholeByState(p) == p.state = "ONLINE"
\* Pool::verdict: ONLINE, with every member ONLINE.
Whole(p) == p.state = "ONLINE" /\ p.members \subseteq {"ONLINE"}

\* parse_zfs: a pool without a list of members is an error of the whole answer.
ZfsPart == Part("zfs", \A p \in CardAnswer("zfs") : p.told)
ZfsTone ==
  IF ZfsPart # "ready" THEN NotReady(ZfsPart)
  ELSE IF CardAnswer("zfs") = {} THEN "quiet"
  ELSE IF \E p \in CardAnswer("zfs") : ~Whole(p) THEN "bad" ELSE "good"

\* Disk::counted: each pool once, at its first dataset, and no boot partition.
PoolsCounted(ms) ==
  {i \in 1..Len(ms) : ~ms[i].boot
     /\ ~(ms[i].pool # "" /\ \E j \in 1..(i - 1) : ~ms[j].boot /\ ms[j].pool = ms[i].pool)}

\* Disk::total.
Total(ms) ==
  LET size(i) == ms[i].size
      free(i) == ms[i].free
  IN [size |-> MapThenSumSet(size, PoolsCounted(ms)), free |-> MapThenSumSet(free, PoolsCounted(ms))]
Percent(t) == IF t.size = 0 THEN 0 ELSE ((t.size - t.free) * 100) \div t.size

\* disk: the pools decide, if they were read; then the share that is used.
DiskTone ==
  LET part == Part("disk", TRUE)
      ms == CardAnswer("disk")
  IN IF part # "ready" THEN NotReady(part)
     ELSE IF PoolsCounted(ms) = {} THEN "quiet"
     ELSE IF ZfsPart = "ready" /\ (\E p \in CardAnswer("zfs") : ~Whole(p)) THEN "bad"
     ELSE IF Percent(Total(ms)) >= Tight THEN "bad" ELSE "good"

\* alerts.
AlertTone ==
  LET part == Part("alerts", TRUE)
  IN IF part # "ready" THEN NotReady(part)
     ELSE IF CardAnswer("alerts") = 0 THEN "good" ELSE "warn"

\* parse_triage, which wants every field; triage::triage.
TriageTones ==
  LET t == CardAnswer("triage")
      part == Part("triage", t.needs # "unsaid" /\ t.items # "unsaid" /\ t.quiet # "unsaid")
  IN IF part # "ready" THEN {NotReady(part)}
     ELSE (IF t.items # "none" THEN {"bad"} ELSE IF t.needs = "yes" THEN {"warn"} ELSE {"good"})
          \cup (IF t.quiet = "some" THEN {"quiet"} ELSE {})

\* sections: the tones of each section's lines.
Tones ==
  [p \in Parts \ {"list"} |->
     IF p = "health" THEN {HealthTone} ELSE IF p = "vpn" THEN {VpnTone}
     ELSE IF p = "cron" THEN {CronTone} ELSE IF p = "containers" THEN ContainerTones
     ELSE IF p = "zfs" THEN {ZfsTone} ELSE IF p = "disk" THEN {DiskTone}
     ELSE IF p = "alerts" THEN {AlertTone} ELSE IF p = "facts" THEN StackTones ELSE TriageTones]

\* Snapshot::unknowns: the sections that were not read.
Unknowns ==
  {p \in Parts \ {"health", "list"} : Kind(p) = "unknown"}
  \cup (IF HealthPart = "unknown" THEN {"health"} ELSE {})

---------------------------------------------------------------------------
\* The space of the machine, with the datasets of one pool sharing one space.
Spaces(ms) ==
  {[pool |-> ms[i].pool, size |-> ms[i].size, free |-> ms[i].free, of |-> 0] :
     i \in {i \in 1..Len(ms) : ~ms[i].boot /\ ms[i].pool # ""}}
  \cup {[pool |-> "", size |-> ms[i].size, free |-> ms[i].free, of |-> i] :
     i \in {i \in 1..Len(ms) : ~ms[i].boot /\ ms[i].pool = ""}}

\* The total of the disks counts "each ZFS pool ONCE" (model.rs:267-269) and every
\* other filesystem, however many datasets of how many pools lie between them.
PoolsCountOnce ==
  Kind("disk") = "value" =>
    LET size(x) == x.size
        free(x) == x.free
        all == Spaces(CardAnswer("disk"))
    IN Total(CardAnswer("disk")) =
         [size |-> MapThenSumSet(size, all), free |-> MapThenSumSet(free, all)]

Judged == {"health", "vpn", "cron", "containers", "zfs", "disk"}
BrokenPool ==
  /\ Kind("zfs") = "value" /\ \A p \in CardAnswer("zfs") : p.told
  /\ \E p \in CardAnswer("zfs") : ({p.state} \cup p.members) \ {"ONLINE"} # {}
SameCheck(a, b) == a.name = b.name /\ Cardinality({a.instance, b.instance} \ {""}) < 2

\* A word on the wire that says that something is wrong.
CardFault(p) ==
  CASE p = "health" -> \E c \in CardAnswer(p).checks, s \in CardAnswer("list") :
                         c.ok # "yes" /\ s.inSuite = "yes" /\ SameCheck(s, c)
    [] p = "vpn" -> CardAnswer(p) \cap {"", "unknown", "leaked"} # {}
    [] p = "cron" -> ~(CardAnswer(p) \subseteq [rc : {"none", "0"}, alerting : {FALSE}])
    [] p = "containers" -> \E c \in CardAnswer(p) :
                             \/ c.health = "unhealthy"
                             \/ c.state # "running" /\ (c.compose # "" \/ c.exited # "0")
    [] p = "zfs" -> BrokenPool
    [] p = "disk" -> /\ PoolsCounted(CardAnswer(p)) # {}
                     /\ BrokenPool \/ Percent(Total(CardAnswer(p))) >= Tight

\* Whether the section's answer came, and can be read.
WasRead(p) ==
  /\ Kind(p) = "value" /\ (p = "health" => Kind("list") = "value")
  /\ p = "vpn" => CardAnswer(p) \subseteq LeakWords \cup {""}
  /\ p = "zfs" => \A z \in CardAnswer(p) : z.told

\* A section has a red line exactly when its answer was read and says that
\* something is wrong with what it is about: a member that is REMOVED in a pool
\* that is ONLINE, one stopped service among the stacks, one tunnel that leaks,
\* one check of the suite in one instance; and not for a check that is not in the
\* suite, or a one-shot container that is done.  A fault is never only yellow or
\* quiet.
RedIsAFault ==
  card # "asking" =>
    \A p \in Judged : "bad" \in Tones[p] <=> WasRead(p) /\ CardFault(p)

\* A section that was not read is no all-clear: it is yellow (the machine's own
\* line has no tone), it is named among
\* the unknown ones (so that the pass is not a whole one), and nothing is green
\* that has not both been asked and answered ("never an all-clear",
\* render/mod.rs:199-201).
OnlyReadIsGreen ==
  card # "asking" =>
    \A p \in DOMAIN Tones :
      /\ p \in Unknowns \ {"facts"} => Tones[p] = {"warn"}
      /\ "good" \in Tones[p] =>
           Kind(p) = "value" /\ (p = "health" => Kind("list") = "value")

\* The card neither alarms nor reassures without reason: red is a fault that was
\* read, and green is something that was read (ops/render/mod.rs:193-201,
\* model.rs:105).
ToneIsDeserved == RedIsAFault /\ OnlyReadIsGreen
=============================================================================
