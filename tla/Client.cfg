SPECIFICATION ClientSpec
CONSTANTS
  Comers = {"a", "b", "d"}
  Build <- BuildOf
  Token <- TokenOf
  Errand <- ErrandOf
  NoFile = "none"
  Agents = {"same", "newer", "incompatible", "older", "invalid", "no_hello", "no_version", "banner", "repeats"}
  MaxResizes = 1
  MaxFailures = 1
  OpsHosts <- TwoHosts
  Watched = "h1"
  Cadence <- SameCadence
  Fallback = 4
  Slack = 2
  Margin = 1
  Check = 2
  MaxTook = 1
  MaxPollFaults = 1
  Old = 10
  Pollers = {a, b}
  Sections <- TwoTools
  Versions = {"", "1"}
  Window = 1
  MaxMoves = 1
  MaxBreaks = 1
  Healths <- ManyHealths
  Suites <- ManySuites
  Egresses <- ManyEgresses
  Crons <- ManyCrons
  Containers <- ManyContainers
  PoolLists <- ManyPoolLists
  Mounts <- ManyMounts
  Triages <- ManyTriages
  AlertCounts = {0, 2}
  Facts <- ManyFacts
  Grace = 1
  FallbackStale = 5
  Tight = 90
  Panels = {1}
  ActHosts = {"a", "b"}
  Pids = {a, b}
  FirstHost <- HereFirst
  MaxGen = 2
  MaxFaults = 1
  MaxWire = 1
  Letters = {l}
  MaxItems = 7
  Cap = 3
  CutAnywhere = FALSE
  Instances = {a, b}
  Heads = {s1, s2}
  Accounts = {a1}
  Plain = {a1}
  HostOf <- OneHost
  ReadErrors = FALSE
  MaxRuns = 2
  MaxEdits = 1
  MaxTokens = 2
  MaxCuts = 1
SYMMETRY Alike
CONSTRAINT FewRuns
INVARIANTS
  CutInstallsNothing EndIsExplained ReadOncePerCadence NeverAFilter
  ToneIsDeserved ConfirmedRunsOnce LogIsTheScreen RingIsTheTail
  SavedIsThere OneToken
CHECK_DEADLOCK FALSE
