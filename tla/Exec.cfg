SPECIFICATION ExecSpec
CONSTANTS
  Procs = {a1, a2, a3, a4}
  NoProc = NoProc
  StampCanFail = FALSE
  PidsRecur = TRUE
  MarkKinds = {"started", "done"}
  NoMark = "none"
  MaxText = 3
  MaxMarks = 2
  SplitsNewline = FALSE
SYMMETRY Symmetry
INVARIANTS
  MutualExclusionUnlessRobbed JudgementSparesHolders InTurnOneHolds NothingLostOrTwice
  MarkersAreFound
PROPERTIES InTurnRefusedJustly
CHECK_DEADLOCK FALSE
