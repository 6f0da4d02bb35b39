SPECIFICATION Spec
CONSTANTS
  Procs = {a1, a2, a3}
  NoProc = NoProc
  StampCanFail = FALSE
  PidsRecur = FALSE
SYMMETRY Symmetry
INVARIANTS MutualExclusion
CHECK_DEADLOCK FALSE
