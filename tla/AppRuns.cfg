SPECIFICATION Spec
CONSTANTS
  Hosts = {h1, h2}
  NoCommand = {}
  MaxPanels = 2
  Edits = TRUE
  CanDie = TRUE
  Budget = 1
  MaxViews = 1
  QueueCap = 1
  MaxGen = 2
  MaxEpoch = 1
  MaxBoots = 1
SYMMETRY Symmetry
CONSTRAINT FewChanges
INVARIANTS
  AnswersComeFromTheHost StartedHasItsTask LastWordIsOwn PowerLossIsSeen
CHECK_DEADLOCK FALSE
