SPECIFICATION Spec
CONSTANTS
  Hosts = {h1}
  NoCommand = {}
  MaxPanels = 1
  Edits = FALSE
  CanDie = FALSE
  Budget = 0
  MaxViews = 1
  QueueCap = 1
  MaxGen = 2
  MaxEpoch = 0
  MaxBoots = 0
INVARIANTS NoRunIsReplaced
CHECK_DEADLOCK FALSE
