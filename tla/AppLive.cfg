SPECIFICATION FairSpec
CONSTANTS
  Hosts = {h1, h2}
  NoCommand = {h2}
  MaxPanels = 2
  Edits = FALSE
  CanDie = TRUE
  Budget = 0
  MaxViews = 1
  QueueCap = 1
  MaxGen = 2
  MaxEpoch = 0
  MaxBoots = 0
PROPERTIES
  EveryRunEnds
CHECK_DEADLOCK FALSE
