SPECIFICATION FairSpec
CONSTANTS
  Hosts = {h1, h2}
  NoCommand = {h2}
  MaxPanels = 1
  Edits = TRUE
  CanDie = FALSE
  Budget = 0
  MaxViews = 1
  QueueCap = 2
  MaxGen = 2
  MaxEpoch = 1
  MaxBoots = 0
PROPERTIES LookupsLand
CHECK_DEADLOCK FALSE
