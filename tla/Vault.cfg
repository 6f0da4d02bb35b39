SPECIFICATION VaultSpec
CONSTANTS
  Handles = {h1, h2}
  NoHandle = none
  Absent = absent
  Torn = torn
  Masters = {m1, m2}
  MaxCounter = 2
  MaxClock = 1
  MaxKeys = 2
  Procs = {"p1", "p2"}
  Callers = {"c1", "c2", "c3"}
  Home <- HomeOf
  Free = 1
  Hard = 3
  Cap = 2
  HardWait = 3
  MaxNow = 4
  MaxTries = 3
  Pw = {p1, p2}
  NoPw = nopw
  NoFile = nofile
  MaxVaultEpoch = 4
  MaxPanels = 2
  MaxJobs = 2
SYMMETRY Alike
VIEW Seen
CONSTRAINT Bounded
INVARIANTS
  VaultIsWhole SavedStays OpenIsCurrent KilledIsNotForgiven
  WaitsForSomebody WhatIsSetIsUsed
PROPERTIES
  RefusedOnlyIfRestored WaitIsServed OnlySuccessEndsWait OpensOnlyWhenAsked
CHECK_DEADLOCK FALSE
