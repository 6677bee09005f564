SPECIFICATION Spec
CONSTANTS
  Cmds = {"w1", "w2"}
  Twofold = {"w1"}
  Tries = 2
  Triggers = {"t1"}
  Accounts <- MCAccounts
  Worlds <- MCWorlds
  MaxBad = 1
INVARIANTS
  RunsOnce
  SavedMeansKept
  NothingLeftQueued
  TriggerCovered
  DeliveredToItsOwner
PROPERTY
  EveryRequestAnswered
CHECK_DEADLOCK FALSE
