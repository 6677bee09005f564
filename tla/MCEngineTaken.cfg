SPECIFICATION Spec
CONSTANTS
  Cmds = {"w1", "w2"}
  Twofold = {"w1"}
  Tries = 2
  Triggers = {"t1"}
  Accounts <- MCAccounts
  Worlds <- MCServerWorlds
  MaxBad = 1
INVARIANTS SavedMeansTaken
CHECK_DEADLOCK FALSE
