SPECIFICATION Spec
CONSTANTS
  Tabs = {"t1", "t2"}
  Views = {"v1", "v2"}
  Layouts = {"list", "kanban"}
  Watches <- MCWatches
  Saved <- MCSaved
  MaxVersion = 1
  MaxConns = 2
  MaxPosts = 2
  Networks <- MCNetworks
INVARIANTS
  NoEngineForDeleted
  ConnectedHears
  ShowsWhatItWatches
CHECK_DEADLOCK FALSE
