SPECIFICATION MCSpec
CONSTANTS
  Ids <- MCIds
  TableOf <- MCTableOf
  KeyOf <- MCKeyOf
  Foreign = {"v1"}
  ColumnsOf <- MCColumns
  Data <- MCData
  Null = "null"
  Ops <- MCOps
  Skew = 4
  Retention = 0
  MaxSeq = 10
  MaxGaps = 1
  MaxNow = 2
INVARIANTS
  HierarchyOK
  VersionCountsApplied
  LatestEditWins
  PullCoversEverything
PROPERTIES
  NoResurrection
  VisibleChangesNumbered
CHECK_DEADLOCK FALSE
