SPECIFICATION Spec
CONSTANTS
  Null = null
  None = null
  Ids <- MCIds
  TableOf <- MCTableOf
  KeyOf <- MCKeyOf
  ColumnsOf <- MCColumns
  Foreign = {}
  Data = {}
  Ops = {}
  Skew = 100
  Base = 4
  FirstYear = 1970
  LastYear = 1973
  Horizon = 9
  Lookahead = 5
  FILTER_MAX_DEPTH = 3
  FILTER_MAX_NODES = 5
  DayOfTs <- MCDayOfTs
  Devices <- MCDevices
  Pool <- MCPool
  Today <- MCToday
  MaxClock = 20
  Menu <- MCMenu
  Synced <- MCSynced
  a0 <- MCa0
INVARIANTS
  QuietAlone
  Predicted
  ScreensAgree
  Merged
  ExpandIsRule
PROPERTIES
  DropsAsAsked
CHECK_DEADLOCK FALSE
