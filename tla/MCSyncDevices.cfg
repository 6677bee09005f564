SPECIFICATION Spec
CONSTANTS
  Ids <- TaskIds
  TableOf <- TaskTableOf
  KeyOf <- MCKeyOf
  Foreign = {}
  ColumnsOf <- MCColumns
  Data <- MCData
  Null = "null"
  Ops <- EditOps
  Skew = 4
  Retention = 0
  MaxSeq = 10
  MaxGaps = 0
  MaxNow = 2
  Stores <- TwoDevices
  Procs = {"pa", "pb"}
  StoreOf <- OneProcEach
  MintedBy <- EditMintedBy
  MAX_OPS = 1
  MaxLost = 1
  MaxBody = 9
INVARIANTS
  NoGhosts
  SettledEditShown
CHECK_DEADLOCK FALSE
