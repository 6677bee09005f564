SPECIFICATION FairSpec
CONSTANTS
  Ids <- TaskIds
  TableOf <- TaskTableOf
  KeyOf <- MCKeyOf
  Foreign = {}
  ColumnsOf <- MCColumns
  Data <- MCData
  Null = "null"
  Ops <- LiveOps
  Skew = 4
  Retention = 0
  MaxSeq = 10
  MaxGaps = 0
  MaxNow = 2
  Stores <- TwoDevices
  Procs = {"pa", "pb"}
  StoreOf <- OneProcEach
  MintedBy <- LiveMintedBy
  MAX_OPS = 2
  MaxLost = 1
  MaxBody = 1
PROPERTIES
  EverythingSettles
  ImplementsLedger
  Converges
CHECK_DEADLOCK FALSE
