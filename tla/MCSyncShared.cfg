SPECIFICATION Spec
CONSTANTS
  Ids <- TaskIds
  TableOf <- TaskTableOf
  KeyOf <- MCKeyOf
  Foreign = {}
  ColumnsOf <- MCColumns
  Data <- MCData
  Null = "null"
  Ops <- SharedOps
  Skew = 4
  Retention = 0
  MaxSeq = 10
  MaxGaps = 0
  MaxNow = 2
  Stores <- TwoDevices
  Procs = {p1, p2, pb}
  p1 = p1
  p2 = p2
  pb = pb
  StoreOf <- SharedStore
  MintedBy <- SharedMintedBy
  MAX_OPS = 1
  MaxLost = 0
  MaxBody = 9
SYMMETRY Parallel
INVARIANTS
  ReplicaComplete
CHECK_DEADLOCK FALSE
