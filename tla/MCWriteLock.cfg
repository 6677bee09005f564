SPECIFICATION Spec
CONSTANTS
  Ids <- TaskIds
  TableOf <- TaskTableOf
  KeyOf <- MCKeyOf
  Foreign = {}
  ColumnsOf <- MCColumns
  Data <- MCData
  Null = "null"
  Ops <- CrossOps
  Skew = 4
  x = x
  y = y
  Txns <- MCTxns
  IdOrder <- MCIdOrder
  Retention = 0
  MaxSeq = 5
  MaxGaps = 1
  MaxNow = 2
SYMMETRY
  EitherTxn
INVARIANTS
  SomeoneMoves
PROPERTIES
  ImplementsServer
  NeverSkipped
CHECK_DEADLOCK FALSE
