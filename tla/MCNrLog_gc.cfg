SPECIFICATION Spec
CONSTANTS
  num_replicas = 2
  LOG_SIZE = 3
  GC_FROM_HEAD = 1
  MAX_REQUESTS = 1
  MAX_IDX = 7
  Op <- MCOp
  NoEntry = NoEntry
INVARIANTS HeadBeingAdvanced
