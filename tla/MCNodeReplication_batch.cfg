SPECIFICATION NRFairSpec
CONSTANTS
  num_replicas = 1
  num_threads = 2
  LOG_SIZE = 4
  GC_FROM_HEAD = 2
  MAX_REQUESTS = 2
  MAX_IDX = 6
  Op <- MCOp
  NoEntry = NoEntry
  NoThread = NoThread
  NoResp = NoResp
PROPERTIES RefinesSimpleLog RefinesFlatCombiner RequestsAnswered
