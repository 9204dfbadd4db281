SPECIFICATION NRFairSpec
CONSTANTS
  num_replicas = 2
  num_threads = 1
  LOG_SIZE = 2
  GC_FROM_HEAD = 1
  MAX_REQUESTS = 1
  MAX_IDX = 5
  Op <- MCOp
  NoEntry = NoEntry
  NoThread = NoThread
  NoResp = NoResp
PROPERTIES RefinesUnboundedLog RequestsAnswered
