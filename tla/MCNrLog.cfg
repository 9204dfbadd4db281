SPECIFICATION FairSpec
CONSTANTS
  num_replicas = 2
  LOG_SIZE = 3
  GC_FROM_HEAD = 2
  MAX_REQUESTS = 2
  MAX_IDX = 6
  Op <- MCOp
  NoEntry = NoEntry
INVARIANTS NrLogInv NoCellRace AliveEntriesAreTheLog
PROPERTIES RefinesCyclicBuffer ExecuteTerminates
