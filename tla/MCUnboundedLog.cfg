SPECIFICATION Spec
CONSTANTS
  num_replicas = 2
  MAX_LOG = 3
  u1 = u1
  u2 = u2
  ReqId <- MCReqId
  WriteOp <- MCWriteOp
SYMMETRY Symmetry
INVARIANTS UnboundedLogInv
PROPERTIES RefinesSimpleLog
