CONSTANTS
  r1 = r1
  r2 = r2
  w1 = w1
  w2 = w2
  NoReq = NoReq
  Requests <- MCRequests
  Workers <- MCOneWorker
  MaxSlots = 2
  MaxConcurrent = 2
  NumLayers = 2
  MaxBatch = 2
  MaxErrors = 0
SPECIFICATION FairSpec
PROPERTIES TransferStartsDecode
CHECK_DEADLOCK FALSE
