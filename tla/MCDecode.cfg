CONSTANTS
  r1 = r1
  r2 = r2
  w1 = w1
  w2 = w2
  NoReq = NoReq
  Requests <- MCRequests
  Workers <- MCWorkers
  MaxSlots = 3
  MaxConcurrent = 2
  NumLayers = 2
  MaxBatch = 2
  MaxErrors = 1
SPECIFICATION Spec
SYMMETRY MCSymmetry
INVARIANTS TypeOK TrackerMapsAgree LayerComesFromItsWrite DecodeOnce DecodeAfterKeys
CHECK_DEADLOCK FALSE
