\* The process stops in a send and the first start after it fails or stops as well.
SPECIFICATION Spec
CONSTANTS
  t1 = t1
  t2 = t2
  NoEvent = NoEvent
  Target = {t1, t2}
  MaxLog = 1
  SlowDelivery = FALSE
  StartMayFail = TRUE
  Request <- EveryRequest
  MaxAsks = 0
  MaxStops = 2
PROPERTY DoubtStopsSending
SYMMETRY Symmetry
CHECK_DEADLOCK FALSE
