\* Two conversations with a message each, one request of the administrator of any kind, one
\* stop at any step; a start may fail.
SPECIFICATION Spec
CONSTANTS
  t1 = t1
  t2 = t2
  NoEvent = NoEvent
  Target = {t1, t2}
  MaxLog = 1
  SlowDelivery = FALSE
  StartMayFail = TRUE
  Request <- EveryRequest
  MaxAsks = 1
  MaxStops = 1
INVARIANTS PauseIsSticky DowntimeIsSkipped QuietWhilePolling
PROPERTIES  DoubtStopsSending
SYMMETRY Symmetry
CHECK_DEADLOCK FALSE
