\* Progress under FairSpec: two messages of a conversation, a pause asked for, deliveries
\* that may time out.
SPECIFICATION FairSpec
CONSTANTS
  t1 = t1
  t2 = t2
  NoEvent = NoEvent
  Target = {t1}
  MaxLog = 2
  SlowDelivery = TRUE
  StartMayFail = FALSE
  Request <- PauseRequest
  MaxAsks = 1
  MaxStops = 0
PROPERTIES PauseTakesEffect MessageIsRecorded
CHECK_DEADLOCK FALSE
