\* Two concurrent callers of process_once answer two events of one chat whose window
\* admits one reply; the window passes, the channel is paused once, and the process stops
\* once and starts on a clock that may be behind the stamps of its rows.
SPECIFICATION Spec
CONSTANTS
  e1 = e1  e2 = e2  c1 = c1
  None = None
  Event <- TwoEvents
  Chat = {c1}
  ChatOf <- SameChat
  OccurredAt <- InOrder
  UsesModel = {}
  Conversation = {}
  Processor = {p1, p2}
  Dispatcher = {d1}
  Modes = {"send"}
  MaxAttempts = 1
  MaxTurns = 1
  ReplyQuota = 1
  GlobalQuota = 2
  HasQuietHours = FALSE
  ClockStepsBack = TRUE
  MaxStops = 1
  MaxPauses = 1
INVARIANTS  FifoPerChat
SYMMETRY Symmetry
CHECK_DEADLOCK FALSE
