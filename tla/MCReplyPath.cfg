\* Pipeline: one event, through failures, stops and pauses.
\* Worker: each of the three kinds, three calls, the first of them init.
SPECIFICATION PathSpec
CONSTANTS
  e1 = e1  c1 = c1
  None = None
  Event = {e1}
  Chat = {c1}
  ChatOf <- SameChat
  OccurredAt <- InOrder
  UsesModel = {e1}
  Conversation = {}
  Processor = {p1}
  Dispatcher = {d1}
  Modes = {"send"}
  MaxAttempts = 2
  MaxTurns = 2
  ReplyQuota = 0
  GlobalQuota = 2
  HasQuietHours = TRUE
  ClockStepsBack = FALSE
  MaxStops = 2
  MaxPauses = 2
  Kind = {"model", "vision", "browser"}
  Caller = {k1, k2, k3}
  NoCall = NoCall
INVARIANTS NoFreeCall CleanWhenFree
PROPERTIES InboxSettles OutboxSettles CallEnds
CHECK_DEADLOCK FALSE
