\* One processor and one dispatcher, as serve() starts them; the process stops
\* at any step and recovers, in any output mode, and quiet hours come and go.  e1 needs
\* the model, e2 does not.
SPECIFICATION Spec
CONSTANTS
  e1 = e1  e2 = e2  c1 = c1
  None = None
  Event <- TwoEvents
  Chat = {c1}
  ChatOf <- SameChat
  OccurredAt <- InOrder
  UsesModel = {e1}
  Conversation = {e1}
  Processor = {p1}
  Dispatcher = {d1}
  Modes = {"observe", "draft", "send"}
  MaxAttempts = 2
  MaxTurns = 2
  ReplyQuota = 0
  GlobalQuota = 2
  HasQuietHours = TRUE
  ClockStepsBack = FALSE
  MaxStops = 1
  MaxPauses = 0
INVARIANTS SendOnce ModelChainOnce NoOrphanRow DraftOrReply
PROPERTY DeliversOnce
CHECK_DEADLOCK FALSE
