\* One job, cancelled while it runs.
SPECIFICATION JobsSpec
CONSTANTS
  j1 = j1  j2 = j2
  NoJob = NoJob
  Job = {j1}
  CreatedAt <- Created
  Recurring = {j1}
  Period <- Every
  DeferDelay = 2
  RetryDelay = 1
  MaxAttempts = 2
  AttemptsCap = 3
  MaxTime = 3
  MaxStops = 1
INVARIANT TransitionApplies
CHECK_DEADLOCK FALSE
