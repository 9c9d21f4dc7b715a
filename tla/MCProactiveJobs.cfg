\* A recurring and a one-off job, cancelled at any step, one stop; on a clock that
\* steps back, the recurring one alone.  The record type admits three attempts.
SPECIFICATION JobsSpec
CONSTANTS
  j1 = j1  j2 = j2
  NoJob = NoJob
  Job = {j1, j2}
  CreatedAt <- Created
  Recurring = {j1}
  Period <- Every
  DeferDelay = 2
  RetryDelay = 1
  MaxAttempts = 2
  AttemptsCap = 3
  MaxTime = 3
  MaxStops = 1
INVARIANTS NoBurst PaidOnce
PROPERTIES EarlyCancelIsFree JobIsServed
CHECK_DEADLOCK FALSE
