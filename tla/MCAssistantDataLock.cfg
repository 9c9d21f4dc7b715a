\* Two processes that start and end while the lock file is released.
SPECIFICATION DataSpec
CONSTANTS
  Parts = {"profile"}
  ask = ask  act = act  c1 = c1  c2 = c2  a1 = a1  a2 = a2  s1 = s1  s2 = s2
  CallId = {c1, c2}
  Request = {ask, act}
  KindOf <- Kinds
  NoRequest = NoRequest
  Admin = {a1, a2}
  MaxToolCalls = 2
  MaxTurns = 2
  MaxStops = 1
  Scope = {s1, s2}
  Text = {"x"}
  Recent = 2
  Threshold = 2
  Budgets = {1, 2, 3}
  MemoryLimit = 2
  MaxMessages = 2
  MaxDerived = 3
  Proc = {p1, p2}
  Chat = {g1, g2}
  Digest = {x}
  MaxStarts = 4
  MaxCrashes = 1
  MaxFaults = 1
INVARIANT OnlyCore
CHECK_DEADLOCK FALSE
