\* Tools: two calls of a turn, one of which may need an approval that two administrators
\* decide, and one stop at any step.  Memory: three messages in two conversations, one
\* more than a derivation sees, and three derivations.  Profile: three starts of a command by
\* two processes, with one crash, two I/O errors and an attachment that two chats share.
SPECIFICATION DataSpec
CONSTANTS
  Parts = {"tools", "memory", "profile"}
  ask = ask  act = act  c1 = c1  c2 = c2  a1 = a1  a2 = a2  s1 = s1  s2 = s2
  CallId = {c1, c2}
  Request = {ask, act}
  KindOf <- Kinds
  NoRequest = NoRequest
  Admin = {a1, a2}
  MaxToolCalls = 2
  MaxTurns = 2
  MaxStops = 1
  Scope = {s1, s2}
  Text = {"x"}
  Recent = 2
  Threshold = 2
  Budgets = {1, 2, 3}
  MemoryLimit = 2
  MaxMessages = 3
  MaxDerived = 3
  Proc = {p1, p2}
  Chat = {g1, g2}
  Digest = {x}
  MaxStarts = 3
  MaxCrashes = 1
  MaxFaults = 2
INVARIANTS NoSilentEffect ApprovalIsTrue SummaryCovers  NoDanglingRow ArchiveComplete Recoverable StopHolds
 
SYMMETRY Symmetry
CHECK_DEADLOCK FALSE
