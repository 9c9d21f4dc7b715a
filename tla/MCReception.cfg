\* Observer: four items of three texts, so that some repeat; three are shown, the cursor
\* keeps two; one crash, two times that the user scrolls or an item is not read.
\* Probe: three flags and two acts of the user.
\* Feed: two chats, two whitelists, two messages that arrive at any place of a window of
\* three, one row that is refused, one restart of the bridge and one stop.
SPECIFICATION ReceptionSpec
CONSTANTS
  a = a  b = b  m1 = m1
  Inbound = {m1}
  Self = s
  Unproven = u
  Visible = 3
  TailItems = 2
  MaxItems = 4
  MaxSnapshots = 1
  MaxCrashes = 1
  MaxDisturbed = 2
  Layouts <- Windows
  Legible <- LegibleWindows
  MaxUser = 2
  MaxFlags = 3
  Chat = {a, b}
  Whitelists = {{a}, {b}}
  Places = 4
  OldTables <- Old
  Window = 3
  Anchors = 2
  MaxWrites = 2
  MaxBroken = 1
  MaxFailures = 2
  MaxRestarts = 1
  MaxStops = 1
INVARIANTS RecordIsExact  NoLostWakeup FeedIsExact ServedIsBound
CHECK_DEADLOCK FALSE
