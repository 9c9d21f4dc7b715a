\* Three calls of two proxies whose estimates do not all fit a day (3) or the
\* month (4); the process stops once, the day and the month change at any step, on a
\* steady clock and on one that steps back.
SPECIFICATION BudgetSpec
CONSTANTS
  k1 = k1  k2 = k2  k3 = k3  text = text  image = image
  Call = {k1, k2, k3}
  Client = {text, image}
  ClientOf <- Owner
  Vision = {image}
  Estimate <- Cost
  LastDay = 2
  MonthOf <- Calendar
  DailyLimit = 3
  MonthlyLimit = 4
  MaxStops = 1
INVARIANTS HardLimit LedgerCovers OpenIsUnderWay
CHECK_DEADLOCK FALSE
