---------------------------- MODULE ModelBudget ----------------------------
(***************************************************************************)
(* The money guard of Lemonbot: BudgetManager (models/budget.py), its      *)
(* SQLite write-ahead ledger PersistentBudgetManager                       *)
(* (models/persistent_budget.py) and the two proxies that spend through it,*)
(* the text model (models/worker_proxy.py) and the vision model            *)
(* (models/vision_worker_proxy.py).  A call reserves its worst-case cost   *)
(* in memory, then in the ledger, then asks the isolated worker, and at    *)
(* last replaces the reservation, in memory and then in the ledger, by     *)
(* what it cost.  The process may stop between any two of these steps.     *)
(*                                                                         *)
(* Money is counted in whole units; a call is one generate or              *)
(* analyze_file, and has at most one reservation.                          *)
(***************************************************************************)
EXTENDS Naturals, FiniteSets

CONSTANTS
  Call,           \* calls the process makes over its lives
  Client,         \* the proxies that share the manager
  ClientOf,       \* the proxy of a call
  Vision,         \* the proxies that are the vision worker's
  Estimate,       \* worst-case cost of a call, computed before it is made
  LastDay,        \* bound: the calendar ends with this day
  MonthOf,        \* the month of a day
  DailyLimit, MonthlyLimit, \* BudgetLimits
  MaxStops        \* bound: how often the process stops

Day == 0 .. LastDay
Month == {MonthOf[d] : d \in Day}

ASSUME CallAssumption ==
  /\ IsFiniteSet(Call)
  /\ ClientOf \in [Call -> Client]
  /\ Vision \subseteq Client
  /\ Estimate \in [Call -> Nat \ {0}]
ASSUME LimitAssumption ==
  /\ LastDay \in Nat
  /\ MonthOf \in [Day -> Nat]
  /\ \A d, e \in Day : d <= e => MonthOf[d] <= MonthOf[e]
  /\ DailyLimit \in Nat \ {0} /\ MonthlyLimit \in Nat \ {0}
  /\ DailyLimit <= MonthlyLimit
  /\ MaxStops \in Nat

VARIABLES
  row, charged,   \* model_budget_ledger: state and charged_cny, per call
  dayOf,          \* day_key of the call's reservation
  open,           \* _reservations of the live manager
  spent, mspent,  \* _daily_spend and _monthly_spend of the live manager
  pc,             \* next step of each call
  outcome, usage, \* how the call ended, and the cost its response reports
  dead,           \* proxies that were terminated
  today,          \* the local date
  clock,          \* "steady", or "stepped": it may go back over a midnight
  up, stops,
  asked,          \* calls whose request the worker may have sent to the provider
  billed          \* what the provider bills for a call

ledger == <<row, charged>>
memory == <<open, spent, mspent>>
callVars == <<pc, outcome, usage, dead>>
process == <<up, stops, clock>>
provider == <<asked, billed>>
vars == <<ledger, dayOf, memory, callVars, today, process, provider>>

OnDay(S, d) == {c \in S : dayOf[c] = d}
InMonth(S, m) == {c \in S : MonthOf[dayOf[c]] = m}

\* A sum counts the units of its amounts.
Units(amount, S) == UNION {{c} \X (1 .. amount[c]) : c \in S}
Total(amount, S) == Cardinality(Units(amount, S))

---------------------------------------------------------------------------
(* Reserving.                                                              *)

\* The request lock of the proxy: one call at a time.
ClientFree(c) ==
  /\ ClientOf[c] \notin dead
  /\ \A b \in Call : ClientOf[b] = ClientOf[c] => pc[b] \in {"new", "done"}

\* Mutant: open reservations are not counted.
FitsIgnoringOpen(c) ==
  /\ spent[today] + Estimate[c] <= DailyLimit
  /\ mspent[MonthOf[today]] + Estimate[c] <= MonthlyLimit

\* BudgetManager.reserve: spend, open reservations and this one fit both limits.
Fits(c) ==
  /\ spent[today] + Total(Estimate, OnDay(open, today)) + Estimate[c] <= DailyLimit
  /\ mspent[MonthOf[today]] + Total(Estimate, InMonth(open, MonthOf[today])) + Estimate[c]
       <= MonthlyLimit

Reserve(c) ==
  /\ up /\ pc[c] = "new" /\ ClientFree(c)
  /\ Fits(c)
  /\ dayOf' = [dayOf EXCEPT ![c] = today]
  /\ open' = open \cup {c}
  /\ pc' = [pc EXCEPT ![c] = "inserting"]
  /\ UNCHANGED <<ledger, spent, mspent, outcome, usage, dead, today, process, provider>>

Finish(c) == pc' = [pc EXCEPT ![c] = "done"]

\* _terminate: the proxy refuses every later call of this process.
Terminate(c, ends) == dead' = IF ends THEN dead \cup {ClientOf[c]} ELSE dead

\* BudgetExceededError; the vision proxy gives its worker up as well.
ReserveRefused(c) ==
  /\ up /\ pc[c] = "new" /\ ClientFree(c)
  /\ ~Fits(c)
  /\ Finish(c)
  /\ Terminate(c, ClientOf[c] \in Vision)
  /\ UNCHANGED <<ledger, dayOf, memory, outcome, usage, today, process, provider>>

\* _insert_reservation, the write-ahead record.
InsertReservation(c) ==
  /\ pc[c] = "inserting"
  /\ row' = [row EXCEPT ![c] = "reserved"]
  /\ pc' = [pc EXCEPT ![c] = "rpc"]
  /\ UNCHANGED <<charged, dayOf, memory, outcome, usage, dead, today, process, provider>>

\* Mutant: a reservation that could not be recorded stays open.
InsertFailsKeepsOpen(c, inserted) ==
  /\ pc[c] = "inserting"
  /\ row' = [row EXCEPT ![c] = IF inserted THEN "reserved" ELSE @]
  /\ Finish(c)
  /\ Terminate(c, ClientOf[c] \in Vision)
  /\ UNCHANGED <<charged, dayOf, memory, outcome, usage, today, process, provider>>

\* The insert fails, or the task is cancelled while the thread inserts anyway:
\* the reservation is taken out of memory and the call is not made.
InsertFails(c, inserted) ==
  /\ pc[c] = "inserting"
  /\ row' = [row EXCEPT ![c] = IF inserted THEN "reserved" ELSE @]
  /\ open' = open \ {c}
  /\ Finish(c)
  /\ Terminate(c, ClientOf[c] \in Vision)
  /\ UNCHANGED <<charged, dayOf, spent, mspent, outcome, usage, today, process, provider>>

---------------------------------------------------------------------------
(* The provider, external.                                                 *)

\* The worker sends the request.
WorkerCalls(c) ==
  /\ pc[c] = "rpc" /\ c \notin asked
  /\ asked' = asked \cup {c}
  /\ UNCHANGED <<ledger, dayOf, memory, callVars, today, process, billed>>

\* The provider bills the call, at most its estimate and perhaps long after
\* everybody stopped waiting for it.
ProviderBills(c, amount) ==
  /\ c \in asked /\ billed[c] = 0
  /\ amount \in 1 .. Estimate[c]
  /\ billed' = [billed EXCEPT ![c] = amount]
  /\ UNCHANGED <<ledger, dayOf, memory, callVars, today, process, asked>>

---------------------------------------------------------------------------
(* Settling: release, settle and settle_unknown, memory first.             *)

Charge(c, how, cost) ==
  CASE how = "released" -> 0
    [] how = "settled" -> cost
    [] how = "unknown" -> Estimate[c]

\* The manager drops the reservation and books its charge on the day and the
\* month of the reservation, whatever day it is now.
Settle(c, how, cost) ==
  /\ open' = open \ {c}
  /\ spent' = [spent EXCEPT ![dayOf[c]] = @ + Charge(c, how, cost)]
  /\ mspent' = [mspent EXCEPT ![MonthOf[dayOf[c]]] = @ + Charge(c, how, cost)]
  /\ outcome' = [outcome EXCEPT ![c] = how]
  /\ usage' = [usage EXCEPT ![c] = cost]
  /\ pc' = [pc EXCEPT ![c] = "recording"]
  /\ UNCHANGED <<ledger, dayOf, today, process, provider>>

\* A valid response.  Usage of 0 tokens means that the provider did not say.  A
\* cancellation cannot stop the settlement (_critical_transition), but ends the
\* proxy, as does a vision result with worker_must_close.
Answered(c, cost, ends) ==
  /\ pc[c] = "rpc" /\ c \in asked
  /\ cost \in {0, billed[c]}
  /\ Settle(c, IF cost = 0 THEN "unknown" ELSE "settled", cost)
  /\ Terminate(c, ends)

\* The worker reports a failure before any provider I/O.
RemoteNotStarted(c, ends) ==
  /\ pc[c] = "rpc" /\ c \notin asked
  /\ Settle(c, "released", 0)
  /\ Terminate(c, ends)

\* Mutant: a call that timed out or was cancelled is taken for not made.
AmbiguousReleases(c, ends) ==
  /\ pc[c] = "rpc"
  /\ Settle(c, "released", 0)
  /\ Terminate(c, ends)

\* Timeout, broken pipe, cancellation, an invalid response or a failure after
\* provider I/O began: nobody knows, so the whole reservation is charged.
Ambiguous(c, ends) ==
  /\ pc[c] = "rpc"
  /\ ~ends => ClientOf[c] \notin Vision
  /\ Settle(c, "unknown", 0)
  /\ Terminate(c, ends)

\* _update_settlement.
RecordSettlement(c) ==
  /\ pc[c] = "recording" /\ row[c] = "reserved"
  /\ row' = [row EXCEPT ![c] = outcome[c]]
  /\ charged' = [charged EXCEPT ![c] = Charge(c, outcome[c], usage[c])]
  /\ Finish(c)
  /\ UNCHANGED <<dayOf, memory, outcome, usage, dead, today, process, provider>>

\* The ledger cannot be written: the proxy fails closed.
RecordFails(c) ==
  /\ pc[c] = "recording"
  /\ Finish(c)
  /\ Terminate(c, TRUE)
  /\ UNCHANGED <<ledger, dayOf, memory, outcome, usage, today, process, provider>>

---------------------------------------------------------------------------
(* The calendar and the process.                                           *)

Midnight ==
  /\ today < LastDay
  /\ today' = today + 1
  /\ UNCHANGED <<ledger, dayOf, memory, callVars, process, provider>>

ClockBack ==
  /\ clock = "stepped" /\ today > 0
  /\ today' = today - 1
  /\ UNCHANGED <<ledger, dayOf, memory, callVars, process, provider>>

Stop ==
  /\ up /\ stops < MaxStops
  /\ up' = FALSE
  /\ stops' = stops + 1
  /\ open' = {}
  /\ spent' = [d \in Day |-> 0]
  /\ mspent' = [m \in Month |-> 0]
  /\ pc' = [c \in Call |-> IF pc[c] = "new" THEN "new" ELSE "done"]
  /\ outcome' = [c \in Call |-> "none"]
  /\ usage' = [c \in Call |-> 0]
  /\ dead' = {}
  /\ UNCHANGED <<ledger, dayOf, today, clock, provider>>

\* The ledger after _initialize_and_recover: open reservations are charged in full.
Recovered(c) ==
  IF row[c] = "reserved" THEN [state |-> "unknown", charge |-> Estimate[c]]
  ELSE [state |-> row[c], charge |-> charged[c]]

\* PersistentBudgetManager.create: recover, load the spend of today and of this
\* month only, then build the manager, which looks at the clock again: midnight
\* may have passed in between.
Start(now) ==
  LET state == [c \in Call |-> Recovered(c).state]
      charge == [c \in Call |-> Recovered(c).charge]
      spending == {c \in Call : state[c] \in {"settled", "unknown"}}
  IN  /\ ~up
      /\ up' = TRUE
      /\ row' = state
      /\ charged' = charge
      /\ today' = now
      /\ spent' = [spent EXCEPT ![now] = Total(charge, OnDay(spending, today))]
      /\ mspent' = [mspent EXCEPT ![MonthOf[now]] =
                      Total(charge, InMonth(spending, MonthOf[today]))]
      /\ UNCHANGED <<dayOf, open, callVars, stops, clock, provider>>

---------------------------------------------------------------------------

Init ==
  /\ row = [c \in Call |-> "absent"]
  /\ charged = [c \in Call |-> 0]
  /\ dayOf = [c \in Call |-> 0]
  /\ open = {}
  /\ spent = [d \in Day |-> 0]
  /\ mspent = [m \in Month |-> 0]
  /\ pc = [c \in Call |-> "new"]
  /\ outcome = [c \in Call |-> "none"]
  /\ usage = [c \in Call |-> 0]
  /\ dead = {}
  /\ today = 0
  /\ clock \in {"steady", "stepped"}
  /\ up = FALSE
  /\ stops = 0
  /\ asked = {}
  /\ billed = [c \in Call |-> 0]

Ends(c) ==
  \E ends \in BOOLEAN :
    \/ RemoteNotStarted(c, ends) \/ Ambiguous(c, ends)
    \/ \E cost \in {0, billed[c]} : Answered(c, cost, ends)

CallStep(c) ==
  \/ Reserve(c) \/ ReserveRefused(c)
  \/ InsertReservation(c) \/ \E inserted \in BOOLEAN : InsertFails(c, inserted)
  \/ Ends(c)
  \/ RecordSettlement(c) \/ RecordFails(c)

Provider(c) ==
  WorkerCalls(c) \/ \E amount \in 1 .. Estimate[c] : ProviderBills(c, amount)

Next ==
  \/ \E c \in Call : CallStep(c) \/ Provider(c)
  \/ Midnight \/ ClockBack \/ Stop
  \/ \E now \in Day \cap {today, today + 1} : Start(now)

Spec == Init /\ [][Next]_vars

---------------------------------------------------------------------------
(* Correctness.                                                            *)

RowState == {"absent", "reserved", "released", "settled", "unknown"}
Outcome == {"none", "released", "settled", "unknown"}
CallStepName == {"new", "inserting", "rpc", "recording", "done"}

LedgerType ==
  /\ row \in [Call -> RowState]
  /\ charged \in [Call -> Nat]
  /\ pc \in [Call -> CallStepName]
  /\ outcome \in [Call -> Outcome]
  /\ usage \in [Call -> Nat]
  /\ asked \subseteq Call
  /\ billed \in [Call -> Nat]

\* The shape of ledger, memory, calls and bills.
TypeOK ==
  /\ LedgerType
  /\ dayOf \in [Call -> Day]
  /\ open \subseteq Call
  /\ spent \in [Day -> Nat]
  /\ mspent \in [Month -> Nat]
  /\ dead \subseteq Client
  /\ today \in Day
  /\ clock \in {"steady", "stepped"}
  /\ up \in BOOLEAN
  /\ stops \in Nat

\* What the ledger holds against a call: an open reservation counts in full.
Standing(c) == IF row[c] = "reserved" THEN Estimate[c] ELSE charged[c]

\* The hard limit (persistent_budget.py's docstring): what the provider bills for
\* the calls of a day, or of a month, stays inside the limit, through concurrent
\* proxies, crashes at any step, ambiguous answers and late bills, as long as the
\* wall clock does not step back over a midnight (a start loads only the current
\* day and month).
HardLimit ==
  clock = "steady" =>
    /\ \A d \in Day : Total(billed, OnDay(asked, d)) <= DailyLimit
    /\ \A m \in Month : Total(billed, InMonth(asked, m)) <= MonthlyLimit

\* The ledger is written ahead: at every moment, a stop included, each call's bill
\* is covered by what the ledger holds against the call, so that a recovery can
\* overcount but never undercount.
LedgerCovers == \A c \in Call : billed[c] <= Standing(c)

\* No reservation is leaked: budget is held in memory only for a call that is still
\* under way, so neither a failed insert nor an ambiguous answer or a cancelled caller
\* eats the rest of the day's budget.
OpenIsUnderWay == \A c \in open : pc[c] \in {"inserting", "rpc"}

---------------------------------------------------------------------------
(* The inductive invariant of the proof of LedgerCovers.                   *)

\* The provider bills what it was asked, and never more than the estimate.
BillsAreBounded ==
  \A c \in Call : billed[c] <= Estimate[c] /\ (billed[c] > 0 => c \in asked)

\* A call is on the ledger before its request can leave, its row waits for it, and
\* no call outlives its process.
RowFollowsCall ==
  \A c \in Call :
    /\ ~up => pc[c] \in {"new", "done"}
    /\ pc[c] \in {"new", "inserting"} => row[c] = "absent" /\ c \notin asked
    /\ pc[c] \in {"rpc", "recording"} => row[c] = "reserved"
    /\ c \in asked => row[c] \in {"reserved", "settled", "unknown"}

\* What is about to be recorded, or is recorded, is the bill or the estimate.
ChargeIsKnown ==
  \A c \in Call :
    /\ pc[c] = "recording" =>
         \/ outcome[c] = "released" /\ c \notin asked
         \/ outcome[c] = "settled" /\ usage[c] = billed[c] /\ billed[c] > 0
         \/ outcome[c] = "unknown"
    /\ row[c] = "settled" => charged[c] = billed[c] /\ billed[c] > 0
    /\ row[c] = "unknown" => charged[c] = Estimate[c]

\* The conjunction TLAPS shows to be inductive.
Books == LedgerType /\ BillsAreBounded /\ RowFollowsCall /\ ChargeIsKnown

---------------------------------------------------------------------------
(* The inductive invariant of the proof of HardLimit.                      *)

\* What the provider has billed for a call, or still may: the estimate, from the
\* reservation until the bill, unless the call ended before it was asked.
Exposure == [c \in Call |-> IF billed[c] > 0 THEN billed[c]
                           ELSE IF c \in asked \cup open THEN Estimate[c] ELSE 0]

\* Budget is held for every call under way, and for no other.
OpenIsInWork == open = {c \in Call : pc[c] \in {"inserting", "rpc"}}

NoLaterDay == \A c \in Call : dayOf[c] <= today

WithinLimits ==
  /\ \A d \in Day : Total(Exposure, OnDay(Call, d)) <= DailyLimit
  /\ \A m \in Month : Total(Exposure, InMonth(Call, m)) <= MonthlyLimit

\* The live manager forgets nothing that still counts: what it has booked on this
\* day and month covers every call that holds no reservation, the bills that
\* arrive later and the calls of earlier lives of the process included.
MemoryCovers ==
  up => /\ Total(Exposure, OnDay(Call \ open, today)) <= spent[today]
        /\ Total(Exposure, InMonth(Call \ open, MonthOf[today])) <= mspent[MonthOf[today]]

LimitInv ==
  /\ TypeOK /\ Books /\ OpenIsInWork
  /\ clock = "steady" => NoLaterDay /\ WithinLimits /\ MemoryCovers
============================================================================
