------------------------- MODULE ModelBudgetProofs -------------------------
(***************************************************************************)
(* The write-ahead ledger covers every bill, for any number of calls and   *)
(* proxies, any calendar and any limits.  The invariant Books relates, per *)
(* call, the call's step, its ledger row and its bill; it never looks at   *)
(* the totals in memory, which is why the ledger is safe to recover from.  *)
(*                                                                         *)
(* The hard limit is about those totals.  LimitInv weighs each call by     *)
(* what the provider may still bill (Exposure); only a reservation adds to *)
(* it, and reserve compares with the limit no less than all of it          *)
(* (ReserveComparesAll), because what a call is booked for when it ends,   *)
(* and what a start loads for a call of an earlier life, is never less     *)
(* than what may still be billed for it (MemoryCovers).                    *)
(***************************************************************************)
EXTENDS ModelBudget, FiniteSetTheorems, TLAPS

\* Reserving, in memory and in the ledger: the row is there before the request.
LEMMA ReservingKeepsBooks ==
  ASSUME Books, NEW k \in Call,
         \/ Reserve(k) \/ ReserveRefused(k)
         \/ InsertReservation(k) \/ \E inserted \in BOOLEAN : InsertFails(k, inserted)
  PROVE  Books'
<1> USE CallAssumption DEF Books, ledger, memory, process, provider
<1>1. CASE Reserve(k)
  <2>1. LedgerType'
    BY <1>1 DEF Reserve, LedgerType, RowState, Outcome, CallStepName
  <2>2. BillsAreBounded'
    BY <1>1 DEF Reserve, LedgerType, BillsAreBounded
  <2>3. RowFollowsCall'
    BY <1>1 DEF Reserve, LedgerType, RowFollowsCall, CallStepName
  <2>4. ChargeIsKnown'
    BY <1>1 DEF Reserve, LedgerType, RowFollowsCall, ChargeIsKnown, BillsAreBounded
  <2> QED
    BY <2>1, <2>2, <2>3, <2>4
<1>2. CASE ReserveRefused(k)
  <2>1. LedgerType'
    BY <1>2 DEF ReserveRefused, Finish, LedgerType, RowState, Outcome, CallStepName
  <2>2. BillsAreBounded'
    BY <1>2 DEF ReserveRefused, Finish, LedgerType, BillsAreBounded
  <2>3. RowFollowsCall'
    BY <1>2 DEF ReserveRefused, Finish, LedgerType, RowFollowsCall, CallStepName
  <2>4. ChargeIsKnown'
    BY <1>2 DEF ReserveRefused, Finish, LedgerType, RowFollowsCall, ChargeIsKnown, BillsAreBounded
  <2> QED
    BY <2>1, <2>2, <2>3, <2>4
<1>3. CASE InsertReservation(k)
  <2>1. LedgerType'
    BY <1>3 DEF InsertReservation, LedgerType, RowState, Outcome, CallStepName
  <2>2. BillsAreBounded'
    BY <1>3 DEF InsertReservation, LedgerType, BillsAreBounded
  <2>3. RowFollowsCall'
    BY <1>3 DEF InsertReservation, LedgerType, RowFollowsCall, CallStepName
  <2>4. ChargeIsKnown'
    BY <1>3 DEF InsertReservation, LedgerType, RowFollowsCall, ChargeIsKnown, BillsAreBounded
  <2> QED
    BY <2>1, <2>2, <2>3, <2>4
<1>4. CASE \E inserted \in BOOLEAN : InsertFails(k, inserted)
  <2>1. LedgerType'
    BY <1>4 DEF InsertFails, Finish, LedgerType, RowState, Outcome, CallStepName
  <2>2. BillsAreBounded'
    BY <1>4 DEF InsertFails, Finish, LedgerType, BillsAreBounded
  <2>3. RowFollowsCall'
    BY <1>4 DEF InsertFails, Finish, LedgerType, RowFollowsCall, CallStepName
  <2>4. ChargeIsKnown'
    BY <1>4 DEF InsertFails, Finish, LedgerType, RowFollowsCall, ChargeIsKnown, BillsAreBounded
  <2> QED
    BY <2>1, <2>2, <2>3, <2>4
<1> QED
  BY <1>1, <1>2, <1>3, <1>4

\* The provider: it is asked only while the row is reserved, and bills only then.
LEMMA ProviderKeepsBooks ==
  ASSUME Books, NEW k \in Call, Provider(k)
  PROVE  Books'
<1> USE CallAssumption DEF Books, ledger, memory, callVars, process, provider
<1>1. CASE WorkerCalls(k)
  <2>1. LedgerType'
    BY <1>1 DEF WorkerCalls, LedgerType, RowState, Outcome, CallStepName
  <2>2. BillsAreBounded'
    BY <1>1 DEF WorkerCalls, LedgerType, BillsAreBounded
  <2>3. RowFollowsCall'
    BY <1>1 DEF WorkerCalls, LedgerType, RowFollowsCall, CallStepName
  <2>4. ChargeIsKnown'
    BY <1>1 DEF WorkerCalls, LedgerType, RowFollowsCall, ChargeIsKnown, BillsAreBounded
  <2> QED
    BY <2>1, <2>2, <2>3, <2>4
<1>2. CASE \E amount \in 1 .. Estimate[k] : ProviderBills(k, amount)
  <2>1. LedgerType'
    BY <1>2 DEF ProviderBills, LedgerType, RowState, Outcome, CallStepName
  <2>2. BillsAreBounded'
    BY <1>2 DEF ProviderBills, LedgerType, BillsAreBounded
  <2>3. RowFollowsCall'
    BY <1>2 DEF ProviderBills, LedgerType, RowFollowsCall, CallStepName
  <2>4. ChargeIsKnown'
    BY <1>2 DEF ProviderBills, LedgerType, RowFollowsCall, ChargeIsKnown, BillsAreBounded
  <2> QED
    BY <2>1, <2>2, <2>3, <2>4
<1> QED
  BY <1>1, <1>2 DEF Provider

\* Settling in memory: only a call the worker never made is released.
LEMMA SettlingKeepsBooks ==
  ASSUME Books, NEW k \in Call, Ends(k)
  PROVE  Books'
<1> USE CallAssumption DEF Books, ledger, process, provider
<1>1. CASE \E ends \in BOOLEAN : RemoteNotStarted(k, ends)
  <2>1. LedgerType'
    BY <1>1 DEF RemoteNotStarted, Settle, LedgerType, RowState, Outcome, CallStepName
  <2>2. BillsAreBounded'
    BY <1>1 DEF RemoteNotStarted, Settle, LedgerType, BillsAreBounded
  <2>3. RowFollowsCall'
    BY <1>1 DEF RemoteNotStarted, Settle, LedgerType, RowFollowsCall, CallStepName
  <2>4. ChargeIsKnown'
    BY <1>1 DEF RemoteNotStarted, Settle, LedgerType, RowFollowsCall, ChargeIsKnown, BillsAreBounded
  <2> QED
    BY <2>1, <2>2, <2>3, <2>4
<1>2. CASE \E ends \in BOOLEAN : Ambiguous(k, ends)
  <2>1. LedgerType'
    BY <1>2 DEF Ambiguous, Settle, LedgerType, RowState, Outcome, CallStepName
  <2>2. BillsAreBounded'
    BY <1>2 DEF Ambiguous, Settle, LedgerType, BillsAreBounded
  <2>3. RowFollowsCall'
    BY <1>2 DEF Ambiguous, Settle, LedgerType, RowFollowsCall, CallStepName
  <2>4. ChargeIsKnown'
    BY <1>2 DEF Ambiguous, Settle, LedgerType, RowFollowsCall, ChargeIsKnown, BillsAreBounded
  <2> QED
    BY <2>1, <2>2, <2>3, <2>4
<1>3. CASE \E ends \in BOOLEAN : \E cost \in {0, billed[k]} : Answered(k, cost, ends)
  <2>1. LedgerType'
    BY <1>3 DEF Answered, Settle, LedgerType, RowState, Outcome, CallStepName
  <2>2. BillsAreBounded'
    BY <1>3 DEF Answered, Settle, LedgerType, BillsAreBounded
  <2>3. RowFollowsCall'
    BY <1>3 DEF Answered, Settle, LedgerType, RowFollowsCall, CallStepName
  <2>4. ChargeIsKnown'
    BY <1>3 DEF Answered, Settle, LedgerType, RowFollowsCall, ChargeIsKnown, BillsAreBounded
  <2> QED
    BY <2>1, <2>2, <2>3, <2>4
<1> QED
  BY <1>1, <1>2, <1>3 DEF Ends

\* Recording in the ledger what memory already booked.
LEMMA RecordingKeepsBooks ==
  ASSUME Books, NEW k \in Call, RecordSettlement(k) \/ RecordFails(k)
  PROVE  Books'
<1> USE CallAssumption DEF Books, ledger, memory, process, provider
<1>1. CASE RecordSettlement(k)
  <2>1. LedgerType'
    BY <1>1 DEF RecordSettlement, Finish, Charge, LedgerType, ChargeIsKnown, RowState, Outcome,
       CallStepName
  <2>2. BillsAreBounded'
    BY <1>1 DEF RecordSettlement, Finish, Charge, LedgerType, BillsAreBounded
  <2>3. RowFollowsCall'
    BY <1>1 DEF RecordSettlement, Finish, Charge, LedgerType, RowFollowsCall, ChargeIsKnown,
       CallStepName
  <2>4. ChargeIsKnown'
    BY <1>1 DEF RecordSettlement, Finish, Charge, LedgerType, RowFollowsCall, ChargeIsKnown,
       BillsAreBounded
  <2> QED
    BY <2>1, <2>2, <2>3, <2>4
<1>2. CASE RecordFails(k)
  <2>1. LedgerType'
    BY <1>2 DEF RecordFails, Finish, LedgerType, RowState, Outcome, CallStepName
  <2>2. BillsAreBounded'
    BY <1>2 DEF RecordFails, Finish, LedgerType, BillsAreBounded
  <2>3. RowFollowsCall'
    BY <1>2 DEF RecordFails, Finish, LedgerType, RowFollowsCall, CallStepName
  <2>4. ChargeIsKnown'
    BY <1>2 DEF RecordFails, Finish, LedgerType, RowFollowsCall, ChargeIsKnown, BillsAreBounded
  <2> QED
    BY <2>1, <2>2, <2>3, <2>4
<1> QED
  BY <1>1, <1>2

\* A stop at any step, and the recovery that charges what was left open.
LEMMA RestartKeepsBooks ==
  ASSUME Books, Stop \/ \E now \in Day \cap {today, today + 1} : Start(now)
  PROVE  Books'
<1> USE CallAssumption DEF Books, ledger, callVars, process, provider
<1>1. CASE Stop
  <2>1. LedgerType'
    BY <1>1 DEF Stop, LedgerType, RowState, Outcome, CallStepName
  <2>2. BillsAreBounded'
    BY <1>1 DEF Stop, LedgerType, BillsAreBounded
  <2>3. RowFollowsCall'
    BY <1>1 DEF Stop, LedgerType, RowFollowsCall, CallStepName
  <2>4. ChargeIsKnown'
    BY <1>1 DEF Stop, LedgerType, RowFollowsCall, ChargeIsKnown, BillsAreBounded
  <2> QED
    BY <2>1, <2>2, <2>3, <2>4
<1>2. CASE \E now \in Day \cap {today, today + 1} : Start(now)
  <2>1. LedgerType'
    BY <1>2 DEF Start, Recovered, LedgerType, RowState, Outcome, CallStepName
  <2>2. BillsAreBounded'
    BY <1>2 DEF Start, Recovered, LedgerType, BillsAreBounded
  <2>3. RowFollowsCall'
    BY <1>2 DEF Start, Recovered, LedgerType, RowFollowsCall, CallStepName
  <2>4. ChargeIsKnown'
    BY <1>2 DEF Start, Recovered, LedgerType, RowFollowsCall, ChargeIsKnown, BillsAreBounded
  <2> QED
    BY <2>1, <2>2, <2>3, <2>4
<1> QED
  BY <1>1, <1>2

\* Books is an invariant of the specification.
THEOREM BooksInvariant == Spec => []Books
<1>1. Init => Books
  BY CallAssumption
     DEF Init, Books, LedgerType, BillsAreBounded, RowFollowsCall, ChargeIsKnown,
         RowState, Outcome, CallStepName
<1>2. Books /\ [Next]_vars => Books'
  <2> SUFFICES ASSUME Books, [Next]_vars PROVE Books'
    OBVIOUS
  <2>1. CASE \E c \in Call : CallStep(c)
    BY <2>1, ReservingKeepsBooks, SettlingKeepsBooks, RecordingKeepsBooks DEF CallStep
  <2>2. CASE \E c \in Call : Provider(c)
    BY <2>2, ProviderKeepsBooks
  <2>3. CASE Stop \/ \E now \in Day \cap {today, today + 1} : Start(now)
    BY <2>3, RestartKeepsBooks
  <2>4. CASE Midnight \/ ClockBack \/ UNCHANGED vars
    BY <2>4
       DEF Midnight, ClockBack, vars, ledger, callVars, process, provider,
           Books, LedgerType, BillsAreBounded, RowFollowsCall, ChargeIsKnown
  <2> QED
    BY <2>1, <2>2, <2>3, <2>4 DEF Next
<1> QED
  BY <1>1, <1>2, PTL DEF Spec

\* LedgerCovers for every instance: at every moment the ledger holds at least its
\* bill against each call, so what _initialize_and_recover loads after a stop at any
\* step is never less than what the provider charges.
THEOREM LedgerCoversEveryBill == Spec => []LedgerCovers
<1>1. Books => LedgerCovers
  BY CallAssumption
     DEF Books, LedgerType, BillsAreBounded, RowFollowsCall, ChargeIsKnown,
         LedgerCovers, Standing, RowState
<1> QED
  BY <1>1, BooksInvariant, PTL

\* The manager's reservations are those of calls under way: whoever leaves "inserting" or
\* "rpc" takes its reservation out of the manager in the same step.
LEMMA StepsKeepOpen ==
  ASSUME Books, open \subseteq Call, OpenIsUnderWay, [Next]_vars
  PROVE  open' \subseteq Call /\ OpenIsUnderWay'
<1> USE DEF Books, LedgerType, OpenIsUnderWay
<1>1. CASE \E c \in Call : Reserve(c) \/ ReserveRefused(c) \/ InsertReservation(c)
  BY <1>1 DEF Reserve, ReserveRefused, InsertReservation, Finish, memory
<1>2. CASE \E c \in Call, inserted \in BOOLEAN : InsertFails(c, inserted)
  BY <1>2 DEF InsertFails, Finish
<1>3. CASE \E c \in Call : Ends(c)
  BY <1>3 DEF Ends, RemoteNotStarted, Ambiguous, Answered, Settle, Finish
<1>4. CASE \E c \in Call : RecordSettlement(c) \/ RecordFails(c) \/ Provider(c)
  BY <1>4 DEF RecordSettlement, RecordFails, Finish, Provider, WorkerCalls, ProviderBills,
              memory, callVars
<1>5. CASE Stop
  BY <1>5 DEF Stop
<1>6. CASE \E now \in Day \cap {today, today + 1} : Start(now)
  BY <1>6 DEF Start, callVars
<1>7. CASE Midnight \/ ClockBack \/ UNCHANGED vars
  BY <1>7 DEF Midnight, ClockBack, vars, memory, callVars
<1> QED
  BY <1>1, <1>2, <1>3, <1>4, <1>5, <1>6, <1>7 DEF Next, CallStep

\* OpenIsUnderWay for every instance: neither a failed insert nor an ambiguous answer, a
\* cancelled caller or a stop leaves a reservation in the manager that no call will end.
THEOREM NoReservationLeaks == Spec => []OpenIsUnderWay
<1>1. Init => open \subseteq Call /\ OpenIsUnderWay
  BY DEF Init, OpenIsUnderWay
<1>2. Books /\ (open \subseteq Call /\ OpenIsUnderWay) /\ [Next]_vars
        => (open \subseteq Call /\ OpenIsUnderWay)'
  BY StepsKeepOpen
<1> QED
  BY <1>1, <1>2, BooksInvariant, PTL DEF Spec

---------------------------------------------------------------------------
(* Sums.                                                                   *)

\* The units of finitely many amounts are finitely many.
LEMMA UnitsAreFinite ==
  ASSUME NEW f, NEW S, IsFiniteSet(S), \A c \in S : f[c] \in Nat
  PROVE  IsFiniteSet(Units(f, S)) /\ Total(f, S) \in Nat
<1> DEFINE Piece == [c \in S |-> {c} \X (1 .. f[c])]
           Pieces == {{c} \X (1 .. f[c]) : c \in S}
<1>1. Piece \in Surjection(S, Pieces)
  BY DEF Surjection
<1>2. IsFiniteSet(Pieces)
  BY <1>1, FS_Surjection
<1>3. ASSUME NEW T \in Pieces PROVE IsFiniteSet(T)
  <2>1. PICK c \in S : T = {c} \X (1 .. f[c])
    OBVIOUS
  <2>2. IsFiniteSet({c})
    BY FS_Singleton
  <2>3. f[c] \in Int /\ 1 \in Int
    OBVIOUS
  <2>4. IsFiniteSet(1 .. f[c])
    BY <2>3, FS_Interval
  <2> QED
    BY <2>1, <2>2, <2>4, FS_Product
<1>4. IsFiniteSet(UNION Pieces)
  BY <1>2, <1>3, FS_UNION
<1> QED
  BY <1>4, FS_CardinalityType DEF Units, Total

\* A sum grows with its amounts and with the set they are taken from.
LEMMA TotalIsMonotone ==
  ASSUME NEW f, NEW g, NEW S, NEW T, IsFiniteSet(S), IsFiniteSet(T),
         \A c \in S : f[c] \in Nat, \A c \in T : g[c] \in Nat,
         \A c \in S : f[c] > 0 => c \in T /\ f[c] <= g[c]
  PROVE  Total(f, S) <= Total(g, T)
<1>1. Units(f, S) \subseteq Units(g, T)
  <2> SUFFICES ASSUME NEW c \in S, NEW u \in {c} \X (1 .. f[c])
               PROVE  c \in T /\ u \in {c} \X (1 .. g[c])
    BY DEF Units
  <2>1. f[c] \in Nat /\ f[c] > 0
    OBVIOUS
  <2>2. c \in T /\ f[c] <= g[c] /\ g[c] \in Nat
    BY <2>1
  <2> QED
    BY <2>1, <2>2
<1>2. IsFiniteSet(Units(g, T))
  BY UnitsAreFinite
<1> QED
  BY <1>1, <1>2, FS_Subset DEF Total

\* A sum over two disjoint sets.
LEMMA TotalOfUnion ==
  ASSUME NEW f, NEW S, NEW T, IsFiniteSet(S), IsFiniteSet(T), S \cap T = {},
         \A c \in S \cup T : f[c] \in Nat
  PROVE  Total(f, S \cup T) = Total(f, S) + Total(f, T)
<1>1. Units(f, S \cup T) = Units(f, S) \cup Units(f, T)
  BY DEF Units
<1>2. Units(f, S) \cap Units(f, T) = {}
  <2> SUFFICES ASSUME NEW a \in S, NEW b \in T,
                   NEW u \in {a} \X (1 .. f[a]), u \in {b} \X (1 .. f[b])
               PROVE  FALSE
    BY DEF Units
  <2>1. u[1] = a /\ u[1] = b
    OBVIOUS
  <2> QED
    BY <2>1
<1>3. IsFiniteSet(Units(f, S)) /\ IsFiniteSet(Units(f, T))
  BY UnitsAreFinite
<1>4. Cardinality(Units(f, S) \cap Units(f, T)) = 0
  BY <1>2, FS_EmptySet
<1>5. Total(f, S) \in Nat /\ Total(f, T) \in Nat
  BY UnitsAreFinite
<1>6. Cardinality(Units(f, S) \cup Units(f, T))
        = Cardinality(Units(f, S)) + Cardinality(Units(f, T))
            - Cardinality(Units(f, S) \cap Units(f, T))
  BY <1>3, FS_Union
<1>7. Total(f, S \cup T) = Total(f, S) + Total(f, T) - 0
  BY <1>1, <1>4, <1>6, Zenon DEF Total
<1> QED
  BY <1>5, <1>7

\* A sum of one amount.
LEMMA TotalOfOne ==
  ASSUME NEW f, NEW c, f[c] \in Nat
  PROVE  Total(f, {c}) = f[c]
<1>1. Units(f, {c}) = {c} \X (1 .. f[c])
  BY DEF Units
<1>2. IsFiniteSet({c}) /\ Cardinality({c}) = 1
  BY FS_Singleton
<1>3. IsFiniteSet(1 .. f[c]) /\ Cardinality(1 .. f[c]) = f[c]
  <2>1. f[c] \in Int /\ 1 \in Int
    OBVIOUS
  <2>2. /\ IsFiniteSet(1 .. f[c])
        /\ Cardinality(1 .. f[c]) = IF 1 > f[c] THEN 0 ELSE f[c] - 1 + 1
    BY <2>1, FS_Interval
  <2> QED
    BY <2>2
<1>4. Cardinality({c} \X (1 .. f[c])) = Cardinality({c}) * Cardinality(1 .. f[c])
  BY <1>2, <1>3, FS_Product
<1>5. Total(f, {c}) = 1 * f[c]
  BY <1>1, <1>2, <1>3, <1>4, Zenon DEF Total
<1> QED
  BY <1>5

\* A call whose amount is added, and grown by at most x.
LEMMA TotalWithOne ==
  ASSUME NEW f, NEW g, NEW S, NEW c, NEW x \in Nat, IsFiniteSet(S),
         \A b \in S \cup {c} : f[b] \in Nat /\ g[b] \in Nat,
         \A b \in S \ {c} : g[b] <= f[b], g[c] <= x
  PROVE  Total(g, S \cup {c}) <= Total(f, S) + x
<1>1. S \cup {c} = (S \ {c}) \cup {c} /\ (S \ {c}) \cap {c} = {}
  OBVIOUS
<1>2. IsFiniteSet(S \ {c}) /\ IsFiniteSet({c})
  BY FS_RemoveElement, FS_Singleton
<1>3. Total(g, S \cup {c}) = Total(g, S \ {c}) + Total(g, {c})
  <2>1. Total(g, (S \ {c}) \cup {c}) = Total(g, S \ {c}) + Total(g, {c})
    BY <1>1, <1>2, TotalOfUnion
  <2> QED
    BY <1>1, <2>1
<1>4. Total(g, S \ {c}) <= Total(f, S)
  BY <1>2, TotalIsMonotone
<1>5. Total(g, {c}) = g[c]
  BY TotalOfOne
<1>6. Total(g, S \ {c}) \in Nat /\ Total(f, S) \in Nat
  BY <1>2, UnitsAreFinite
<1> QED
  BY <1>3, <1>4, <1>5, <1>6

\* An empty sum.
LEMMA TotalOfNone == ASSUME NEW f PROVE Total(f, {}) = 0
<1>1. Units(f, {}) = {}
  BY DEF Units
<1> QED
  BY <1>1, FS_EmptySet DEF Total

---------------------------------------------------------------------------
(* The hard limit.                                                         *)

\* The parts of LedgerType that count here, and the finite sets that are summed.
LEMMA Sums ==
  ASSUME TypeOK
  PROVE  /\ \A c \in Call : Exposure[c] \in Nat
         /\ \A S \in SUBSET Call : /\ IsFiniteSet(S)
                                   /\ \A d : IsFiniteSet(OnDay(S, d)) /\ IsFiniteSet(InMonth(S, d))
<1>1. \A c \in Call : Exposure[c] \in Nat
  BY CallAssumption DEF TypeOK, LedgerType, Exposure
<1>2. ASSUME NEW S \in SUBSET Call PROVE IsFiniteSet(S)
  BY CallAssumption, FS_Subset
<1>3. \A S \in SUBSET Call : \A d : OnDay(S, d) \in SUBSET Call /\ InMonth(S, d) \in SUBSET Call
  BY DEF OnDay, InMonth
<1> QED
  BY <1>1, <1>2, <1>3

\* A sum over some calls is a number.
LEMMA SumsAreNumbers ==
  ASSUME TypeOK, NEW f, NEW S \in SUBSET Call, \A c \in Call : f[c] \in Nat
  PROVE  /\ Total(f, S) \in Nat
         /\ \A d : Total(f, OnDay(S, d)) \in Nat /\ Total(f, InMonth(S, d)) \in Nat
<1>1. \A d : OnDay(S, d) \in SUBSET Call /\ InMonth(S, d) \in SUBSET Call
  BY DEF OnDay, InMonth
<1> QED
  BY <1>1, Sums, UnitsAreFinite

\* What is booked is a number: the type of the manager's totals.
LEMMA StepsKeepTypes ==
  ASSUME TypeOK, Books, Books', Next
  PROVE  TypeOK'
<1> USE DEF TypeOK, memory, callVars, process
<1>1. LedgerType'
  BY DEF Books
<1>2. \A c \in Call : ClientOf[c] \in Client
  BY CallAssumption
<1>3. \A c \in Call : dayOf[c] \in Day /\ MonthOf[dayOf[c]] \in Month
  BY DEF Month
<1>4. CASE \E c \in Call : Reserve(c) \/ ReserveRefused(c) \/ InsertReservation(c)
  BY <1>1, <1>2, <1>4 DEF Reserve, ReserveRefused, InsertReservation, Terminate
<1>5. CASE \E c \in Call, inserted \in BOOLEAN : InsertFails(c, inserted)
  BY <1>1, <1>2, <1>5 DEF InsertFails, Terminate
<1>6. ASSUME NEW c \in Call, Ends(c) PROVE TypeOK'
  <2>1. PICK how \in Outcome, cost \in Nat, ends \in BOOLEAN :
            Settle(c, how, cost) /\ Terminate(c, ends) /\ how # "none"
    BY <1>6 DEF Ends, RemoteNotStarted, Ambiguous, Answered, Outcome, LedgerType
  <2>2. Charge(c, how, cost) \in Nat
    BY <2>1, CallAssumption DEF Charge, Outcome
  <2>3. spent' \in [Day -> Nat] /\ mspent' \in [Month -> Nat]
    BY <1>3, <2>1, <2>2 DEF Settle
  <2> QED
    BY <1>1, <1>2, <2>1, <2>3 DEF Settle, Terminate
<1>7. CASE \E c \in Call : RecordSettlement(c) \/ RecordFails(c) \/ Provider(c)
  BY <1>1, <1>2, <1>7 DEF RecordSettlement, RecordFails, Terminate, Provider, WorkerCalls,
     ProviderBills
<1>8. CASE Stop
  <2>1. up' \in BOOLEAN
    BY <1>8 DEF Stop
  <2> QED
    BY <1>1, <1>8, <2>1 DEF Stop
<1>9. ASSUME NEW now \in Day \cap {today, today + 1}, Start(now) PROVE TypeOK'
  <2> DEFINE state == [c \in Call |-> Recovered(c).state]
             charge == [c \in Call |-> Recovered(c).charge]
             spending == {c \in Call : state[c] \in {"settled", "unknown"}}
  <2>1. \A c \in Call : charge[c] \in Nat
    BY CallAssumption DEF Recovered, LedgerType
  <2>2. spending \in SUBSET Call
    OBVIOUS
  <2>3. /\ Total(charge, OnDay(spending, today)) \in Nat
        /\ Total(charge, InMonth(spending, MonthOf[today])) \in Nat
    <3> HIDE DEF state, charge, spending
    <3> QED
      BY <2>1, <2>2, SumsAreNumbers
  <2>4. /\ spent' = [spent EXCEPT ![now] = Total(charge, OnDay(spending, today))]
        /\ mspent' = [mspent EXCEPT ![MonthOf[now]] =
                        Total(charge, InMonth(spending, MonthOf[today]))]
    BY <1>9 DEF Start
  <2>5. up' \in BOOLEAN
    BY <1>9 DEF Start
  <2>6. spent' \in [Day -> Nat] /\ mspent' \in [Month -> Nat]
    <3> HIDE DEF state, charge, spending
    <3> QED
      BY <2>3, <2>4
  <2> QED
    BY <1>1, <1>9, <2>5, <2>6 DEF Start
<1>10. CASE Midnight
  BY <1>1, <1>10, LimitAssumption DEF Midnight, Day
<1>11. CASE ClockBack
  BY <1>1, <1>11, LimitAssumption DEF ClockBack, Day
<1> QED
  BY <1>4, <1>5, <1>6, <1>7, <1>8, <1>9, <1>10, <1>11 DEF Next, CallStep

\* Budget is taken when the call starts and given back when it ends, stop or not.
LEMMA StepsKeepReservations ==
  ASSUME Books, OpenIsInWork, Next
  PROVE  OpenIsInWork'
<1> USE DEF Books, LedgerType, OpenIsInWork
<1>1. CASE \E c \in Call : Reserve(c) \/ ReserveRefused(c) \/ InsertReservation(c)
  BY <1>1 DEF Reserve, ReserveRefused, InsertReservation, Finish, memory
<1>2. CASE \E c \in Call, inserted \in BOOLEAN : InsertFails(c, inserted)
  BY <1>2 DEF InsertFails, Finish
<1>3. CASE \E c \in Call : Ends(c)
  BY <1>3 DEF Ends, RemoteNotStarted, Ambiguous, Answered, Settle, Finish
<1>4. CASE \E c \in Call : RecordSettlement(c) \/ RecordFails(c) \/ Provider(c)
  BY <1>4 DEF RecordSettlement, RecordFails, Finish, Provider, WorkerCalls, ProviderBills,
              memory, callVars
<1>5. CASE Stop
  BY <1>5 DEF Stop
<1>6. CASE \E now \in Day \cap {today, today + 1} : Start(now)
  BY <1>6 DEF Start, callVars
<1>7. CASE Midnight \/ ClockBack
  BY <1>7 DEF Midnight, ClockBack, memory, callVars
<1> QED
  BY <1>1, <1>2, <1>3, <1>4, <1>5, <1>6, <1>7 DEF Next, CallStep

\* A stop forgets what was booked, and nothing gets more expensive: no step but a
\* reservation adds to what the provider may bill.
LEMMA OnlyReservingExposes ==
  ASSUME TypeOK, Books, OpenIsInWork, Next, \A c \in Call : ~Reserve(c)
  PROVE  \A c \in Call : Exposure'[c] <= Exposure[c]
<1> USE CallAssumption DEF TypeOK, Books, LedgerType, Exposure, OpenIsInWork, BillsAreBounded
<1>1. CASE \E c \in Call : ReserveRefused(c) \/ InsertReservation(c)
  BY <1>1 DEF ReserveRefused, InsertReservation, memory, provider
<1>2. CASE \E c \in Call, inserted \in BOOLEAN : InsertFails(c, inserted)
  BY <1>2 DEF InsertFails, provider
<1>3. ASSUME NEW c \in Call, Ends(c) PROVE \A b \in Call : Exposure'[b] <= Exposure[b]
  <2>1. open' \subseteq open /\ asked' = asked /\ billed' = billed
    BY <1>3 DEF Ends, RemoteNotStarted, Ambiguous, Answered, Settle, provider
  <2> QED
    BY <2>1
<1>4. CASE \E c \in Call : RecordSettlement(c) \/ RecordFails(c)
  <2>1. open' = open /\ asked' = asked /\ billed' = billed
    BY <1>4 DEF RecordSettlement, RecordFails, memory, provider
  <2> QED
    BY <2>1
<1>5. ASSUME NEW c \in Call, WorkerCalls(c) PROVE \A b \in Call : Exposure'[b] <= Exposure[b]
  BY <1>5 DEF WorkerCalls, memory
<1>6. ASSUME NEW c \in Call, NEW amount \in 1 .. Estimate[c], ProviderBills(c, amount)
      PROVE  \A b \in Call : Exposure'[b] <= Exposure[b]
  BY <1>6 DEF ProviderBills, memory
<1>7. CASE Stop
  BY <1>7 DEF Stop, provider
<1>8. CASE \E now \in Day \cap {today, today + 1} : Start(now)
  BY <1>8 DEF Start, provider
<1>9. CASE Midnight \/ ClockBack
  BY <1>9 DEF Midnight, ClockBack, memory, provider
<1> QED
  BY <1>1, <1>2, <1>3, <1>4, <1>5, <1>6, <1>7, <1>8, <1>9 DEF Next, CallStep, Provider

\* Over one set of calls: bills that come in lower add up to less.
LEMMA CheaperSums ==
  ASSUME TypeOK, TypeOK', NEW S \in SUBSET Call, NEW T \in SUBSET Call, S \subseteq T,
         \A c \in S : Exposure'[c] <= Exposure[c]
  PROVE  Total(Exposure', S) <= Total(Exposure, T)
<1>1. \A c \in Call : Exposure[c] \in Nat /\ Exposure'[c] \in Nat
  BY CallAssumption DEF TypeOK, LedgerType, Exposure
<1>2. IsFiniteSet(S) /\ IsFiniteSet(T)
  BY CallAssumption, FS_Subset
<1> QED
  BY <1>1, <1>2, TotalIsMonotone

\* Bills that come in lower, or not at all, stay inside the limits.
LEMMA CheaperKeepsLimits ==
  ASSUME TypeOK, TypeOK', WithinLimits, dayOf' = dayOf,
         \A c \in Call : Exposure'[c] <= Exposure[c]
  PROVE  WithinLimits'
<1>1. \A c \in Call : Exposure[c] \in Nat /\ Exposure'[c] \in Nat
  BY CallAssumption DEF TypeOK, LedgerType, Exposure
<1>2. ASSUME NEW S \in SUBSET Call
      PROVE  /\ Total(Exposure', S) <= Total(Exposure, S)
             /\ Total(Exposure', S) \in Nat /\ Total(Exposure, S) \in Nat
  BY <1>1, CheaperSums, CallAssumption, FS_Subset, UnitsAreFinite
<1>3. ASSUME NEW d \in Day PROVE Total(Exposure', OnDay(Call, d)') <= DailyLimit
  <2>1. OnDay(Call, d)' = OnDay(Call, d) /\ OnDay(Call, d) \in SUBSET Call
    BY DEF OnDay
  <2>2. Total(Exposure, OnDay(Call, d)) <= DailyLimit
    BY DEF WithinLimits
  <2> QED
    BY <1>2, <2>1, <2>2, LimitAssumption
<1>4. ASSUME NEW m \in Month PROVE Total(Exposure', InMonth(Call, m)') <= MonthlyLimit
  <2>1. InMonth(Call, m)' = InMonth(Call, m) /\ InMonth(Call, m) \in SUBSET Call
    BY DEF InMonth
  <2>2. Total(Exposure, InMonth(Call, m)) <= MonthlyLimit
    BY DEF WithinLimits
  <2> QED
    BY <1>2, <2>1, <2>2, LimitAssumption
<1> QED
  BY <1>3, <1>4 DEF WithinLimits

\* A step that books nothing.
LEMMA QuietKeepsMemory ==
  ASSUME TypeOK, TypeOK', MemoryCovers, today' = today, dayOf' = dayOf, UNCHANGED memory, up' => up,
         \A c \in Call : Exposure'[c] <= Exposure[c]
  PROVE  MemoryCovers'
<1> SUFFICES ASSUME up'
             PROVE  /\ Total(Exposure', OnDay(Call \ open, today)') <= spent'[today']
                    /\ Total(Exposure', InMonth(Call \ open, MonthOf[today])')
                         <= mspent'[MonthOf[today']]
  BY DEF MemoryCovers
<1>1. ASSUME NEW S \in SUBSET Call
      PROVE  /\ Total(Exposure', S) <= Total(Exposure, S)
             /\ Total(Exposure', S) \in Nat /\ Total(Exposure, S) \in Nat
  <2>1. \A c \in Call : Exposure[c] \in Nat /\ Exposure'[c] \in Nat
    BY CallAssumption DEF TypeOK, LedgerType, Exposure
  <2> QED
    BY <2>1, CheaperSums, CallAssumption, FS_Subset, UnitsAreFinite
<1>2. /\ OnDay(Call \ open, today)' = OnDay(Call \ open, today)
      /\ InMonth(Call \ open, MonthOf[today])' = InMonth(Call \ open, MonthOf[today])
      /\ OnDay(Call \ open, today) \in SUBSET Call
      /\ InMonth(Call \ open, MonthOf[today]) \in SUBSET Call
  BY DEF OnDay, InMonth, memory
<1>3. spent' = spent /\ mspent' = mspent /\ spent[today] \in Nat /\ mspent[MonthOf[today]] \in Nat
  BY DEF TypeOK, memory, Month
<1>4. /\ Total(Exposure, OnDay(Call \ open, today)) <= spent[today]
      /\ Total(Exposure, InMonth(Call \ open, MonthOf[today])) <= mspent[MonthOf[today]]
  BY DEF MemoryCovers
<1> QED
  BY <1>1, <1>2, <1>3, <1>4

\* The end of a call: its reservation is replaced by what it is known to cost at most, on
\* its own day and month.
LEMMA BookingKeepsMemory ==
  ASSUME TypeOK, TypeOK', MemoryCovers, NEW c \in Call, NEW x \in Nat,
         today' = today, dayOf' = dayOf, up' = up, open' = open \ {c},
         spent' = [spent EXCEPT ![dayOf[c]] = @ + x],
         mspent' = [mspent EXCEPT ![MonthOf[dayOf[c]]] = @ + x],
         \A b \in Call : Exposure'[b] <= Exposure[b], Exposure'[c] <= x
  PROVE  MemoryCovers'
<1> SUFFICES ASSUME up'
             PROVE  /\ Total(Exposure', OnDay(Call \ open, today)') <= spent'[today']
                    /\ Total(Exposure', InMonth(Call \ open, MonthOf[today])')
                         <= mspent'[MonthOf[today']]
  BY DEF MemoryCovers
<1>1. \A b \in Call : Exposure[b] \in Nat /\ Exposure'[b] \in Nat
  BY CallAssumption DEF TypeOK, LedgerType, Exposure
<1>2. ASSUME NEW S \in SUBSET Call, NEW T \in SUBSET Call
      PROVE  /\ S \subseteq T => Total(Exposure', S) <= Total(Exposure, T)
             /\ S \subseteq T \cup {c} => Total(Exposure', S) <= Total(Exposure, T) + x
             /\ Total(Exposure', S) \in Nat /\ Total(Exposure, T) \in Nat
  <2>1. IsFiniteSet(S) /\ IsFiniteSet(T) /\ IsFiniteSet(T \cup {c})
    BY CallAssumption, FS_Subset, FS_AddElement
  <2>2. /\ Total(Exposure', S) \in Nat
        /\ Total(Exposure, T) \in Nat
        /\ Total(Exposure', T \cup {c}) \in Nat
    BY <1>1, <2>1, UnitsAreFinite
  <2>3. Total(Exposure', T \cup {c}) <= Total(Exposure, T) + x
    BY <1>1, <2>1, TotalWithOne
  <2>4. ASSUME S \subseteq T \cup {c} PROVE Total(Exposure', S) <= Total(Exposure', T \cup {c})
    BY <1>1, <2>1, <2>4, TotalIsMonotone
  <2> QED
    BY <2>2, <2>3, <2>4, CheaperSums
<1>3. /\ today \in Day /\ dayOf[c] \in Day /\ spent \in [Day -> Nat] /\ mspent \in [Month -> Nat]
      /\ MonthOf[today] \in Month /\ MonthOf[dayOf[c]] \in Month
  BY DEF TypeOK, Month
<1>4. /\ Total(Exposure, OnDay(Call \ open, today)) <= spent[today]
      /\ Total(Exposure, InMonth(Call \ open, MonthOf[today])) <= mspent[MonthOf[today]]
  BY DEF MemoryCovers
<1>5. Total(Exposure', OnDay(Call \ open, today)') <= spent'[today']
  <2>1. OnDay(Call \ open, today)' \in SUBSET Call /\ OnDay(Call \ open, today) \in SUBSET Call
    BY DEF OnDay
  <2>2. CASE dayOf[c] = today
    <3>1. OnDay(Call \ open, today)' \subseteq OnDay(Call \ open, today) \cup {c}
      BY DEF OnDay
    <3>2. spent'[today'] = spent[today] + x
      BY <1>3, <2>2
    <3>3. /\ Total(Exposure', OnDay(Call \ open, today)')
                 <= Total(Exposure, OnDay(Call \ open, today)) + x
          /\ Total(Exposure', OnDay(Call \ open, today)') \in Nat
          /\ Total(Exposure, OnDay(Call \ open, today)) \in Nat
      BY <1>2, <2>1, <3>1
    <3> QED
      BY <1>3, <1>4, <3>2, <3>3
  <2>3. CASE dayOf[c] # today
    <3>1. OnDay(Call \ open, today)' \subseteq OnDay(Call \ open, today)
      BY <2>3 DEF OnDay
    <3>2. spent'[today'] = spent[today]
      BY <1>3, <2>3
    <3>3. /\ Total(Exposure', OnDay(Call \ open, today)')
                 <= Total(Exposure, OnDay(Call \ open, today))
          /\ Total(Exposure', OnDay(Call \ open, today)') \in Nat
          /\ Total(Exposure, OnDay(Call \ open, today)) \in Nat
      BY <1>2, <2>1, <3>1
    <3> QED
      BY <1>3, <1>4, <3>2, <3>3
  <2> QED
    BY <2>2, <2>3
<1>6. Total(Exposure', InMonth(Call \ open, MonthOf[today])') <= mspent'[MonthOf[today']]
  <2>1. /\ InMonth(Call \ open, MonthOf[today])' \in SUBSET Call
        /\ InMonth(Call \ open, MonthOf[today]) \in SUBSET Call
    BY DEF InMonth
  <2>2. CASE MonthOf[dayOf[c]] = MonthOf[today]
    <3>1. InMonth(Call \ open, MonthOf[today])'
            \subseteq InMonth(Call \ open, MonthOf[today]) \cup {c}
      BY DEF InMonth
    <3>2. mspent'[MonthOf[today']] = mspent[MonthOf[today]] + x
      BY <1>3, <2>2
    <3>3. /\ Total(Exposure', InMonth(Call \ open, MonthOf[today])')
                 <= Total(Exposure, InMonth(Call \ open, MonthOf[today])) + x
          /\ Total(Exposure', InMonth(Call \ open, MonthOf[today])') \in Nat
          /\ Total(Exposure, InMonth(Call \ open, MonthOf[today])) \in Nat
      BY <1>2, <2>1, <3>1
    <3> QED
      BY <1>3, <1>4, <3>2, <3>3
  <2>3. CASE MonthOf[dayOf[c]] # MonthOf[today]
    <3>1. InMonth(Call \ open, MonthOf[today])' \subseteq InMonth(Call \ open, MonthOf[today])
      BY <2>3 DEF InMonth
    <3>2. mspent'[MonthOf[today']] = mspent[MonthOf[today]]
      BY <1>3, <2>3
    <3>3. /\ Total(Exposure', InMonth(Call \ open, MonthOf[today])')
                 <= Total(Exposure, InMonth(Call \ open, MonthOf[today]))
          /\ Total(Exposure', InMonth(Call \ open, MonthOf[today])') \in Nat
          /\ Total(Exposure, InMonth(Call \ open, MonthOf[today])) \in Nat
      BY <1>2, <2>1, <3>1
    <3> QED
      BY <1>3, <1>4, <3>2, <3>3
  <2> QED
    BY <2>2, <2>3
<1> QED
  BY <1>5, <1>6

\* What reserve compares with the limits is all the provider may bill for the day and the
\* month: what is booked for the calls that ended, and the estimates of those under way.
LEMMA ReserveComparesAll ==
  ASSUME TypeOK, Books, MemoryCovers, up, NEW k \in Call, Fits(k)
  PROVE  /\ Total(Exposure, OnDay(Call, today)) + Estimate[k] <= DailyLimit
         /\ Total(Exposure, InMonth(Call, MonthOf[today])) + Estimate[k] <= MonthlyLimit
<1>1. \A c \in Call : Exposure[c] \in Nat /\ Estimate[c] \in Nat /\ Exposure[c] <= Estimate[c]
  BY CallAssumption DEF TypeOK, LedgerType, Exposure, Books, BillsAreBounded
<1>2. ASSUME NEW S \in SUBSET Call, NEW T \in SUBSET Call, S \cap T = {}
      PROVE  /\ Total(Exposure, S \cup T) <= Total(Exposure, S) + Total(Estimate, T)
             /\ Total(Exposure, S \cup T) \in Nat
             /\ Total(Exposure, S) \in Nat /\ Total(Estimate, T) \in Nat
  <2>1. IsFiniteSet(S) /\ IsFiniteSet(T) /\ IsFiniteSet(S \cup T)
    BY CallAssumption, FS_Subset
  <2>2. Total(Exposure, S \cup T) = Total(Exposure, S) + Total(Exposure, T)
    BY <1>1, <1>2, <2>1, TotalOfUnion
  <2>3. Total(Exposure, T) <= Total(Estimate, T)
    BY <1>1, <2>1, TotalIsMonotone
  <2>4. /\ Total(Exposure, S) \in Nat /\ Total(Estimate, T) \in Nat
        /\ Total(Exposure, T) \in Nat /\ Total(Exposure, S \cup T) \in Nat
    BY <1>1, <2>1, UnitsAreFinite
  <2> QED
    BY <2>2, <2>3, <2>4
<1>3. /\ spent[today] \in Nat /\ mspent[MonthOf[today]] \in Nat /\ Estimate[k] \in Nat
      /\ open \in SUBSET Call
  BY <1>1 DEF TypeOK, Month
<1>4. Total(Exposure, OnDay(Call, today)) + Estimate[k] <= DailyLimit
  <2> DEFINE S == OnDay(Call \ open, today)  T == OnDay(open, today)
  <2>1. OnDay(Call, today) = S \cup T /\ S \cap T = {} /\ S \in SUBSET Call /\ T \in SUBSET Call
    BY <1>3 DEF OnDay
  <2>2. Total(Exposure, S) <= spent[today]
    BY DEF MemoryCovers
  <2>3. spent[today] + Total(Estimate, T) + Estimate[k] <= DailyLimit
    BY DEF Fits
  <2> HIDE DEF S, T
  <2>4. /\ Total(Exposure, OnDay(Call, today)) <= Total(Exposure, S) + Total(Estimate, T)
        /\ Total(Exposure, OnDay(Call, today)) \in Nat
        /\ Total(Exposure, S) \in Nat /\ Total(Estimate, T) \in Nat
    BY <1>2, <2>1
  <2> QED
    BY <1>3, <2>2, <2>3, <2>4, LimitAssumption
<1>5. Total(Exposure, InMonth(Call, MonthOf[today])) + Estimate[k] <= MonthlyLimit
  <2> DEFINE S == InMonth(Call \ open, MonthOf[today])  T == InMonth(open, MonthOf[today])
  <2>1. /\ InMonth(Call, MonthOf[today]) = S \cup T /\ S \cap T = {}
        /\ S \in SUBSET Call /\ T \in SUBSET Call
    BY <1>3 DEF InMonth
  <2>2. Total(Exposure, S) <= mspent[MonthOf[today]]
    BY DEF MemoryCovers
  <2>3. mspent[MonthOf[today]] + Total(Estimate, T) + Estimate[k] <= MonthlyLimit
    BY DEF Fits
  <2> HIDE DEF S, T
  <2>4. /\ Total(Exposure, InMonth(Call, MonthOf[today])) <= Total(Exposure, S) + Total(Estimate, T)
        /\ Total(Exposure, InMonth(Call, MonthOf[today])) \in Nat
        /\ Total(Exposure, S) \in Nat /\ Total(Estimate, T) \in Nat
    BY <1>2, <2>1
  <2> QED
    BY <1>3, <2>2, <2>3, <2>4, LimitAssumption
<1> QED
  BY <1>4, <1>5

\* A reservation that fits leaves the day and the month inside their limits.
LEMMA ReservingKeepsLimits ==
  ASSUME TypeOK, TypeOK', Books, OpenIsInWork, NoLaterDay, WithinLimits, MemoryCovers,
         NEW k \in Call, Reserve(k)
  PROVE  NoLaterDay' /\ WithinLimits' /\ MemoryCovers'
<1>0. /\ up /\ Fits(k) /\ pc[k] = "new" /\ today' = today /\ up' = up
      /\ dayOf' = [dayOf EXCEPT ![k] = today] /\ open' = open \cup {k}
      /\ spent' = spent /\ mspent' = mspent /\ asked' = asked /\ billed' = billed
  BY DEF Reserve, process, provider
<1>1. /\ \A c \in Call : Exposure[c] \in Nat /\ Exposure'[c] \in Nat
      /\ Estimate[k] \in Nat
      /\ \A c \in Call \ {k} : Exposure'[c] <= Exposure[c]
      /\ Exposure'[k] <= Estimate[k]
  <2>1. billed[k] <= Estimate[k] /\ \A c \in Call : Exposure[c] \in Nat /\ Exposure'[c] \in Nat
    BY CallAssumption DEF TypeOK, LedgerType, Exposure, Books, BillsAreBounded
  <2>2. \A c \in Call \ {k} : Exposure'[c] = Exposure[c]
    BY <1>0 DEF Exposure
  <2>3. Exposure'[k] <= Estimate[k]
    BY <1>0, <2>1, CallAssumption DEF Exposure, TypeOK, LedgerType
  <2> QED
    BY <2>1, <2>2, <2>3, CallAssumption
<1>2. /\ today \in Day /\ MonthOf[today] \in Month
      /\ dayOf \in [Call -> Day] /\ \A d \in Day : d \in Nat
  <2>1. \A d \in Day : d \in Nat
    BY LimitAssumption DEF Day
  <2> QED
    BY <2>1 DEF TypeOK, Month
<1>3. NoLaterDay'
  BY <1>0, <1>2 DEF NoLaterDay
<1>4. ASSUME NEW S \in SUBSET Call, NEW T \in SUBSET Call
      PROVE  /\ S \subseteq T \ {k} => Total(Exposure', S) <= Total(Exposure, T)
             /\ S \subseteq T \cup {k} => Total(Exposure', S) <= Total(Exposure, T) + Estimate[k]
             /\ Total(Exposure', S) \in Nat /\ Total(Exposure, T) \in Nat
  <2>1. IsFiniteSet(S) /\ IsFiniteSet(T) /\ IsFiniteSet(T \cup {k})
    BY CallAssumption, FS_Subset, FS_AddElement
  <2>2. /\ Total(Exposure', S) \in Nat /\ Total(Exposure, T) \in Nat
        /\ Total(Exposure', T \cup {k}) \in Nat
    BY <1>1, <2>1, UnitsAreFinite
  <2>3. Total(Exposure', T \cup {k}) <= Total(Exposure, T) + Estimate[k]
    BY <1>1, <2>1, TotalWithOne
  <2>4. ASSUME S \subseteq T \cup {k} PROVE Total(Exposure', S) <= Total(Exposure', T \cup {k})
    BY <1>1, <2>1, <2>4, TotalIsMonotone
  <2>5. ASSUME S \subseteq T \ {k} PROVE Total(Exposure', S) <= Total(Exposure, T)
    BY <1>1, <2>1, <2>5, TotalIsMonotone
  <2> QED
    BY <1>1, <2>2, <2>3, <2>4, <2>5
<1>5. /\ Total(Exposure, OnDay(Call, today)) + Estimate[k] <= DailyLimit
      /\ Total(Exposure, InMonth(Call, MonthOf[today])) + Estimate[k] <= MonthlyLimit
  BY <1>0, ReserveComparesAll
<1>6. WithinLimits'
  <2>1. ASSUME NEW d \in Day PROVE Total(Exposure', OnDay(Call, d)') <= DailyLimit
    <3>1. OnDay(Call, d)' \in SUBSET Call /\ OnDay(Call, d) \in SUBSET Call
      BY DEF OnDay
    <3>2. Total(Exposure, OnDay(Call, d)) <= DailyLimit
      BY DEF WithinLimits
    <3>3. CASE d = today
      <4>1. OnDay(Call, d)' \subseteq OnDay(Call, d) \cup {k}
        BY <1>0, <1>2 DEF OnDay
      <4>2. /\ Total(Exposure', OnDay(Call, d)') <= Total(Exposure, OnDay(Call, d)) + Estimate[k]
            /\ Total(Exposure', OnDay(Call, d)') \in Nat /\ Total(Exposure, OnDay(Call, d)) \in Nat
        BY <1>4, <3>1, <4>1
      <4>3. Total(Exposure, OnDay(Call, d)) + Estimate[k] <= DailyLimit
        BY <1>5, <3>3
      <4> QED
        BY <1>1, <4>2, <4>3, LimitAssumption
    <3>4. CASE d # today
      <4>1. OnDay(Call, d)' \subseteq OnDay(Call, d) \ {k}
        BY <1>0, <1>2, <3>4 DEF OnDay
      <4>2. /\ Total(Exposure', OnDay(Call, d)') <= Total(Exposure, OnDay(Call, d))
            /\ Total(Exposure', OnDay(Call, d)') \in Nat /\ Total(Exposure, OnDay(Call, d)) \in Nat
        BY <1>4, <3>1, <4>1
      <4> QED
        BY <3>2, <4>2, LimitAssumption
    <3> QED
      BY <3>3, <3>4
  <2>2. ASSUME NEW m \in Month PROVE Total(Exposure', InMonth(Call, m)') <= MonthlyLimit
    <3>1. InMonth(Call, m)' \in SUBSET Call /\ InMonth(Call, m) \in SUBSET Call
      BY DEF InMonth
    <3>2. Total(Exposure, InMonth(Call, m)) <= MonthlyLimit
      BY DEF WithinLimits
    <3>3. CASE m = MonthOf[today]
      <4>1. InMonth(Call, m)' \subseteq InMonth(Call, m) \cup {k}
        BY <1>0, <1>2 DEF InMonth
      <4>2. /\ Total(Exposure', InMonth(Call, m)')
                 <= Total(Exposure, InMonth(Call, m)) + Estimate[k]
            /\ Total(Exposure', InMonth(Call, m)') \in Nat
            /\ Total(Exposure, InMonth(Call, m)) \in Nat
        BY <1>4, <3>1, <4>1
      <4>3. Total(Exposure, InMonth(Call, m)) + Estimate[k] <= MonthlyLimit
        BY <1>5, <3>3
      <4> QED
        BY <1>1, <4>2, <4>3, LimitAssumption
    <3>4. CASE m # MonthOf[today]
      <4>1. InMonth(Call, m)' \subseteq InMonth(Call, m) \ {k}
        BY <1>0, <1>2, <3>4 DEF InMonth
      <4>2. /\ Total(Exposure', InMonth(Call, m)') <= Total(Exposure, InMonth(Call, m))
            /\ Total(Exposure', InMonth(Call, m)') \in Nat
            /\ Total(Exposure, InMonth(Call, m)) \in Nat
        BY <1>4, <3>1, <4>1
      <4> QED
        BY <3>2, <4>2, LimitAssumption
    <3> QED
      BY <3>3, <3>4
  <2> QED
    BY <2>1, <2>2 DEF WithinLimits
<1>7. MemoryCovers'
  <2>1. /\ OnDay(Call \ open, today)' \subseteq OnDay(Call \ open, today) \ {k}
        /\ InMonth(Call \ open, MonthOf[today])'
                     \subseteq InMonth(Call \ open, MonthOf[today]) \ {k}
        /\ OnDay(Call \ open, today) \in SUBSET Call
        /\ InMonth(Call \ open, MonthOf[today]) \in SUBSET Call
    BY <1>0, <1>2 DEF OnDay, InMonth
  <2>2. /\ OnDay(Call \ open, today)' \in SUBSET Call
        /\ InMonth(Call \ open, MonthOf[today])' \in SUBSET Call
    BY <2>1
  <2>3. /\ Total(Exposure', OnDay(Call \ open, today)')
               <= Total(Exposure, OnDay(Call \ open, today))
        /\ Total(Exposure', OnDay(Call \ open, today)') \in Nat
        /\ Total(Exposure, OnDay(Call \ open, today)) \in Nat
    BY <1>4, <2>1, <2>2
  <2>4. /\ Total(Exposure', InMonth(Call \ open, MonthOf[today])')
             <= Total(Exposure, InMonth(Call \ open, MonthOf[today]))
        /\ Total(Exposure', InMonth(Call \ open, MonthOf[today])') \in Nat
        /\ Total(Exposure, InMonth(Call \ open, MonthOf[today])) \in Nat
    BY <1>4, <2>1, <2>2
  <2>5. spent[today] \in Nat /\ mspent[MonthOf[today]] \in Nat
    BY <1>2 DEF TypeOK
  <2>6. /\ Total(Exposure, OnDay(Call \ open, today)) <= spent[today]
        /\ Total(Exposure, InMonth(Call \ open, MonthOf[today])) <= mspent[MonthOf[today]]
    BY <1>0 DEF MemoryCovers
  <2>7. /\ Total(Exposure', OnDay(Call \ open, today)') <= spent[today]
        /\ Total(Exposure', InMonth(Call \ open, MonthOf[today])') <= mspent[MonthOf[today]]
    BY <2>3, <2>4, <2>5, <2>6
  <2> QED
    BY <1>0, <2>7 DEF MemoryCovers
<1> QED
  BY <1>3, <1>6, <1>7

\* The end of a call: what is booked is at least what the provider may bill.
LEMMA EndingKeepsMemory ==
  ASSUME TypeOK, TypeOK', Books, OpenIsInWork, MemoryCovers, NEW c \in Call,
         Ends(c) \/ \E inserted \in BOOLEAN : InsertFails(c, inserted),
         \A b \in Call : Exposure'[b] <= Exposure[b]
  PROVE  MemoryCovers'
<1>1. CASE \E inserted \in BOOLEAN : InsertFails(c, inserted)
  <2>1. /\ today' = today /\ dayOf' = dayOf /\ up' = up /\ open' = open \ {c}
        /\ spent' = spent /\ mspent' = mspent
        /\ asked' = asked /\ billed' = billed /\ pc[c] = "inserting"
    BY <1>1 DEF InsertFails, process, provider
  <2>2. c \notin asked /\ billed[c] = 0
    BY <2>1 DEF Books, RowFollowsCall, BillsAreBounded, LedgerType
  <2>3. Exposure'[c] <= 0
    BY <2>1, <2>2 DEF Exposure
  <2>4. /\ spent' = [spent EXCEPT ![dayOf[c]] = @ + 0]
        /\ mspent' = [mspent EXCEPT ![MonthOf[dayOf[c]]] = @ + 0]
    BY <2>1 DEF TypeOK, Month
  <2> QED
    BY <2>1, <2>3, <2>4, BookingKeepsMemory
<1>2. CASE Ends(c)
  <2>1. PICK how \in {"released", "settled", "unknown"}, cost \in {0, billed[c]} :
            /\ Settle(c, how, cost) /\ pc[c] = "rpc"
            /\ how = "released" => c \notin asked
            /\ how = "settled" => cost = billed[c] /\ cost > 0
    BY <1>2 DEF Ends, RemoteNotStarted, Ambiguous, Answered, Books, LedgerType
  <2>2. billed[c] \in Nat /\ billed[c] <= Estimate[c] /\ (billed[c] > 0 => c \in asked)
        /\ Estimate[c] \in Nat
    BY CallAssumption DEF Books, BillsAreBounded, LedgerType
  <2>3. /\ today' = today /\ dayOf' = dayOf /\ up' = up /\ open' = open \ {c}
        /\ asked' = asked /\ billed' = billed
        /\ spent' = [spent EXCEPT ![dayOf[c]] = @ + Charge(c, how, cost)]
        /\ mspent' = [mspent EXCEPT ![MonthOf[dayOf[c]]] = @ + Charge(c, how, cost)]
    BY <2>1 DEF Settle, process, provider
  <2>4. Charge(c, how, cost) \in Nat /\ Exposure'[c] <= Charge(c, how, cost)
    BY <2>1, <2>2, <2>3 DEF Charge, Exposure
  <2> QED
    BY <2>3, <2>4, BookingKeepsMemory
<1> QED
  BY <1>1, <1>2

\* A new day is one nobody has called on yet, and so is a new month.
LEMMA NothingIsLater ==
  ASSUME TypeOK, NoLaterDay, NEW d \in Day, d > today, NEW S \in SUBSET Call
  PROVE  /\ OnDay(S, d) = {}
         /\ MonthOf[d] # MonthOf[today] => InMonth(S, MonthOf[d]) = {}
<1>1. /\ \A e \in Day : e \in Nat /\ MonthOf[e] \in Nat
      /\ \A c \in S : dayOf[c] \in Day /\ dayOf[c] <= today
      /\ today \in Day
  BY LimitAssumption DEF TypeOK, NoLaterDay, Day
<1>2. OnDay(S, d) = {}
  BY <1>1 DEF OnDay
<1>3. ASSUME MonthOf[d] # MonthOf[today], NEW c \in S PROVE MonthOf[dayOf[c]] # MonthOf[d]
  BY <1>1, <1>3, LimitAssumption
<1> QED
  BY <1>2, <1>3 DEF InMonth

\* Midnight: what is booked still covers the day and the month, or both are new.
LEMMA MidnightKeepsMemory ==
  ASSUME TypeOK, TypeOK', NoLaterDay, MemoryCovers, Midnight
  PROVE  NoLaterDay' /\ MemoryCovers'
<1>1. /\ today' = today + 1 /\ today' \in Day /\ today \in Day /\ today' > today
      /\ dayOf' = dayOf /\ up' = up /\ open' = open /\ spent' = spent /\ mspent' = mspent
      /\ Exposure' = Exposure
  <2>1. today \in Nat
    BY LimitAssumption DEF TypeOK, Day
  <2> QED
    BY <2>1 DEF Midnight, TypeOK, memory, process, provider, Exposure
<1>2. NoLaterDay'
  <2>1. \A c \in Call : dayOf[c] \in Nat
    BY LimitAssumption DEF TypeOK, Day
  <2>2. today \in Nat
    BY LimitAssumption DEF TypeOK, Day
  <2> QED
    BY <1>1, <2>1, <2>2 DEF NoLaterDay
<1>3. spent[today'] \in Nat /\ mspent[MonthOf[today']] \in Nat
  BY <1>1 DEF TypeOK, Month
<1>4. ASSUME up' PROVE Total(Exposure', OnDay(Call \ open, today)') <= spent'[today']
  <2>1. OnDay(Call \ open, today)' = OnDay(Call \ open, today') /\ Call \ open \in SUBSET Call
    BY <1>1 DEF OnDay
  <2>2. OnDay(Call \ open, today)' = {}
    BY <1>1, <2>1, NothingIsLater
  <2>3. Total(Exposure', OnDay(Call \ open, today)') = 0
    BY <2>2, TotalOfNone
  <2>4. spent'[today'] = spent[today']
    BY <1>1
  <2> QED
    BY <1>3, <2>3, <2>4
<1>5. ASSUME up'
      PROVE  Total(Exposure', InMonth(Call \ open, MonthOf[today])') <= mspent'[MonthOf[today']]
  <2>1. /\ InMonth(Call \ open, MonthOf[today])' = InMonth(Call \ open, MonthOf[today'])
        /\ Call \ open \in SUBSET Call
    BY <1>1 DEF InMonth
  <2>2. CASE MonthOf[today'] = MonthOf[today]
    BY <1>1, <1>5, <2>1, <2>2 DEF MemoryCovers
  <2>3. CASE MonthOf[today'] # MonthOf[today]
    <3>1. InMonth(Call \ open, MonthOf[today])' = {}
      BY <1>1, <2>1, <2>3, NothingIsLater
    <3> QED
      BY <1>1, <1>3, <3>1, TotalOfNone
  <2> QED
    BY <2>2, <2>3
<1> QED
  BY <1>2, <1>4, <1>5 DEF MemoryCovers

\* A start: the ledger it loads holds at least what the provider may bill for today and
\* for this month, and nothing else counts on a clock that does not go back.
LEMMA StartingKeepsMemory ==
  ASSUME TypeOK, TypeOK', Books, OpenIsInWork, NoLaterDay,
         NEW now \in Day \cap {today, today + 1}, Start(now)
  PROVE  NoLaterDay' /\ MemoryCovers'
<1> DEFINE state == [c \in Call |-> Recovered(c).state]
           charge == [c \in Call |-> Recovered(c).charge]
           spending == {c \in Call : state[c] \in {"settled", "unknown"}}
<1>1. /\ today' = now /\ dayOf' = dayOf /\ open' = open /\ ~up
      /\ asked' = asked /\ billed' = billed
      /\ spent' = [spent EXCEPT ![now] = Total(charge, OnDay(spending, today))]
      /\ mspent' = [mspent EXCEPT ![MonthOf[now]] =
                      Total(charge, InMonth(spending, MonthOf[today]))]
  BY DEF Start, provider
<1>2. /\ today \in Nat /\ today \in Day /\ now \in Nat /\ now \in Day
      /\ now = today \/ now > today
      /\ MonthOf[now] \in Month
      /\ \A c \in Call : dayOf[c] \in Nat
  <2>1. \A d \in Day : d \in Nat
    BY LimitAssumption DEF Day
  <2>2. today \in Day /\ \A c \in Call : dayOf[c] \in Day
    BY DEF TypeOK
  <2> QED
    BY <2>1, <2>2 DEF Month
<1>3. Exposure' = Exposure /\ open = {}
  BY <1>1 DEF Exposure, OpenIsInWork, Books, RowFollowsCall
<1>4. /\ \A c \in Call : Exposure[c] \in Nat /\ charge[c] \in Nat
      /\ \A c \in Call : Exposure[c] > 0 => c \in spending /\ Exposure[c] <= charge[c]
  <2>1. ASSUME NEW c \in Call
        PROVE  /\ charge[c] \in Nat /\ Exposure[c] \in Nat
               /\ Exposure[c] > 0 => c \in spending /\ Exposure[c] <= charge[c]
    <3>1. /\ billed[c] \in Nat /\ Estimate[c] \in Nat /\ charged[c] \in Nat
          /\ billed[c] <= Estimate[c] /\ (billed[c] > 0 => c \in asked)
      BY CallAssumption DEF TypeOK, LedgerType, Books, BillsAreBounded
    <3>2. /\ c \in asked => row[c] \in {"reserved", "settled", "unknown"}
          /\ row[c] = "settled" => charged[c] = billed[c] /\ billed[c] > 0
          /\ row[c] = "unknown" => charged[c] = Estimate[c]
      BY DEF Books, RowFollowsCall, ChargeIsKnown
    <3>3. Exposure[c] \in Nat /\ Exposure[c] <= Estimate[c] /\ (Exposure[c] > 0 => c \in asked)
          /\ (row[c] = "settled" => Exposure[c] <= charged[c])
      BY <1>3, <3>1, <3>2 DEF Exposure
    <3>4. /\ charge[c] = (IF row[c] = "reserved" THEN Estimate[c] ELSE charged[c])
          /\ state[c] = (IF row[c] = "reserved" THEN "unknown" ELSE row[c])
      BY DEF Recovered
    <3> QED
      BY <3>1, <3>2, <3>3, <3>4
  <2> QED
    BY <2>1
<1>5. NoLaterDay'
  BY <1>1, <1>2 DEF NoLaterDay
<1> HIDE DEF state, charge, spending
<1>6. spending \in SUBSET Call
  BY DEF spending
<1>7. ASSUME NEW S \in SUBSET Call, NEW T \in SUBSET Call,
             \A c \in S : c \in spending => c \in T
      PROVE  Total(Exposure, S) <= Total(charge, T)
  <2>1. IsFiniteSet(S) /\ IsFiniteSet(T)
    BY CallAssumption, FS_Subset
  <2> QED
    BY <1>4, <1>7, <2>1, TotalIsMonotone
<1>8. /\ Total(charge, OnDay(spending, today)) \in Nat
      /\ Total(charge, InMonth(spending, MonthOf[today])) \in Nat
  BY <1>4, <1>6, SumsAreNumbers
<1>9. /\ spent'[now] = Total(charge, OnDay(spending, today))
      /\ mspent'[MonthOf[now]] = Total(charge, InMonth(spending, MonthOf[today]))
  BY <1>1, <1>2 DEF TypeOK
<1>10. Total(Exposure', OnDay(Call \ open, today)') <= spent'[today']
  <2>1. OnDay(Call \ open, today)' = OnDay(Call, now)
    BY <1>1, <1>3 DEF OnDay
  <2>2. CASE now = today
    <3>1. /\ OnDay(Call, now) \in SUBSET Call /\ OnDay(spending, today) \in SUBSET Call
          /\ \A c \in OnDay(Call, now) : c \in spending => c \in OnDay(spending, today)
      BY <1>6, <2>2 DEF OnDay
    <3>2. Total(Exposure, OnDay(Call, now)) <= Total(charge, OnDay(spending, today))
      BY <1>7, <3>1
    <3> QED
      BY <1>1, <1>3, <1>9, <2>1, <3>2
  <2>3. CASE now > today
    <3>1. OnDay(Call, now) = {}
      BY <1>2, <2>3, NothingIsLater
    <3>2. Total(Exposure', OnDay(Call \ open, today)') = 0
      BY <2>1, <3>1, TotalOfNone
    <3> QED
      BY <1>1, <1>8, <1>9, <3>2
  <2> QED
    BY <1>2, <2>2, <2>3
<1>11. Total(Exposure', InMonth(Call \ open, MonthOf[today])') <= mspent'[MonthOf[today']]
  <2>1. InMonth(Call \ open, MonthOf[today])' = InMonth(Call, MonthOf[now])
    BY <1>1, <1>3 DEF InMonth
  <2>2. CASE MonthOf[now] = MonthOf[today]
    <3>1. /\ InMonth(Call, MonthOf[now]) \in SUBSET Call
          /\ InMonth(spending, MonthOf[today]) \in SUBSET Call
          /\ \A c \in InMonth(Call, MonthOf[now]) :
               c \in spending => c \in InMonth(spending, MonthOf[today])
      BY <1>6, <2>2 DEF InMonth
    <3>2. Total(Exposure, InMonth(Call, MonthOf[now]))
            <= Total(charge, InMonth(spending, MonthOf[today]))
      BY <1>7, <3>1
    <3> QED
      BY <1>1, <1>3, <1>9, <2>1, <3>2
  <2>3. CASE MonthOf[now] # MonthOf[today]
    <3>1. InMonth(Call, MonthOf[now]) = {}
      BY <1>2, <2>3, NothingIsLater
    <3>2. Total(Exposure', InMonth(Call \ open, MonthOf[today])') = 0
      BY <2>1, <3>1, TotalOfNone
    <3> QED
      BY <1>1, <1>8, <1>9, <3>2
  <2> QED
    BY <2>2, <2>3
<1> QED
  BY <1>5, <1>10, <1>11 DEF MemoryCovers

\* Every step keeps the limits, on a clock that does not go back.
LEMMA StepsKeepLimits ==
  ASSUME TypeOK, TypeOK', Books, OpenIsInWork, NoLaterDay, WithinLimits, MemoryCovers,
         Next, clock = "steady"
  PROVE  NoLaterDay' /\ WithinLimits' /\ MemoryCovers'
<1>1. CASE \E c \in Call : Reserve(c)
  BY <1>1, ReservingKeepsLimits
<1>2. CASE \A c \in Call : ~Reserve(c)
  <2>1. \A c \in Call : Exposure'[c] <= Exposure[c]
    BY <1>2, OnlyReservingExposes
  <2>2. dayOf' = dayOf
    BY <1>2 DEF Next, CallStep, Provider, ReserveRefused, InsertReservation, InsertFails,
       Ends, RemoteNotStarted, Ambiguous, Answered, Settle, RecordSettlement, RecordFails,
       WorkerCalls, ProviderBills, Midnight, ClockBack, Stop, Start
  <2>3. WithinLimits'
    BY <2>1, <2>2, CheaperKeepsLimits
  <2>4. ASSUME \/ \E c \in Call : \/ ReserveRefused(c) \/ InsertReservation(c)
                                  \/ RecordSettlement(c) \/ RecordFails(c) \/ Provider(c)
               \/ Stop
        PROVE  NoLaterDay' /\ MemoryCovers'
    <3>1. today' = today
      BY <2>4 DEF ReserveRefused, InsertReservation, RecordSettlement, RecordFails, Provider,
         WorkerCalls, ProviderBills, Stop
    <3>2. CASE Stop
      BY <2>2, <3>1, <3>2 DEF Stop, NoLaterDay, MemoryCovers
    <3>3. CASE ~Stop
      <4>1. UNCHANGED memory /\ up' = up
        BY <2>4, <3>3 DEF ReserveRefused, InsertReservation, RecordSettlement, RecordFails,
           Provider,
           WorkerCalls, ProviderBills, process
      <4> QED
        BY <2>1, <2>2, <3>1, <4>1, QuietKeepsMemory DEF NoLaterDay
    <3> QED
      BY <3>2, <3>3
  <2>5. ASSUME NEW c \in Call, Ends(c) \/ \E inserted \in BOOLEAN : InsertFails(c, inserted)
        PROVE  NoLaterDay' /\ MemoryCovers'
    <3>1. today' = today
      BY <2>5 DEF Ends, RemoteNotStarted, Ambiguous, Answered, Settle, InsertFails
    <3> QED
      BY <2>1, <2>2, <2>5, <3>1, EndingKeepsMemory DEF NoLaterDay
  <2>6. ~ClockBack
    BY DEF ClockBack
  <2> QED
    BY <1>2, <2>3, <2>4, <2>5, <2>6, MidnightKeepsMemory, StartingKeepsMemory DEF Next, CallStep
<1> QED
  BY <1>1, <1>2

\* LimitInv holds in every reachable state: what the manager has booked, the reservations
\* and the ledger of earlier lives together cover all that may still be billed.
THEOREM LimitInvariant == Spec => []LimitInv
<1>1. Init => LimitInv
  <2> SUFFICES ASSUME Init PROVE LimitInv
    OBVIOUS
  <2>1. 0 \in Day
    BY LimitAssumption DEF Day
  <2>2. up \in BOOLEAN /\ ~up
    BY DEF Init
  <2>3. TypeOK
    BY <2>1, <2>2 DEF Init, TypeOK, LedgerType, RowState, Outcome, CallStepName
  <2>4. Books
    BY CallAssumption DEF Init, Books, LedgerType, BillsAreBounded, RowFollowsCall,
       ChargeIsKnown, RowState, Outcome, CallStepName
  <2>5. OpenIsInWork /\ NoLaterDay /\ MemoryCovers
    BY DEF Init, OpenIsInWork, NoLaterDay, MemoryCovers
  <2>6. \A c \in Call : Exposure[c] = 0
    BY DEF Init, Exposure
  <2>7. ASSUME NEW S
        PROVE  /\ Total(Exposure, OnDay(Call, S)) = 0
               /\ Total(Exposure, InMonth(Call, S)) = 0
    <3>1. ASSUME NEW T \in SUBSET Call PROVE Total(Exposure, T) = 0
      <4>1. Units(Exposure, T) = {}
        BY <2>6 DEF Units
      <4> QED
        BY <4>1, FS_EmptySet DEF Total
    <3>2. OnDay(Call, S) \in SUBSET Call /\ InMonth(Call, S) \in SUBSET Call
      BY DEF OnDay, InMonth
    <3> QED
      BY <3>1, <3>2
  <2>8. WithinLimits
    BY <2>7, LimitAssumption DEF WithinLimits
  <2> QED
    BY <2>3, <2>4, <2>5, <2>8 DEF LimitInv
<1>2. LimitInv /\ Books' /\ [Next]_vars => LimitInv'
  <2> SUFFICES ASSUME LimitInv, Books', [Next]_vars PROVE LimitInv'
    OBVIOUS
  <2>1. CASE Next
    <3>1. TypeOK' /\ OpenIsInWork' /\ clock' = clock
      <4>1. clock' = clock
        BY <2>1 DEF Next, CallStep, Provider, Reserve, ReserveRefused, InsertReservation,
           InsertFails, Ends, RemoteNotStarted, Ambiguous, Answered, Settle, RecordSettlement,
           RecordFails, WorkerCalls, ProviderBills, Midnight, ClockBack, Stop, Start, process
      <4> QED
        BY <2>1, <4>1, StepsKeepTypes, StepsKeepReservations DEF LimitInv
    <3> QED
      BY <2>1, <3>1, StepsKeepLimits DEF LimitInv
  <2>2. CASE UNCHANGED vars
    <3> USE DEF vars, ledger, memory, callVars, process, provider
    <3>1. TypeOK' /\ OpenIsInWork' /\ NoLaterDay' = NoLaterDay
      BY <2>2 DEF LimitInv, TypeOK, LedgerType, OpenIsInWork, NoLaterDay
    <3>2. Exposure' = Exposure
      BY <2>2 DEF Exposure
    <3>3. WithinLimits' = WithinLimits /\ MemoryCovers' = MemoryCovers
      BY <2>2, <3>2 DEF WithinLimits, MemoryCovers, OnDay, InMonth
    <3> QED
      BY <2>2, <3>1, <3>3 DEF LimitInv
  <2> QED
    BY <2>1, <2>2
<1> QED
  BY <1>1, <1>2, BooksInvariant, PTL DEF Spec

\* HardLimit for every instance: whatever proxies run at once, whatever crashes, is
\* cancelled or answered late, the provider bills no more for a day or a month than its
\* limit, as long as the wall clock is not set back.
THEOREM SpendIsLimited == Spec => []HardLimit
<1>1. LimitInv => HardLimit
  <2> SUFFICES ASSUME LimitInv, clock = "steady"
               PROVE  /\ \A d \in Day : Total(billed, OnDay(asked, d)) <= DailyLimit
                      /\ \A m \in Month : Total(billed, InMonth(asked, m)) <= MonthlyLimit
    BY DEF HardLimit
  <2>1. /\ \A c \in Call : billed[c] \in Nat /\ Exposure[c] \in Nat
        /\ \A c \in Call : billed[c] > 0 => billed[c] <= Exposure[c]
        /\ asked \in SUBSET Call
    BY CallAssumption DEF LimitInv, TypeOK, LedgerType, Exposure
  <2>2. ASSUME NEW S \in SUBSET Call, NEW T \in SUBSET Call, S \subseteq T
        PROVE  /\ Total(billed, S) <= Total(Exposure, T)
               /\ Total(billed, S) \in Nat /\ Total(Exposure, T) \in Nat
    <3>1. IsFiniteSet(S) /\ IsFiniteSet(T)
      BY CallAssumption, FS_Subset
    <3> QED
      BY <2>1, <2>2, <3>1, TotalIsMonotone, UnitsAreFinite
  <2>3. ASSUME NEW d \in Day PROVE Total(billed, OnDay(asked, d)) <= DailyLimit
    <3>1. /\ OnDay(asked, d) \subseteq OnDay(Call, d) /\ OnDay(Call, d) \in SUBSET Call
          /\ OnDay(asked, d) \in SUBSET Call
      BY <2>1 DEF OnDay
    <3>2. Total(Exposure, OnDay(Call, d)) <= DailyLimit
      BY DEF LimitInv, WithinLimits
    <3>3. /\ Total(billed, OnDay(asked, d)) <= Total(Exposure, OnDay(Call, d))
          /\ Total(billed, OnDay(asked, d)) \in Nat /\ Total(Exposure, OnDay(Call, d)) \in Nat
      BY <2>2, <3>1
    <3> QED
      BY <3>2, <3>3, LimitAssumption
  <2>4. ASSUME NEW m \in Month PROVE Total(billed, InMonth(asked, m)) <= MonthlyLimit
    <3>1. /\ InMonth(asked, m) \subseteq InMonth(Call, m) /\ InMonth(Call, m) \in SUBSET Call
          /\ InMonth(asked, m) \in SUBSET Call
      BY <2>1 DEF InMonth
    <3>2. Total(Exposure, InMonth(Call, m)) <= MonthlyLimit
      BY DEF LimitInv, WithinLimits
    <3>3. /\ Total(billed, InMonth(asked, m)) <= Total(Exposure, InMonth(Call, m))
          /\ Total(billed, InMonth(asked, m)) \in Nat /\ Total(Exposure, InMonth(Call, m)) \in Nat
      BY <2>2, <3>1
    <3> QED
      BY <3>2, <3>3, LimitAssumption
  <2> QED
    BY <2>3, <2>4
<1> QED
  BY <1>1, LimitInvariant, PTL
============================================================================
