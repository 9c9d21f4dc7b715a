------------------------ MODULE EventPipelineProofs ------------------------
(* Theorems of EventPipeline, for every set of events, chats and workers.  *)
EXTENDS EventPipeline, FiniteSetTheorems, TLAPS

\* The next id of a table is a number: there are finitely many events.
LEMMA CountIsNat == ASSUME NEW S \in SUBSET Event PROVE Cardinality(S) \in Nat
BY FiniteAssumption, FS_Subset, FS_CardinalityType

\* What one step of the next-state relation can be, action by action.
LEMMA NextCases ==
  Next <=>
    \/ RecordInbound
    \/ \E e \in Event : Receive(e)
    \/ \E p \in Processor, e \in Event : ClaimNextInbox(p, e)
    \/ \E p \in Processor : SkipEvent(p)
    \/ \E p \in Processor : Preflight(p)
    \/ \E p \in Processor : MarkInboxModelStarted(p)
    \/ \E p \in Processor : Generate(p)
    \/ \E p \in Processor, step \in {"replied", "context"} : ModelResponds(p, step)
    \/ \E p \in Processor : CreateDraft(p)
    \/ \E p \in Processor : CommitAllowed(p)
    \/ \E p \in Processor : CommitRefused(p)
    \/ \E p \in Processor : CreateOutbox(p)
    \/ \E p \in Processor : FinishEvent(p)
    \/ \E p \in Processor, permanent \in BOOLEAN : FailInbox(p, permanent)
    \/ \E d \in Dispatcher : WakeDispatcher(d)
    \/ \E d \in Dispatcher : NothingToDispatch(d)
    \/ \E d \in Dispatcher, m \in Event : ReserveNextOutbox(d, m)
    \/ \E d \in Dispatcher : DispatchAllowed(d)
    \/ \E d \in Dispatcher : DispatchRefused(d)
    \/ \E d \in Dispatcher : MarkDispatching(d)
    \/ \E d \in Dispatcher : Send(d)
    \/ \E d \in Dispatcher, receipt \in {"acknowledged", "unknown", "dead"} :
         ApplyReceipt(d, receipt)
    \/ \E m \in Event : WechatShows(m)
    \/ QuietHoursTurn
    \/ \E m \in Event : RetryDue(m)
    \/ \E m \in Event : WindowPasses(m)
    \/ Pause
    \/ Resume
    \/ \E m \in Event, outcome \in {"acknowledged", "dead"} : ReconcileUnknown(m, outcome)
    \/ Stop
    \/ Startup
BY Zenon DEF Next, Consume, Process, Dispatch, Wechat, Clock, Operator

\* A worker past its first step holds a row.
LEMMA HeldRow ==
  ASSUME TypeOK, Ownership
  PROVE  /\ \A p \in Processor : pc[p] # "idle" => at[p] \in Event
         /\ \A d \in Dispatcher : dpc[d] \notin {"idle", "awake"} => dat[d] \in Event
BY DEF TypeOK, Ownership, ProcessorOwns, DispatcherOwns

\* The rows, workers and histories keep their shape under every step.
LEMMA TypeStep == TypeOK /\ Ownership /\ [Next]_vars => TypeOK'
<1> SUFFICES ASSUME TypeOK, Ownership, [Next]_vars PROVE TypeOK'
  OBVIOUS
<1> USE NoneAssumption, NumberAssumption, HeldRow
    DEF TypeOK, InboxState, OutboxState, ProcessorStep, DispatcherStep,
        inbox, outbox, store, admin, process, procVars, dispVars, wireVars, history
<1>1. CASE UNCHANGED vars
  BY <1>1 DEF vars
<1>2. CASE RecordInbound
  <2>1. 1 + Cardinality(Recorded) \in Nat
    BY CountIsNat DEF Recorded
  <2>2. consumer \in Event
    BY <1>2 DEF RecordInbound
  <2>3. CASE inState[consumer] # "absent"
    <3>1. UNCHANGED <<inState, attempts, started, inId>>
      BY <1>2, <2>3, Zenon DEF RecordInbound
    <3> QED
      BY <1>2, <3>1 DEF RecordInbound
  <2>4. CASE inState[consumer] = "absent"
    <3>1. started' \in [Event -> BOOLEAN]
      BY <1>2, <2>4, Zenon DEF RecordInbound
    <3>2. /\ inState' \in [Event -> InboxState]
          /\ inId' \in [Event -> Nat] /\ attempts' \in [Event -> Nat]
      BY <1>2, <2>1, <2>2, <2>4 DEF RecordInbound
    <3>3. /\ consumer' \in Event \cup {None}
          /\ UNCHANGED <<outbox, drafts, admin, process, procVars, dispVars, wireVars,
                        history>>
      BY <1>2, Zenon DEF RecordInbound
    <3> QED
      BY <3>1, <3>2, <3>3
  <2> QED
    BY <2>3, <2>4
<1>3. ASSUME NEW e \in Event, Receive(e) PROVE TypeOK'
  BY <1>3 DEF Receive
<1>4. ASSUME NEW p \in Processor, NEW e \in Event, ClaimNextInbox(p, e) PROVE TypeOK'
  BY <1>4 DEF ClaimNextInbox, Goto, Recorded
<1>5. ASSUME NEW p \in Processor, SkipEvent(p) PROVE TypeOK'
  BY <1>5 DEF SkipEvent, CompleteInbox, Done, Goto
<1>6. ASSUME NEW p \in Processor, Preflight(p) PROVE TypeOK'
  BY <1>6 DEF Preflight, Goto
<1>7. ASSUME NEW p \in Processor, MarkInboxModelStarted(p) PROVE TypeOK'
  BY <1>7 DEF MarkInboxModelStarted, Goto
<1>8. ASSUME NEW p \in Processor, Generate(p) PROVE TypeOK'
  BY <1>8 DEF Generate, Goto
<1>9. ASSUME NEW p \in Processor, NEW step \in {"replied", "context"}, ModelResponds(p, step)
      PROVE TypeOK'
  BY <1>9 DEF ModelResponds, Goto
<1>10. ASSUME NEW p \in Processor, CreateDraft(p) PROVE TypeOK'
  BY <1>10 DEF CreateDraft, Goto
<1>11. ASSUME NEW p \in Processor, CommitAllowed(p) PROVE TypeOK'
  BY <1>11 DEF CommitAllowed, Goto
<1>12. ASSUME NEW p \in Processor, CommitRefused(p) PROVE TypeOK'
  BY <1>12 DEF CommitRefused, CompleteInbox, Done, Goto
<1>13. ASSUME NEW p \in Processor, CreateOutbox(p) PROVE TypeOK'
  <2>1. 1 + Cardinality({m \in Event : outState[m] # "absent"}) \in Nat
    BY CountIsNat
  <2>2. at[p] \in Event
    BY <1>13 DEF CreateOutbox
  <2>3. CASE outState[at[p]] # "absent"
    <3>1. UNCHANGED <<outState, due, fresh, outId>>
      BY <1>13, <2>3, Zenon DEF CreateOutbox
    <3> QED
      BY <1>13, <3>1 DEF CreateOutbox, Release, Goto
  <2>4. CASE outState[at[p]] = "absent"
    <3>1. due' \in [Event -> BOOLEAN] /\ fresh' \in [Event -> BOOLEAN]
      BY <1>13, <2>4, ZenonT(60) DEF CreateOutbox
    <3>2. outState' \in [Event -> OutboxState] /\ outId' \in [Event -> Nat]
      BY <1>13, <2>1, <2>2, <2>4 DEF CreateOutbox
    <3>3. pc' \in [Processor -> ProcessorStep] /\ lock' \in Processor \cup {None}
      BY <1>13 DEF CreateOutbox, Release, Goto
    <3>4. UNCHANGED <<inbox, drafts, admin, process, consumer, at, turn, dispVars,
                      wireVars, history>>
      BY <1>13, Zenon DEF CreateOutbox
    <3> QED
      BY <3>1, <3>2, <3>3, <3>4
  <2> QED
    BY <2>3, <2>4
<1>14. ASSUME NEW p \in Processor, FinishEvent(p) PROVE TypeOK'
  BY <1>14 DEF FinishEvent, CompleteInbox, Done, Goto
<1>15. ASSUME NEW p \in Processor, NEW permanent \in BOOLEAN, FailInbox(p, permanent)
       PROVE TypeOK'
  BY <1>15 DEF FailInbox, Release, Done, Goto
<1>16. ASSUME NEW d \in Dispatcher, WakeDispatcher(d) PROVE TypeOK'
  BY <1>16 DEF WakeDispatcher, DGoto
<1>17. ASSUME NEW d \in Dispatcher, NothingToDispatch(d) PROVE TypeOK'
  BY <1>17 DEF NothingToDispatch, DGoto
<1>18. ASSUME NEW d \in Dispatcher, NEW m \in Event, ReserveNextOutbox(d, m) PROVE TypeOK'
  BY <1>18 DEF ReserveNextOutbox, DGoto
<1>19. ASSUME NEW d \in Dispatcher, DispatchAllowed(d) PROVE TypeOK'
  BY <1>19 DEF DispatchAllowed, DGoto
<1>20. ASSUME NEW d \in Dispatcher, DispatchRefused(d) PROVE TypeOK'
  <2>1. dat[d] \in Event
    BY <1>20 DEF DispatchRefused
  <2>2. CASE outState[dat[d]] # "reserved"
    <3>1. UNCHANGED <<outState, due>>
      BY <1>20, <2>2, Zenon DEF DispatchRefused
    <3> QED
      BY <1>20, <3>1 DEF DispatchRefused, DDone, DGoto
  <2>3. CASE outState[dat[d]] = "reserved" /\ Policy(dat[d]) \in Transient
    <3>1. due' \in [Event -> BOOLEAN]
      BY <1>20, <2>3, Zenon DEF DispatchRefused
    <3> QED
      BY <1>20, <2>1, <2>3, <3>1 DEF DispatchRefused, DDone, DGoto
  <2>4. CASE outState[dat[d]] = "reserved" /\ Policy(dat[d]) \notin Transient
    BY <1>20, <2>1, <2>4 DEF DispatchRefused, DDone, DGoto
  <2> QED
    BY <2>2, <2>3, <2>4
<1>21. ASSUME NEW d \in Dispatcher, MarkDispatching(d) PROVE TypeOK'
  <2>1. dat[d] \in Event
    BY <1>21 DEF MarkDispatching
  <2>2. CASE outState[dat[d]] = "reserved"
    BY <1>21, <2>1, <2>2 DEF MarkDispatching, DGoto
  <2>3. CASE outState[dat[d]] # "reserved"
    BY <1>21, <2>3 DEF MarkDispatching, DDone, DGoto
  <2> QED
    BY <2>2, <2>3
<1>22. ASSUME NEW d \in Dispatcher, Send(d) PROVE TypeOK'
  BY <1>22 DEF Send, DGoto
<1>23. ASSUME NEW d \in Dispatcher, NEW receipt \in {"acknowledged", "unknown", "dead"},
              ApplyReceipt(d, receipt)
       PROVE TypeOK'
  BY <1>23 DEF ApplyReceipt, DDone, DGoto
<1>24. ASSUME NEW m \in Event, WechatShows(m) PROVE TypeOK'
  BY <1>24 DEF WechatShows
<1>25. ASSUME NEW m \in Event, RetryDue(m) PROVE TypeOK'
  BY <1>25 DEF RetryDue
<1>26. ASSUME NEW m \in Event, WindowPasses(m) PROVE TypeOK'
  BY <1>26 DEF WindowPasses
<1>32. CASE QuietHoursTurn
  BY <1>32 DEF QuietHoursTurn
<1>27. CASE Pause
  BY <1>27 DEF Pause
<1>28. CASE Resume
  BY <1>28 DEF Resume
<1>29. ASSUME NEW m \in Event, NEW outcome \in {"acknowledged", "dead"},
              ReconcileUnknown(m, outcome)
       PROVE TypeOK'
  BY <1>29 DEF ReconcileUnknown
<1>30. CASE Stop
  <2>1. /\ pc' \in [Processor -> ProcessorStep] /\ at' \in [Processor -> Event \cup {None}]
        /\ turn' \in [Processor -> Nat]
    BY <1>30 DEF Stop
  <2>2. /\ dpc' \in [Dispatcher -> DispatcherStep]
        /\ dat' \in [Dispatcher -> Event \cup {None}]
    BY <1>30 DEF Stop
  <2>3. /\ stops' \in Nat
        /\ consumer' \in Event \cup {None} /\ lock' \in Processor \cup {None}
    BY <1>30 DEF Stop
  <2>5. up' \in BOOLEAN
    BY <1>30, Zenon DEF Stop
  <2>4. UNCHANGED <<inState, attempts, started, inId, outState, due, fresh, outId, drafts,
                    paused, quiet, allowed, pauses, mode, wire, remote, sends, spent, seen>>
    BY <1>30 DEF Stop
  <2> QED
    BY <2>1, <2>2, <2>3, <2>4, <2>5
<1>31. CASE Startup
  BY <1>31 DEF Startup, Start, RecoveredInbox, RecoveredOutbox
<1> HIDE DEF TypeOK
<1> QED
  BY <1>1, <1>2, <1>3, <1>4, <1>5, <1>6, <1>7, <1>8, <1>9, <1>10, <1>11, <1>12, <1>13,
     <1>14, <1>15, <1>16, <1>17, <1>18, <1>19, <1>20, <1>21, <1>22, <1>23, <1>24, <1>25,
     <1>26, <1>27, <1>28, <1>29, <1>30, <1>31, <1>32, NextCases, Zenon

---------------------------------------------------------------------------
(* Who touches what: the dispatcher, WeChat, the clock and the operator     *)
(* leave the inbox and the processors alone, and only create_outbox joins   *)
(* the two sides.                                                          *)

LEMMA InboxFrame ==
  ASSUME \/ \E d \in Dispatcher : Dispatch(d)
         \/ Wechat \/ Clock \/ Operator \/ UNCHANGED vars
  PROVE  UNCHANGED <<inState, attempts, started, inId, drafts, up, stops, consumer, pc, at,
                         spent, seen>>
<1> USE DEF inbox, store, process, procVars, history
<1>1. ASSUME NEW d \in Dispatcher, Dispatch(d)
      PROVE UNCHANGED <<inState, attempts, started, inId, drafts, up, stops, consumer, pc, at,
                         spent, seen>>
  BY <1>1 DEF Dispatch, WakeDispatcher, NothingToDispatch, ReserveNextOutbox,
    DispatchAllowed, DispatchRefused, MarkDispatching, Send, ApplyReceipt
<1>2. CASE Wechat
  BY <1>2 DEF Wechat, WechatShows
<1>3. CASE Clock
  BY <1>3 DEF Clock, QuietHoursTurn, RetryDue, WindowPasses
<1>4. CASE Operator
  BY <1>4 DEF Operator, Pause, Resume, ReconcileUnknown
<1>5. CASE UNCHANGED vars
  BY <1>5 DEF vars
<1> QED
  BY <1>1, <1>2, <1>3, <1>4, <1>5

LEMMA OutboxFrame ==
  ASSUME \/ \E p \in Processor : Process(p) /\ ~CreateOutbox(p)
         \/ Consume \/ UNCHANGED vars
  PROVE  UNCHANGED <<outState, up, dpc, dat, wire, remote, sends>>
<1> USE DEF outbox, store, process, dispVars, wireVars
<1>1. ASSUME NEW p \in Processor, Process(p), ~CreateOutbox(p)
      PROVE UNCHANGED <<outState, up, dpc, dat, wire, remote, sends>>
  BY <1>1 DEF Process, ClaimNextInbox, SkipEvent, Preflight, MarkInboxModelStarted,
    Generate, ModelResponds, CreateDraft, CommitAllowed, CommitRefused, FinishEvent,
    FailInbox
<1>2. CASE Consume
  BY <1>2 DEF Consume, Receive, RecordInbound
<1>3. CASE UNCHANGED vars
  BY <1>3 DEF vars
<1> QED
  BY <1>1, <1>2, <1>3

\* Rows in the hands of a processor.
LEMMA ProcessorOwnsStep ==
  TypeOK /\ ProcessorOwns /\ StoppedIsIdle /\ [Next]_vars => ProcessorOwns'
<1> SUFFICES ASSUME TypeOK, ProcessorOwns, StoppedIsIdle, [Next]_vars
             PROVE  ProcessorOwns'
  OBVIOUS
<1> USE NoneAssumption DEF TypeOK, ProcessorOwns, inbox, store, procVars, Goto, Done
<1>1. CASE \/ \E d \in Dispatcher : Dispatch(d)
           \/ Wechat \/ Clock \/ Operator \/ UNCHANGED vars
  BY <1>1, InboxFrame
<1>2. CASE Consume
  <2>1. ASSUME NEW e \in Event, Receive(e) PROVE ProcessorOwns'
    BY <2>1 DEF Receive
  <2>2. CASE RecordInbound
    BY <2>2 DEF RecordInbound
  <2> QED
    BY <1>2, <2>1, <2>2 DEF Consume
<1>3. ASSUME NEW p \in Processor, Process(p) PROVE ProcessorOwns'
  <2>1. ASSUME NEW e \in Event, ClaimNextInbox(p, e) PROVE ProcessorOwns'
    BY <2>1 DEF ClaimNextInbox, Claimable
  <2>2. CASE SkipEvent(p) \/ CommitRefused(p) \/ FinishEvent(p)
    BY <2>2 DEF SkipEvent, CommitRefused, FinishEvent, CompleteInbox
  <2>3. CASE \/ Preflight(p) \/ MarkInboxModelStarted(p) \/ Generate(p)
             \/ \E step \in {"replied", "context"} : ModelResponds(p, step)
             \/ CreateDraft(p) \/ CommitAllowed(p) \/ CreateOutbox(p)
    BY <2>3 DEF Preflight, MarkInboxModelStarted, Generate, ModelResponds, CreateDraft,
      CommitAllowed, CreateOutbox
  <2>4. ASSUME NEW permanent \in BOOLEAN, FailInbox(p, permanent) PROVE ProcessorOwns'
    BY <2>4 DEF FailInbox
  <2> QED
    BY <1>3, <2>1, <2>2, <2>3, <2>4, Zenon DEF Process
<1>4. CASE Stop
  BY <1>4 DEF Stop
<1>5. CASE Startup
  BY <1>5 DEF Startup, Start, StoppedIsIdle
<1> HIDE DEF ProcessorOwns
<1> QED
  BY <1>1, <1>2, <1>3, <1>4, <1>5, Zenon DEF Next

\* Rows in the hands of a dispatcher.
LEMMA DispatcherOwnsStep ==
  TypeOK /\ Ownership /\ StoppedIsIdle /\ [Next]_vars => DispatcherOwns'
<1> SUFFICES ASSUME TypeOK, Ownership, StoppedIsIdle, [Next]_vars
             PROVE  DispatcherOwns'
  OBVIOUS
<1> USE NoneAssumption, HeldRow
    DEF TypeOK, DispatcherStep, DispatcherOwns, Ownership, outbox, store, dispVars,
        DGoto, DDone
<1>1. CASE \/ \E p \in Processor : Process(p) /\ ~CreateOutbox(p)
           \/ Consume \/ UNCHANGED vars
  BY <1>1, OutboxFrame
<1>2. ASSUME NEW p \in Processor, CreateOutbox(p) PROVE DispatcherOwns'
  BY <1>2 DEF CreateOutbox
<1>3. ASSUME NEW d \in Dispatcher, Dispatch(d) PROVE DispatcherOwns'
  <2>1. CASE WakeDispatcher(d) \/ NothingToDispatch(d)
    BY <2>1 DEF WakeDispatcher, NothingToDispatch
  <2>2. ASSUME NEW m \in Event, ReserveNextOutbox(d, m) PROVE DispatcherOwns'
    BY <2>2 DEF ReserveNextOutbox, Dispatchable
  <2>3. CASE DispatchAllowed(d) \/ Send(d)
    BY <2>3 DEF DispatchAllowed, Send
  <2>4. CASE DispatchRefused(d)
    BY <2>4 DEF DispatchRefused
  <2>5. CASE MarkDispatching(d)
    BY <2>5 DEF MarkDispatching
  <2>6. ASSUME NEW receipt \in {"acknowledged", "unknown", "dead"}, ApplyReceipt(d, receipt)
        PROVE DispatcherOwns'
    BY <2>6 DEF ApplyReceipt
  <2> QED
    BY <1>3, <2>1, <2>2, <2>3, <2>4, <2>5, <2>6, Zenon DEF Dispatch
<1>4. CASE Wechat \/ Clock
  BY <1>4 DEF Wechat, WechatShows, Clock, QuietHoursTurn, RetryDue, WindowPasses
<1>5. CASE Operator
  BY <1>5 DEF Operator, Pause, Resume, ReconcileUnknown
<1>6. CASE Stop
  BY <1>6 DEF Stop
<1>7. CASE Startup
  BY <1>7 DEF Startup, Start, StoppedIsIdle
<1> HIDE DEF DispatcherOwns
<1> QED
  BY <1>1, <1>2, <1>3, <1>4, <1>5, <1>6, <1>7, Zenon DEF Next

\* Only a running process moves its workers.
LEMMA StoppedIsIdleStep ==
  TypeOK /\ StoppedIsIdle /\ [Next]_vars => StoppedIsIdle'
<1> SUFFICES ASSUME TypeOK, StoppedIsIdle, [Next]_vars PROVE StoppedIsIdle'
  OBVIOUS
<1> USE DEF TypeOK, StoppedIsIdle, process, procVars, dispVars, Goto, Done, DGoto, DDone
<1>1. CASE Consume
  BY <1>1 DEF Consume, Receive, RecordInbound
<1>2. ASSUME NEW p \in Processor, Process(p) PROVE StoppedIsIdle'
  BY <1>2 DEF Process, ClaimNextInbox, SkipEvent, Preflight, MarkInboxModelStarted,
    Generate, ModelResponds, CreateDraft, CommitAllowed, CommitRefused, CreateOutbox,
    FinishEvent, FailInbox
<1>3. ASSUME NEW d \in Dispatcher, Dispatch(d) PROVE StoppedIsIdle'
  BY <1>3 DEF Dispatch, WakeDispatcher, NothingToDispatch, ReserveNextOutbox,
    DispatchAllowed, DispatchRefused, MarkDispatching, Send, ApplyReceipt
<1>4. CASE Wechat \/ Clock \/ Operator
  BY <1>4 DEF Wechat, WechatShows, Clock, QuietHoursTurn, RetryDue, WindowPasses, Operator, Pause, Resume,
    ReconcileUnknown
<1>5. CASE Stop
  BY <1>5 DEF Stop
<1>6. CASE Startup
  BY <1>6 DEF Startup, Start
<1>7. CASE UNCHANGED vars
  BY <1>7 DEF vars
<1> QED
  BY <1>1, <1>2, <1>3, <1>4, <1>5, <1>6, <1>7 DEF Next

\* The one request of a message is issued after its row left the queue.
LEMMA SendsStep ==
  /\ TypeOK /\ Ownership /\ StoppedIsIdle /\ UnsentBeforeDispatch /\ SendOnce
  /\ [Next]_vars
  => UnsentBeforeDispatch' /\ SendOnce'
<1> SUFFICES ASSUME TypeOK, Ownership, StoppedIsIdle, UnsentBeforeDispatch, SendOnce,
                    [Next]_vars
             PROVE  UnsentBeforeDispatch' /\ SendOnce'
  OBVIOUS
<1> USE NoneAssumption, HeldRow
    DEF TypeOK, OutboxState, DispatcherStep, DispatcherOwns, Ownership,
        UnsentBeforeDispatch, SendOnce, outbox, store, dispVars, wireVars, DGoto, DDone
<1>1. CASE \/ \E p \in Processor : Process(p) /\ ~CreateOutbox(p)
           \/ Consume \/ UNCHANGED vars
  BY <1>1, OutboxFrame
<1>2. ASSUME NEW p \in Processor, CreateOutbox(p) PROVE UnsentBeforeDispatch' /\ SendOnce'
  BY <1>2 DEF CreateOutbox
<1>3. ASSUME NEW d \in Dispatcher, Dispatch(d) PROVE UnsentBeforeDispatch' /\ SendOnce'
  <2>1. CASE WakeDispatcher(d) \/ NothingToDispatch(d) \/ DispatchAllowed(d)
    BY <2>1 DEF WakeDispatcher, NothingToDispatch, DispatchAllowed
  <2>2. ASSUME NEW m \in Event, ReserveNextOutbox(d, m)
        PROVE UnsentBeforeDispatch' /\ SendOnce'
    BY <2>2 DEF ReserveNextOutbox, Dispatchable
  <2>3. CASE DispatchRefused(d)
    BY <2>3 DEF DispatchRefused
  <2>4. CASE MarkDispatching(d)
    BY <2>4 DEF MarkDispatching
  <2>5. CASE Send(d)
    BY <2>5 DEF Send
  <2>6. ASSUME NEW receipt \in {"acknowledged", "unknown", "dead"}, ApplyReceipt(d, receipt)
        PROVE UnsentBeforeDispatch' /\ SendOnce'
    BY <2>6 DEF ApplyReceipt
  <2> QED
    BY <1>3, <2>1, <2>2, <2>3, <2>4, <2>5, <2>6 DEF Dispatch
<1>4. CASE Wechat \/ Clock
  BY <1>4 DEF Wechat, WechatShows, Clock, QuietHoursTurn, RetryDue, WindowPasses
<1>5. CASE Operator
  BY <1>5 DEF Operator, Pause, Resume, ReconcileUnknown
<1>6. CASE Stop
  BY <1>6 DEF Stop
<1>7. CASE Startup
  BY <1>7 DEF Startup, Start, StoppedIsIdle, RecoveredOutbox
<1> QED
  BY <1>1, <1>2, <1>3, <1>4, <1>5, <1>6, <1>7 DEF Next

\* Only create_outbox makes a row.
LEMMA OutboxKeepsRows ==
  ASSUME TypeOK, Ownership,
         \/ \E d \in Dispatcher : Dispatch(d)
         \/ Wechat \/ Clock \/ Operator \/ UNCHANGED vars
  PROVE  \A e \in Event : outState'[e] = "absent" <=> outState[e] = "absent"
<1> USE NoneAssumption, HeldRow
    DEF TypeOK, Ownership, DispatcherOwns, outbox, store, DDone, DGoto
<1>1. ASSUME NEW d \in Dispatcher, Dispatch(d)
      PROVE  \A e \in Event : outState'[e] = "absent" <=> outState[e] = "absent"
  <2>1. CASE WakeDispatcher(d) \/ NothingToDispatch(d) \/ DispatchAllowed(d) \/ Send(d)
    BY <2>1 DEF WakeDispatcher, NothingToDispatch, DispatchAllowed, Send
  <2>2. ASSUME NEW m \in Event, ReserveNextOutbox(d, m)
        PROVE  \A e \in Event : outState'[e] = "absent" <=> outState[e] = "absent"
    BY <2>2 DEF ReserveNextOutbox, Dispatchable
  <2>3. CASE DispatchRefused(d)
    BY <2>3 DEF DispatchRefused
  <2>4. CASE MarkDispatching(d)
    BY <2>4 DEF MarkDispatching
  <2>5. ASSUME NEW receipt \in {"acknowledged", "unknown", "dead"}, ApplyReceipt(d, receipt)
        PROVE  \A e \in Event : outState'[e] = "absent" <=> outState[e] = "absent"
    BY <2>5 DEF ApplyReceipt
  <2> QED
    BY <1>1, <2>1, <2>2, <2>3, <2>4, <2>5 DEF Dispatch
<1>2. CASE Wechat \/ Clock \/ UNCHANGED vars
  BY <1>2 DEF Wechat, WechatShows, Clock, QuietHoursTurn, RetryDue, WindowPasses, vars
<1>3. CASE Operator
  BY <1>3 DEF Operator, Pause, Resume, ReconcileUnknown
<1> QED
  BY <1>1, <1>2, <1>3

\* The three actions that close the claimed row change it alone.
CompletesRow(p) ==
  /\ inState' = [inState EXCEPT ![at[p]] = "completed"]
  /\ pc' = [pc EXCEPT ![p] = "idle"]
  /\ at' = [at EXCEPT ![p] = None]
  /\ at[p] \in Event
  /\ UNCHANGED <<attempts, started, inId, spent, seen>>

LEMMA CompletesRowCases ==
  ASSUME TypeOK, Ownership, NEW p \in Processor,
         SkipEvent(p) \/ CommitRefused(p) \/ FinishEvent(p)
  PROVE  CompletesRow(p)
<1>1. pc[p] # "idle"
  BY DEF SkipEvent, CommitRefused, FinishEvent
<1>2. at[p] \in Event /\ inState[at[p]] = "processing"
  BY <1>1, HeldRow, NoneAssumption DEF Ownership, ProcessorOwns
<1> QED
  BY <1>2 DEF CompletesRow, SkipEvent, CommitRefused, FinishEvent, CompleteInbox, Done, Goto,
    history

\* The provider is only called behind the durable mark of the current claim.
LEMMA SpentStep ==
  TypeOK /\ Ownership /\ SpentIsMarked /\ [Next]_vars => SpentIsMarked'
<1> SUFFICES ASSUME TypeOK, Ownership, SpentIsMarked, [Next]_vars PROVE SpentIsMarked'
  OBVIOUS
<1> USE NoneAssumption, HeldRow
    DEF TypeOK, InboxState, ProcessorOwns, Ownership, SpentIsMarked, inbox, store,
        procVars, history, Goto, Done
<1>1. CASE \/ \E d \in Dispatcher : Dispatch(d)
           \/ Wechat \/ Clock \/ Operator \/ UNCHANGED vars
  BY <1>1, InboxFrame
<1>2. CASE Consume
  <2>1. ASSUME NEW e \in Event, Receive(e) PROVE SpentIsMarked'
    BY <2>1 DEF Receive
  <2>2. CASE RecordInbound
    <3>1. CASE inState[consumer] # "absent"
      BY <2>2, <3>1 DEF RecordInbound
    <3>2. CASE inState[consumer] = "absent"
      <4>1. /\ consumer \in Event /\ spent' = spent /\ UNCHANGED <<pc, at>>
            /\ started' = [started EXCEPT ![consumer] = FALSE]
            /\ inState' = [inState EXCEPT ![consumer] = "pending"]
            /\ attempts' = [attempts EXCEPT ![consumer] = 0]
        BY <2>2, <3>2 DEF RecordInbound
      <4> QED
        BY <3>2, <4>1
    <3> QED
      BY <3>1, <3>2
  <2> QED
    BY <1>2, <2>1, <2>2 DEF Consume
<1>3. ASSUME NEW p \in Processor, Process(p) PROVE SpentIsMarked'
  <2>1. ASSUME NEW e \in Event, ClaimNextInbox(p, e) PROVE SpentIsMarked'
    BY <2>1 DEF ClaimNextInbox, Claimable
  <2>2. CASE SkipEvent(p) \/ CommitRefused(p) \/ FinishEvent(p)
    <3>1. CompletesRow(p)
      BY <2>2, CompletesRowCases
    <3> QED
      BY <3>1 DEF CompletesRow
  <2>3. CASE \/ Preflight(p)
             \/ \E step \in {"replied", "context"} : ModelResponds(p, step)
             \/ CreateDraft(p) \/ CommitAllowed(p) \/ CreateOutbox(p)
    BY <2>3 DEF Preflight, ModelResponds, CreateDraft, CommitAllowed, CreateOutbox
  <2>4. CASE MarkInboxModelStarted(p)
    <3>1. at[p] \in Event /\ inState[at[p]] = "processing"
      BY <2>4 DEF MarkInboxModelStarted
    <3>2. /\ started' = [started EXCEPT ![at[p]] = TRUE]
          /\ pc' = [pc EXCEPT ![p] = "marked"]
          /\ UNCHANGED <<inState, attempts, spent, at>>
      BY <2>4 DEF MarkInboxModelStarted
    <3>3. /\ started'[at[p]]
          /\ \A e \in Event \ {at[p]} : started'[e] = started[e]
      BY <3>1, <3>2
    <3>4. ASSUME NEW q \in Processor, pc'[q] = "marked" PROVE started'[at'[q]]
      <4>1. at[q] \in Event
        BY <3>2, <3>4, <2>4 DEF MarkInboxModelStarted
      <4>2. q = p \/ pc[q] = "marked"
        BY <3>2, <3>4
      <4> QED
        BY <3>1, <3>2, <3>3, <4>1, <4>2
    <3> QED
      BY <3>1, <3>2, <3>3, <3>4
  <2>5. CASE Generate(p)
    BY <2>5 DEF Generate
  <2>6. ASSUME NEW permanent \in BOOLEAN, FailInbox(p, permanent) PROVE SpentIsMarked'
    BY <2>6 DEF FailInbox
  <2> QED
    BY <1>3, <2>1, <2>2, <2>3, <2>4, <2>5, <2>6 DEF Process
<1>4. CASE Stop
  BY <1>4 DEF Stop
<1>5. CASE Startup
  BY <1>5 DEF Startup, Start, RecoveredInbox
<1> QED
  BY <1>1, <1>2, <1>3, <1>4, <1>5 DEF Next

\* A claim passes over no earlier event of its chat, and settled rows stay so.
LEMMA FifoStep ==
  /\ TypeOK /\ Ownership /\ SeenIsRecorded /\ FifoPerChat /\ [Next]_vars
  => SeenIsRecorded' /\ FifoPerChat'
<1> SUFFICES ASSUME TypeOK, Ownership, SeenIsRecorded, FifoPerChat, [Next]_vars
             PROVE  SeenIsRecorded' /\ FifoPerChat'
  OBVIOUS
<1> USE NoneAssumption, HeldRow
    DEF TypeOK, InboxState, ProcessorOwns, Ownership, SeenIsRecorded, FifoPerChat,
        Recorded, Earlier, inbox, store, procVars, history, Goto, Done
<1>1. CASE \/ \E d \in Dispatcher : Dispatch(d)
           \/ Wechat \/ Clock \/ Operator \/ UNCHANGED vars
  BY <1>1, InboxFrame
<1>2. CASE Consume
  <2>1. ASSUME NEW e \in Event, Receive(e) PROVE SeenIsRecorded' /\ FifoPerChat'
    BY <2>1 DEF Receive
  <2>2. CASE RecordInbound
    <3>1. CASE inState[consumer] # "absent"
      BY <2>2, <3>1 DEF RecordInbound
    <3>2. CASE inState[consumer] = "absent"
      <4>1. /\ consumer \in Event
            /\ inState' = [inState EXCEPT ![consumer] = "pending"]
            /\ inId' = [inId EXCEPT ![consumer] = 1 + Cardinality(Recorded)]
            /\ UNCHANGED seen
        BY <2>2, <3>2 DEF RecordInbound
      <4>2. \A f \in Event : consumer \notin seen[f]
        BY <3>2
      <4>3. seen[consumer] = {}
        BY <3>2, <4>1
      <4>4. SeenIsRecorded'
        BY <4>1
      <4>5. ASSUME NEW e \in Event, NEW f \in Event, e \in seen[f],
                   ChatOf[e] = ChatOf[f], Earlier(e, f)'
            PROVE  inState'[e] \in {"completed", "dead"}
        <5>1. e # consumer /\ f # consumer
          BY <4>2, <4>3, <4>5
        <5>2. Earlier(e, f)
          BY <5>1, <4>1, <4>5
        <5>3. inState[e] \in {"completed", "dead"}
          BY <5>2, <4>5
        <5> QED
          BY <5>1, <5>3, <4>1
      <4> QED
        BY <4>1, <4>4, <4>5
    <3> QED
      BY <3>1, <3>2
  <2> QED
    BY <1>2, <2>1, <2>2 DEF Consume
<1>3. ASSUME NEW p \in Processor, Process(p) PROVE SeenIsRecorded' /\ FifoPerChat'
  <2>1. ASSUME NEW e \in Event, ClaimNextInbox(p, e) PROVE SeenIsRecorded' /\ FifoPerChat'
    <3>1. /\ inState[e] = "pending"
          /\ inState' = [inState EXCEPT ![e] = "processing"]
          /\ seen' = [seen EXCEPT ![e] = Recorded]
          /\ UNCHANGED inId
      BY <2>1 DEF ClaimNextInbox, Claimable
    <3>2. SeenIsRecorded'
      BY <3>1
    <3>3. ASSUME NEW f \in Event, NEW g \in Event, f \in seen'[g],
                 ChatOf[f] = ChatOf[g], Earlier(f, g)
          PROVE  inState'[f] \in {"completed", "dead"}
      <4>1. CASE g = e
        <5>1. f # e
          BY <3>3, <4>1, ShapeAssumption
        <5>2. inState[f] \notin {"pending", "processing"}
          BY <2>1, <3>3, <4>1 DEF ClaimNextInbox, Claimable, Blocked
        <5>3. inState[f] # "absent"
          BY <3>1, <3>3, <4>1
        <5> QED
          BY <3>1, <5>1, <5>2, <5>3
      <4>2. CASE g # e
        <5>1. f \in seen[g]
          BY <3>1, <3>3, <4>2
        <5> QED
          BY <3>1, <3>3, <5>1
      <4> QED
        BY <4>1, <4>2
    <3> QED
      BY <3>1, <3>2, <3>3
  <2>2. CASE SkipEvent(p) \/ CommitRefused(p) \/ FinishEvent(p)
    <3>1. CompletesRow(p)
      BY <2>2, CompletesRowCases
    <3>2. SeenIsRecorded'
      BY <3>1 DEF CompletesRow
    <3>3. FifoPerChat'
      BY <3>1 DEF CompletesRow
    <3> QED
      BY <3>2, <3>3
  <2>3. CASE \/ Preflight(p) \/ MarkInboxModelStarted(p) \/ Generate(p)
             \/ \E step \in {"replied", "context"} : ModelResponds(p, step)
             \/ CreateDraft(p) \/ CommitAllowed(p) \/ CreateOutbox(p)
    BY <2>3 DEF Preflight, MarkInboxModelStarted, Generate, ModelResponds, CreateDraft,
      CommitAllowed, CreateOutbox
  <2>4. ASSUME NEW permanent \in BOOLEAN, FailInbox(p, permanent)
        PROVE SeenIsRecorded' /\ FifoPerChat'
    BY <2>4 DEF FailInbox
  <2> QED
    BY <1>3, <2>1, <2>2, <2>3, <2>4, SMTT(30) DEF Process
<1>4. CASE Stop
  BY <1>4 DEF Stop
<1>5. CASE Startup
  BY <1>5 DEF Startup, Start, RecoveredInbox
<1> QED
  BY <1>1, <1>2, <1>3, <1>4, <1>5 DEF Next

\* A claim uses up what a failure or a stop may give back.
LEMMA BudgetStep ==
  TypeOK /\ Ownership /\ ClaimLeft /\ RetryBudget /\ [Next]_vars => ClaimLeft' /\ RetryBudget'
<1> DEFINE Limit(e) == IF e \in Conversation THEN 1 ELSE MaxAttempts
<1> SUFFICES ASSUME TypeOK, Ownership, ClaimLeft, RetryBudget, [Next]_vars
             PROVE  ClaimLeft' /\ RetryBudget'
  OBVIOUS
<1>0. \A e \in Event : Limit(e) \in Nat \ {0} /\ attempts[e] \in Nat /\ stops \in Nat
  BY NumberAssumption DEF TypeOK
<1>6. \A e \in Event : 0 < stops + Limit(e)
  BY <1>0
<1> USE <1>0, NoneAssumption, HeldRow
    DEF TypeOK, InboxState, ProcessorOwns, Ownership, ClaimLeft, RetryBudget, inbox, store,
        process, procVars, Goto, Done
<1>1. CASE \/ \E d \in Dispatcher : Dispatch(d)
           \/ Wechat \/ Clock \/ Operator \/ UNCHANGED vars
  BY <1>1, InboxFrame
<1>2. CASE Consume
  <2>1. ASSUME NEW e \in Event, Receive(e) PROVE ClaimLeft' /\ RetryBudget'
    BY <2>1 DEF Receive
  <2>2. CASE RecordInbound
    <3>1. CASE inState[consumer] # "absent"
      BY <2>2, <3>1 DEF RecordInbound
    <3>2. CASE inState[consumer] = "absent"
      <4>1. /\ consumer \in Event
            /\ inState' = [inState EXCEPT ![consumer] = "pending"]
            /\ attempts' = [attempts EXCEPT ![consumer] = 0]
            /\ UNCHANGED <<up, stops>>
        BY <2>2, <3>2 DEF RecordInbound
      <4>4. ClaimLeft'
        <5> SUFFICES ASSUME NEW e \in Event,
                            inState'[e] = "pending" \/ (inState'[e] = "processing" /\ ~up')
                     PROVE  attempts'[e] < stops + Limit(e)
          BY <4>1
        <5>1. CASE e = consumer
          BY <4>1, <1>6, <5>1
        <5>2. CASE e # consumer
          BY <4>1, <5>2
        <5> QED
          BY <5>1, <5>2
      <4>3. RetryBudget'
        BY <4>1
      <4> QED
        BY <4>3, <4>4
    <3> QED
      BY <3>1, <3>2
  <2> QED
    BY <1>2, <2>1, <2>2 DEF Consume
<1>3. ASSUME NEW p \in Processor, Process(p) PROVE ClaimLeft' /\ RetryBudget'
  <2>1. ASSUME NEW e \in Event, ClaimNextInbox(p, e) PROVE ClaimLeft' /\ RetryBudget'
    BY <2>1 DEF ClaimNextInbox, Claimable
  <2>2. CASE SkipEvent(p) \/ CommitRefused(p) \/ FinishEvent(p)
    <3>1. CompletesRow(p) /\ UNCHANGED <<up, stops>>
      BY <2>2, CompletesRowCases DEF SkipEvent, CommitRefused, FinishEvent
    <3> QED
      BY <3>1 DEF CompletesRow
  <2>3. CASE \/ Preflight(p) \/ MarkInboxModelStarted(p) \/ Generate(p)
             \/ \E step \in {"replied", "context"} : ModelResponds(p, step)
             \/ CreateDraft(p) \/ CommitAllowed(p) \/ CreateOutbox(p)
    BY <2>3 DEF Preflight, MarkInboxModelStarted, Generate, ModelResponds, CreateDraft,
      CommitAllowed, CreateOutbox
  <2>4. ASSUME NEW permanent \in BOOLEAN, FailInbox(p, permanent)
        PROVE ClaimLeft' /\ RetryBudget'
    BY <2>4 DEF FailInbox
  <2> QED
    BY <1>3, <2>1, <2>2, <2>3, <2>4 DEF Process
<1>4. CASE Stop
  BY <1>4 DEF Stop
<1>5. CASE Startup
  BY <1>5 DEF Startup, Start, RecoveredInbox
<1> QED
  BY <1>1, <1>2, <1>3, <1>4, <1>5 DEF Next

\* A model answer is created once, by the claim that carries the mark.
LEMMA AnswerStep ==
  /\ TypeOK /\ Ownership /\ SpentIsMarked /\ StoppedIsIdle /\ AnswerIsMarked /\ DraftOrReply
  /\ [Next]_vars
  => AnswerIsMarked' /\ DraftOrReply'
<1> SUFFICES ASSUME TypeOK, Ownership, SpentIsMarked, StoppedIsIdle, AnswerIsMarked,
                    DraftOrReply, [Next]_vars
             PROVE  AnswerIsMarked' /\ DraftOrReply'
  OBVIOUS
<1> USE NoneAssumption, ShapeAssumption, HeldRow
    DEF TypeOK, ProcessorOwns, Ownership, AnswerIsMarked, DraftOrReply, inbox, outbox, store,
        procVars, Goto, Done
<1>1. CASE \/ \E d \in Dispatcher : Dispatch(d)
           \/ Wechat \/ Clock \/ Operator \/ UNCHANGED vars
  <2>1. \A e \in Event : outState'[e] = "absent" <=> outState[e] = "absent"
    BY <1>1, OutboxKeepsRows
  <2> QED
    BY <1>1, <2>1, InboxFrame
<1>2. CASE Consume
  <2>1. ASSUME NEW e \in Event, Receive(e) PROVE AnswerIsMarked' /\ DraftOrReply'
    BY <2>1 DEF Receive
  <2>2. CASE RecordInbound
    <3>1. CASE inState[consumer] # "absent"
      BY <2>2, <3>1 DEF RecordInbound
    <3>2. CASE inState[consumer] = "absent"
      <4>1. \A e \in Event : started[e] => started'[e]
        <5>1. /\ consumer \in Event /\ ~started[consumer]
              /\ started' = [started EXCEPT ![consumer] = FALSE]
          BY <2>2, <3>2 DEF RecordInbound, SpentIsMarked
        <5> QED
          BY <5>1
      <4>2. UNCHANGED <<outState, drafts, pc, at>>
        BY <2>2 DEF RecordInbound
      <4> QED
        BY <4>1, <4>2
    <3> QED
      BY <3>1, <3>2
  <2> QED
    BY <1>2, <2>1, <2>2 DEF Consume
<1>3. ASSUME NEW p \in Processor, Process(p) PROVE AnswerIsMarked' /\ DraftOrReply'
  <2>1. ASSUME NEW e \in Event, ClaimNextInbox(p, e) PROVE AnswerIsMarked' /\ DraftOrReply'
    BY <2>1, SMTT(30) DEF ClaimNextInbox, Claimable, SpentIsMarked
  <2>2. CASE SkipEvent(p) \/ CommitRefused(p) \/ FinishEvent(p)
    <3>1. CompletesRow(p) /\ UNCHANGED <<outState, drafts>>
      BY <2>2, CompletesRowCases DEF SkipEvent, CommitRefused, FinishEvent
    <3> QED
      BY <3>1 DEF CompletesRow
  <2>3. CASE Preflight(p)
    BY <2>3 DEF Preflight
  <2>4. CASE MarkInboxModelStarted(p)
    <3>1. /\ at[p] \in Event
          /\ pc[p] = "context"
          /\ started' = [started EXCEPT ![at[p]] = TRUE]
          /\ pc' = [pc EXCEPT ![p] = "marked"]
          /\ UNCHANGED <<outState, drafts, at>>
      BY <2>4 DEF MarkInboxModelStarted
    <3>2. \A e \in Event : started[e] => started'[e]
      BY <3>1
    <3> QED
      BY <3>1, <3>2
  <2>5. CASE Generate(p)
    BY <2>5 DEF Generate, SpentIsMarked
  <2>6. ASSUME NEW step \in {"replied", "context"}, ModelResponds(p, step)
        PROVE AnswerIsMarked' /\ DraftOrReply'
    BY <2>6 DEF ModelResponds
  <2>7. CASE CreateDraft(p)
    BY <2>7 DEF CreateDraft
  <2>8. CASE CommitAllowed(p)
    BY <2>8 DEF CommitAllowed
  <2>9. CASE CreateOutbox(p)
    <3>1. CASE outState[at[p]] # "absent"
      BY <2>9, <3>1 DEF CreateOutbox
    <3>2. CASE outState[at[p]] = "absent"
      BY <2>9, <3>2 DEF CreateOutbox
    <3> QED
      BY <3>1, <3>2
  <2>10. ASSUME NEW permanent \in BOOLEAN, FailInbox(p, permanent)
         PROVE AnswerIsMarked' /\ DraftOrReply'
    BY <2>10 DEF FailInbox
  <2> QED
    BY <1>3, <2>1, <2>2, <2>3, <2>4, <2>5, <2>6, <2>7, <2>8, <2>9, <2>10 DEF Process
<1>4. CASE Stop
  BY <1>4 DEF Stop
<1>5. CASE Startup
  BY <1>5 DEF Startup, Start, RecoveredOutbox, StoppedIsIdle, OutboxState
<1> QED
  BY <1>1, <1>2, <1>3, <1>4, <1>5 DEF Next

\* WeChat shows only what was on the wire.
LEMMA ShownStep ==
  /\ TypeOK /\ Ownership /\ UnsentBeforeDispatch /\ SendOnce /\ ShownWasSent /\ [Next]_vars
  => ShownWasSent'
<1> SUFFICES ASSUME TypeOK, Ownership, UnsentBeforeDispatch, SendOnce, ShownWasSent,
                    [Next]_vars
             PROVE  ShownWasSent'
  OBVIOUS
<1> USE NoneAssumption, HeldRow DEF TypeOK, ShownWasSent, wireVars
<1>1. ASSUME NEW d \in Dispatcher, Dispatch(d) PROVE ShownWasSent'
  <2>1. CASE Send(d)
    BY <2>1 DEF Send, UnsentBeforeDispatch
  <2>2. CASE ~Send(d)
    BY <1>1, <2>2 DEF Dispatch, WakeDispatcher, NothingToDispatch, ReserveNextOutbox,
      DispatchAllowed, DispatchRefused, MarkDispatching, ApplyReceipt
  <2> QED
    BY <2>1, <2>2
<1>2. CASE Wechat
  BY <1>2 DEF Wechat, WechatShows, UnsentBeforeDispatch
<1>3. CASE \/ Consume \/ \E p \in Processor : Process(p) /\ ~CreateOutbox(p)
           \/ UNCHANGED vars
  BY <1>3, OutboxFrame
<1>4. ASSUME NEW p \in Processor, CreateOutbox(p) PROVE ShownWasSent'
  BY <1>4 DEF CreateOutbox
<1>5. CASE Clock \/ Operator \/ Stop \/ Startup
  BY <1>5 DEF Clock, QuietHoursTurn, RetryDue, WindowPasses, Operator, Pause, Resume,
    ReconcileUnknown, Stop, Startup, Start
<1> QED
  BY <1>1, <1>2, <1>3, <1>4, <1>5 DEF Next

---------------------------------------------------------------------------
(* The quotas.                                                             *)

\* A row is counted from its creation, and only create_outbox creates one: a
\* deferral, a receipt, a recovery or an operator adds nothing to the count.
LEMMA OnlyCreatingCounts ==
  ASSUME TypeOK, Ownership, [Next]_vars, \A p \in Processor : ~CreateOutbox(p)
  PROVE  Counted' \subseteq Counted
<1> USE NoneAssumption, HeldRow
    DEF TypeOK, Ownership, DispatcherOwns, Counted, outbox, store, DDone, DGoto
<1>1. ASSUME NEW p \in Processor, Process(p) PROVE Counted' \subseteq Counted
  BY <1>1 DEF Process, ClaimNextInbox, SkipEvent, Preflight, MarkInboxModelStarted,
    Generate, ModelResponds, CreateDraft, CommitAllowed, CommitRefused, FinishEvent,
    FailInbox
<1>2. CASE Consume
  BY <1>2 DEF Consume, Receive, RecordInbound
<1>3. ASSUME NEW d \in Dispatcher, Dispatch(d) PROVE Counted' \subseteq Counted
  <2>1. CASE WakeDispatcher(d) \/ NothingToDispatch(d) \/ DispatchAllowed(d) \/ Send(d)
    BY <2>1 DEF WakeDispatcher, NothingToDispatch, DispatchAllowed, Send
  <2>2. ASSUME NEW m \in Event, ReserveNextOutbox(d, m) PROVE Counted' \subseteq Counted
    BY <2>2 DEF ReserveNextOutbox, Dispatchable
  <2>3. CASE DispatchRefused(d)
    <3>1. /\ dat[d] \in Event /\ outState[dat[d]] = "reserved" /\ UNCHANGED fresh
          /\ \A m \in Event : m # dat[d] => outState'[m] = outState[m]
      BY <2>3 DEF DispatchRefused
    <3> QED
      BY <3>1
  <2>4. CASE MarkDispatching(d)
    BY <2>4 DEF MarkDispatching
  <2>5. ASSUME NEW receipt \in {"acknowledged", "unknown", "dead"}, ApplyReceipt(d, receipt)
        PROVE  Counted' \subseteq Counted
    BY <2>5 DEF ApplyReceipt
  <2> QED
    BY <1>3, <2>1, <2>2, <2>3, <2>4, <2>5, Zenon DEF Dispatch
<1>4. CASE Wechat
  BY <1>4 DEF Wechat, WechatShows
<1>5. CASE Clock
  BY <1>5 DEF Clock, QuietHoursTurn, RetryDue, WindowPasses
<1>6. CASE Operator
  BY <1>6 DEF Operator, Pause, Resume, ReconcileUnknown
<1>7. CASE Stop
  BY <1>7 DEF Stop
<1>8. CASE Startup
  BY <1>8 DEF Startup, Start, RecoveredOutbox
<1>9. CASE UNCHANGED vars
  BY <1>9 DEF vars
<1> HIDE DEF Counted
<1> QED
  BY <1>1, <1>2, <1>3, <1>4, <1>5, <1>6, <1>7, <1>8, <1>9, Zenon DEF Next

\* What is counted is a set of events.
LEMMA CountedIsFinite ==
  /\ IsFiniteSet(Counted) /\ Counted \subseteq Event
  /\ Cardinality(Counted) \in Nat
BY FiniteAssumption, FS_Subset, FS_CardinalityType DEF Counted

\* Who counts less has at least as much room: the quotas are monotone.
LEMMA RoomIsMonotone ==
  ASSUME NEW S \in SUBSET Event, NEW T \in SUBSET S
  PROVE  Cardinality(T) \in Nat /\ Cardinality(S) \in Nat /\ Cardinality(T) <= Cardinality(S)
<1>1. IsFiniteSet(S) /\ IsFiniteSet(T)
  BY FiniteAssumption, FS_Subset
<1> QED
  BY <1>1, FS_Subset, FS_CardinalityType

\* One more reply than a count that has not reached the quota is within it.
LEMMA OneMoreFits ==
  ASSUME NEW S \in SUBSET Event, NEW e \in Event, NEW T \in SUBSET (S \cup {e}),
         NEW quota \in Nat, ~(Cardinality(S \ {e}) >= quota)
  PROVE  Cardinality(T) <= quota
<1> DEFINE R == S \ {e}
<1>1. IsFiniteSet(R) /\ Cardinality(R) \in Nat
  BY FiniteAssumption, FS_Subset, FS_CardinalityType
<1>2. Cardinality(R \cup {e}) = Cardinality(R) + 1
  <2>1. e \notin R
    OBVIOUS
  <2> HIDE DEF R
  <2> QED
    BY <1>1, <2>1, FS_AddElement
<1>3. T \in SUBSET (R \cup {e}) /\ R \cup {e} \in SUBSET Event
  OBVIOUS
<1>4. /\ Cardinality(T) \in Nat
      /\ Cardinality(T) <= Cardinality(R \cup {e})
  <2> HIDE DEF R
  <2> QED
    BY <1>3, RoomIsMonotone
<1> QED
  BY <1>1, <1>2, <1>4

\* The gate opens for an allowed reply while nobody is behind it, and whoever is
\* behind it keeps side_effect_lock and his row until he leaves.
LEMMA WhoIsBehindTheGate ==
  ASSUME TypeOK, Ownership, GateLeavesRoom, [Next]_vars, \A p \in Processor : ~CreateOutbox(p),
         NEW q \in Processor, pc'[q] = "gate"
  PROVE  /\ lock' = q /\ at'[q] = at[q] /\ at[q] \in Event
         /\ ~ChatQuotaReached(at[q]) /\ ~GlobalQuotaReached(at[q])
<1> DEFINE Goal == /\ lock' = q /\ at'[q] = at[q] /\ at[q] \in Event
                   /\ ~ChatQuotaReached(at[q]) /\ ~GlobalQuotaReached(at[q])
<1> SUFFICES Goal
  OBVIOUS
<1> USE NoneAssumption, HeldRow DEF TypeOK, GateLeavesRoom, procVars
<1>0. UNCHANGED <<pc, at, lock>> => Goal
  OBVIOUS
<1>1. ASSUME NEW p \in Processor, Process(p) PROVE Goal
  <2>1. CASE CommitAllowed(p)
    <3>1. CASE p = q
      <4>1. lock' = q /\ at'[q] = at[q] /\ at[q] \in Event
        BY <2>1, <3>1 DEF CommitAllowed
      <4>2. ~ChatQuotaReached(at[q]) /\ ~GlobalQuotaReached(at[q])
        BY <2>1, <3>1 DEF CommitAllowed, Policy
      <4> QED
        BY <4>1, <4>2
    <3>2. CASE p # q
      BY <2>1, <3>2 DEF CommitAllowed, Goto
    <3> QED
      BY <3>1, <3>2
  <2>2. CASE ~CommitAllowed(p)
    <3> HIDE DEF Goal
    <3>1. /\ pc[q] = "gate" /\ p # q /\ at'[q] = at[q]
          /\ lock' \in {lock, IF lock = p THEN None ELSE lock}
      BY <1>1, <2>2 DEF Process, ClaimNextInbox, SkipEvent, Preflight,
        MarkInboxModelStarted, Generate, ModelResponds, CreateDraft, CommitRefused,
        FinishEvent, FailInbox, Release, Goto, Done, ProcessorStep
    <3> QED
      BY <3>1 DEF Goal
  <2> QED
    BY <2>1, <2>2
<1>2. CASE Consume
  BY <1>0, <1>2 DEF Consume, Receive, RecordInbound
<1>3. ASSUME NEW d \in Dispatcher, Dispatch(d) PROVE Goal
  BY <1>0, <1>3 DEF Dispatch, WakeDispatcher, NothingToDispatch, ReserveNextOutbox,
    DispatchAllowed, DispatchRefused, MarkDispatching, Send, ApplyReceipt
<1>4. CASE Wechat \/ Clock \/ Operator
  BY <1>0, <1>4 DEF Wechat, WechatShows, Clock, QuietHoursTurn, RetryDue, WindowPasses,
    Operator, Pause, Resume, ReconcileUnknown
<1>5. CASE Stop
  BY <1>5 DEF Stop
<1>6. CASE Startup \/ UNCHANGED vars
  BY <1>0, <1>6 DEF Startup, Start, vars
<1> HIDE DEF Goal, TypeOK, GateLeavesRoom
<1> QED
  BY <1>1, <1>2, <1>3, <1>4, <1>5, <1>6, Zenon DEF Next

\* While no reply is created, nobody's room shrinks.
LEMMA WaitingKeepsQuotas ==
  ASSUME TypeOK, Ownership, QuotaInv, [Next]_vars, \A p \in Processor : ~CreateOutbox(p)
  PROVE  QuotaInv'
<1>1. Counted' \subseteq Counted
  BY OnlyCreatingCounts
<1>2. Counted \in SUBSET Event
  BY CountedIsFinite
<1>3. QuotaRespected'
  <2>1. Cardinality(Counted') <= GlobalQuota
    BY <1>1, <1>2, RoomIsMonotone, NumberAssumption DEF QuotaInv, QuotaRespected
  <2>2. ASSUME ReplyQuota # 0, NEW c \in Chat
        PROVE  Cardinality(Counted' \cap OfChat(c)) <= ReplyQuota
    <3>1. /\ Counted \cap OfChat(c) \in SUBSET Event
          /\ Counted' \cap OfChat(c) \in SUBSET (Counted \cap OfChat(c))
      BY <1>1, <1>2
    <3>2. Cardinality(Counted \cap OfChat(c)) <= ReplyQuota
      BY <2>2 DEF QuotaInv, QuotaRespected
    <3> QED
      BY <3>1, <3>2, RoomIsMonotone, NumberAssumption
  <2> QED
    BY <2>1, <2>2 DEF QuotaRespected, OfChat
<1>4. ASSUME NEW q \in Processor, pc'[q] = "gate"
      PROVE  lock' = q /\ ~ChatQuotaReached(at[q])' /\ ~GlobalQuotaReached(at[q])'
  <2>1. /\ lock' = q /\ at'[q] = at[q] /\ at[q] \in Event
        /\ ~ChatQuotaReached(at[q]) /\ ~GlobalQuotaReached(at[q])
    BY <1>4, WhoIsBehindTheGate DEF QuotaInv
  <2>2. ~(Cardinality(Counted' \ {at[q]}) >= GlobalQuota)
    <3>1. /\ Counted \ {at[q]} \in SUBSET Event
          /\ Counted' \ {at[q]} \in SUBSET (Counted \ {at[q]})
      BY <1>1, <1>2
    <3>2. ~(Cardinality(Counted \ {at[q]}) >= GlobalQuota)
      BY <2>1 DEF GlobalQuotaReached
    <3> QED
      BY <3>1, <3>2, RoomIsMonotone, NumberAssumption
  <2>3. ASSUME ReplyQuota # 0
        PROVE  ~(Cardinality((Counted' \cap OfChat(ChatOf[at[q]])) \ {at[q]}) >= ReplyQuota)
    <3>1. /\ (Counted \cap OfChat(ChatOf[at[q]])) \ {at[q]} \in SUBSET Event
          /\ (Counted' \cap OfChat(ChatOf[at[q]])) \ {at[q]}
               \in SUBSET ((Counted \cap OfChat(ChatOf[at[q]])) \ {at[q]})
      BY <1>1, <1>2
    <3>2. ~(Cardinality((Counted \cap OfChat(ChatOf[at[q]])) \ {at[q]}) >= ReplyQuota)
      BY <2>1, <2>3 DEF ChatQuotaReached
    <3> QED
      BY <3>1, <3>2, RoomIsMonotone, NumberAssumption
  <2>4. ~GlobalQuotaReached(at[q])'
    BY <2>1, <2>2, Zenon DEF GlobalQuotaReached
  <2>5. ~ChatQuotaReached(at[q])'
    BY <2>1, <2>3, Zenon DEF ChatQuotaReached, OfChat
  <2> QED
    BY <2>1, <2>4, <2>5
<1> QED
  BY <1>3, <1>4 DEF QuotaInv, GateLeavesRoom

\* The reply that is created had been judged behind the gate, alone.
LEMMA CreatingKeepsQuotas ==
  ASSUME TypeOK, Ownership, QuotaInv, NEW p \in Processor, CreateOutbox(p)
  PROVE  QuotaInv'
<1> DEFINE e == at[p]
<1>1. /\ pc[p] = "gate" /\ lock = p /\ e \in Event
      /\ ~ChatQuotaReached(e) /\ ~GlobalQuotaReached(e)
  BY HeldRow DEF CreateOutbox, QuotaInv, GateLeavesRoom
<1>2. Counted' \subseteq Counted \cup {e}
  <2>1. \A m \in Event : m # e => outState'[m] = outState[m] /\ fresh'[m] = fresh[m]
    BY <1>1 DEF CreateOutbox, TypeOK, outbox
  <2> HIDE DEF e
  <2> QED
    BY <2>1 DEF Counted
<1>3. Counted \in SUBSET Event
  BY CountedIsFinite
<1>4. GateLeavesRoom'
  BY <1>1 DEF CreateOutbox, TypeOK, QuotaInv, GateLeavesRoom, Goto
<1>5. Cardinality(Counted') <= GlobalQuota
  <2>1. ~(Cardinality(Counted \ {e}) >= GlobalQuota)
    BY <1>1 DEF GlobalQuotaReached
  <2> HIDE DEF e
  <2> QED
    BY <1>1, <1>2, <1>3, <2>1, OneMoreFits, NumberAssumption
<1>6. ASSUME ReplyQuota # 0, NEW c \in Chat
      PROVE  Cardinality(Counted' \cap OfChat(c)) <= ReplyQuota
  <2>1. Cardinality(Counted \cap OfChat(c)) <= ReplyQuota
    BY <1>6 DEF QuotaInv, QuotaRespected
  <2>2. CASE ChatOf[e] = c
    <3>1. ~(Cardinality((Counted \cap OfChat(c)) \ {e}) >= ReplyQuota)
      BY <1>1, <1>6, <2>2 DEF ChatQuotaReached
    <3> HIDE DEF e
    <3>2. /\ Counted \cap OfChat(c) \in SUBSET Event
          /\ Counted' \cap OfChat(c) \in SUBSET ((Counted \cap OfChat(c)) \cup {e})
      BY <1>2, <1>3
    <3> QED
      BY <1>1, <3>1, <3>2, OneMoreFits, NumberAssumption
  <2>3. CASE ChatOf[e] # c
    <3> HIDE DEF e
    <3>1. /\ Counted \cap OfChat(c) \in SUBSET Event
          /\ Counted' \cap OfChat(c) \in SUBSET (Counted \cap OfChat(c))
      BY <1>2, <1>3, <2>3 DEF OfChat
    <3> QED
      BY <2>1, <3>1, RoomIsMonotone, NumberAssumption
  <2> QED
    BY <2>2, <2>3
<1>7. QuotaRespected'
  BY <1>5, <1>6 DEF QuotaRespected, OfChat
<1> QED
  BY <1>4, <1>7 DEF QuotaInv

---------------------------------------------------------------------------

\* The inductive invariant: every reachable state has it.
THEOREM InductiveInvariant == Spec => []IInv
<1>1. Init => IInv
  <2> SUFFICES ASSUME Init PROVE IInv
    OBVIOUS
  <2>1. /\ started \in [Event -> BOOLEAN]
        /\ due \in [Event -> BOOLEAN]
        /\ fresh \in [Event -> BOOLEAN]
        /\ paused \in BOOLEAN
        /\ up \in BOOLEAN
    BY Zenon DEF Init
  <2>2. TypeOK
    BY <2>1 DEF Init, TypeOK, InboxState, OutboxState, ProcessorStep, DispatcherStep
  <2>3. Ownership /\ StoppedIsIdle
    BY DEF Init, Ownership, ProcessorOwns, DispatcherOwns, StoppedIsIdle
  <2>4. UnsentBeforeDispatch /\ SendOnce
    BY DEF Init, UnsentBeforeDispatch, SendOnce
  <2>5. \A e \in Event : spent[e] = {} /\ started[e] = FALSE
    BY Zenon DEF Init
  <2>6. SpentIsMarked
    <3>1. \A p \in Processor : pc[p] # "marked"
      BY DEF Init
    <3> QED
      BY <2>5, <3>1 DEF SpentIsMarked
  <2>7. SeenIsRecorded /\ FifoPerChat
    BY DEF Init, SeenIsRecorded, FifoPerChat
  <2>8. ClaimLeft /\ RetryBudget
    BY NumberAssumption DEF Init, ClaimLeft, RetryBudget
  <2>9. AnswerIsMarked /\ DraftOrReply
    BY NoneAssumption, ShapeAssumption DEF Init, AnswerIsMarked, DraftOrReply
  <2>10. ShownWasSent
    BY DEF Init, ShownWasSent
  <2> QED
    BY <2>2, <2>3, <2>4, <2>6, <2>7, <2>8, <2>9, <2>10 DEF IInv
<1>2. IInv /\ [Next]_vars => IInv'
  BY TypeStep, ProcessorOwnsStep, DispatcherOwnsStep, StoppedIsIdleStep, SendsStep,
     SpentStep, FifoStep, BudgetStep, AnswerStep, ShownStep, Zenon
  DEF IInv, Ownership
<1> QED
  BY <1>1, <1>2, PTL DEF Spec

\* Type correctness of the tables, the workers and the histories.
THEOREM TypeCorrectness == Spec => []TypeOK
<1>1. IInv => TypeOK
  BY DEF IInv
<1> QED
  BY <1>1, InductiveInvariant, PTL

\* deliver issues at most one send request per message, in every behaviour.
THEOREM NeverSentTwice == Spec => []SendOnce
<1>1. IInv => SendOnce
  BY DEF IInv
<1> QED
  BY <1>1, InductiveInvariant, PTL

\* Provider I/O begins in at most one claim of an event, in every behaviour.
THEOREM NeverPaidTwice == Spec => []ModelChainOnce
<1>1. IInv => ModelChainOnce
  BY DEF IInv, SpentIsMarked, ModelChainOnce
<1> QED
  BY <1>1, InductiveInvariant, PTL

\* claim_next_inbox keeps each chat in order, through retries and restarts.
THEOREM ChatsStayInOrder == Spec => []FifoPerChat
<1>1. IInv => FifoPerChat
  BY DEF IInv
<1> QED
  BY <1>1, InductiveInvariant, PTL

\* max_attempts and the number of stops bound the claims of an event.
THEOREM ClaimsAreBounded == Spec => []RetryBudget
<1>1. IInv => RetryBudget
  BY DEF IInv
<1> QED
  BY <1>1, InductiveInvariant, PTL

\* A model answer is a draft or a reply, whatever mode a restart is configured with.
THEOREM NeverDraftedAndSent == Spec => []DraftOrReply
<1>1. IInv => DraftOrReply
  BY DEF IInv
<1> QED
  BY <1>1, InductiveInvariant, PTL

\* The gate leaves room for the reply behind it, at every step.
THEOREM QuotaInvariant == Spec => []QuotaInv
<1>1. Init => QuotaInv
  <2> SUFFICES ASSUME Init PROVE QuotaInv
    OBVIOUS
  <2>1. Counted = {}
    BY DEF Init, Counted
  <2>2. \A c \in Chat : Counted \cap OfChat(c) = {}
    BY <2>1
  <2>3. Cardinality({}) = 0
    BY FS_EmptySet
  <2>4. QuotaRespected
    BY <2>1, <2>2, <2>3, NumberAssumption DEF QuotaRespected
  <2>5. GateLeavesRoom
    BY DEF Init, GateLeavesRoom
  <2> QED
    BY <2>4, <2>5 DEF QuotaInv
<1>2. IInv /\ QuotaInv /\ [Next]_vars => QuotaInv'
  BY WaitingKeepsQuotas, CreatingKeepsQuotas, Zenon DEF IInv
<1> QED
  BY <1>1, <1>2, InductiveInvariant, PTL DEF Spec

\* However many processors decide at once, whatever fails or restarts, no window holds
\* more replies than its quota.
THEOREM QuotasHold == Spec => []QuotaRespected
<1>1. QuotaInv => QuotaRespected
  BY DEF QuotaInv
<1> QED
  BY <1>1, QuotaInvariant, PTL

---------------------------------------------------------------------------
(* EventPipeline implements ReplyDelivery, and what else its steps may not do. *)

\* A row's state decides its fate, so one row's step moves one fate.
LEMMA OneFateMoves ==
  ASSUME TypeOK, NEW m \in Event, NEW s, outState' = [outState EXCEPT ![m] = s]
  PROVE  [n \in Event |-> FateOf(outState'[n])]
           = [[n \in Event |-> FateOf(outState[n])] EXCEPT ![m] = FateOf(s)]
<1>1. ASSUME NEW n \in Event, n = m PROVE FateOf(outState'[n]) = FateOf(s)
  <2>1. outState'[n] = s
    BY <1>1 DEF TypeOK
  <2> QED
    BY <2>1, Zenon
<1>2. ASSUME NEW n \in Event, n # m PROVE FateOf(outState'[n]) = FateOf(outState[n])
  <2>1. outState'[n] = outState[n]
    BY <1>2 DEF TypeOK
  <2> QED
    BY <2>1, Zenon
<1> QED
  BY <1>1, <1>2

\* The fate of each row state.
LEMMA Fates ==
  /\ FateOf("absent") = "none"
  /\ FateOf("pending") = "queued"
  /\ FateOf("reserved") = "queued"
  /\ FateOf("dispatching") = "committed"
  /\ FateOf("acknowledged") = "delivered"
  /\ FateOf("unknown") = "unknown"
  /\ FateOf("dead") = "dropped"
BY DEF FateOf

\* Every step of the pipeline is a step of ReplyDelivery or changes nothing there.
LEMMA DeliveryStep ==
  ASSUME IInv, [Next]_vars
  PROVE  [Delivery!Next]_(Delivery!vars)
<1> USE HeldRow, NoneAssumption DEF IInv
<1> DEFINE Fate(state) == [m \in Event |-> FateOf(state[m])]
<1>0. /\ TypeOK /\ Ownership
      /\ \A d \in Dispatcher : dpc[d] \in {"reserved", "allowed"} => outState[dat[d]] = "reserved"
      /\ \A d \in Dispatcher :
           dpc[d] \in {"delivering", "sent"} => outState[dat[d]] = "dispatching"
      /\ \A d \in Dispatcher : dpc[d] \notin {"idle", "awake"} => dat[d] \in Event
  BY DEF Ownership, DispatcherOwns
<1>1. ASSUME UNCHANGED <<outState, sends, remote>> PROVE UNCHANGED Delivery!vars
  BY <1>1, Zenon DEF Delivery!vars
<1>2. ASSUME NEW m \in Event, NEW r, NEW s, outState[m] = r,
             outState' = [outState EXCEPT ![m] = s], UNCHANGED <<sends, remote>>
      PROVE  /\ Delivery!Move(m, FateOf(r), FateOf(s))
             /\ FateOf(r) = FateOf(s) => UNCHANGED Delivery!vars
  <2>1. Fate(outState)' = [Fate(outState) EXCEPT ![m] = FateOf(s)]
    BY <1>0, <1>2, OneFateMoves
  <2>2. Fate(outState)[m] = FateOf(r)
    BY <1>2, Zenon
  <2>3. Delivery!Move(m, FateOf(r), FateOf(s))
    BY <1>2, <2>1, <2>2 DEF Delivery!Move
  <2>4. ASSUME FateOf(r) = FateOf(s) PROVE UNCHANGED Delivery!vars
    BY <1>2, <2>1, <2>2, <2>4 DEF Delivery!vars
  <2> QED
    BY <2>3, <2>4
<1>3. ASSUME NEW m \in Event, Delivery!Step(m) PROVE Delivery!Next
  BY <1>3 DEF Delivery!Next
<1>4. CASE Consume \/ UNCHANGED vars \/ \E p \in Processor : Process(p) /\ ~CreateOutbox(p)
  BY <1>1, <1>4, OutboxFrame
<1>5. ASSUME NEW p \in Processor, CreateOutbox(p) PROVE [Delivery!Next]_(Delivery!vars)
  <2>1. at[p] \in Event /\ UNCHANGED <<sends, remote>>
    BY <1>0, <1>5 DEF CreateOutbox, wireVars
  <2>2. CASE outState[at[p]] # "absent"
    BY <1>1, <1>5, <2>1, <2>2 DEF CreateOutbox, outbox
  <2>3. CASE outState[at[p]] = "absent"
    <3>1. outState' = [outState EXCEPT ![at[p]] = "pending"]
      BY <1>5, <2>3 DEF CreateOutbox
    <3>2. Delivery!Move(at[p], "none", "queued")
      BY <1>2, <2>1, <2>3, <3>1, Fates
    <3> QED
      BY <1>3, <2>1, <3>2 DEF Delivery!Step
  <2> QED
    BY <2>2, <2>3
<1>6. ASSUME NEW d \in Dispatcher, Dispatch(d) PROVE [Delivery!Next]_(Delivery!vars)
  <2>1. CASE WakeDispatcher(d) \/ NothingToDispatch(d) \/ DispatchAllowed(d)
    BY <1>1, <2>1
    DEF WakeDispatcher, NothingToDispatch, DispatchAllowed, store, outbox, wireVars
  <2>2. ASSUME NEW m \in Event, ReserveNextOutbox(d, m)
        PROVE  [Delivery!Next]_(Delivery!vars)
    <3>1. /\ outState[m] = "pending" /\ outState' = [outState EXCEPT ![m] = "reserved"]
          /\ UNCHANGED <<sends, remote>>
      BY <2>2 DEF ReserveNextOutbox, Dispatchable, wireVars
    <3> QED
      BY <1>2, <3>1, Fates
  <2>3. CASE DispatchRefused(d)
    <3>1. dat[d] \in Event /\ outState[dat[d]] = "reserved" /\ UNCHANGED <<sends, remote>>
      BY <1>0, <2>3 DEF DispatchRefused, wireVars
    <3>2. CASE outState' = [outState EXCEPT ![dat[d]] = "pending"]
      <4>1. FateOf("reserved") = FateOf("pending")
        BY Fates
      <4>2. UNCHANGED Delivery!vars
        BY <1>2, <3>1, <3>2, <4>1
      <4> QED
        BY <4>2
    <3>3. CASE outState' = [outState EXCEPT ![dat[d]] = "dead"]
      <4>1. Delivery!Move(dat[d], "queued", "dropped")
        BY <1>2, <3>1, <3>3, Fates
      <4> QED
        BY <1>3, <3>1, <4>1 DEF Delivery!Step
    <3> QED
      BY <2>3, <3>1, <3>2, <3>3 DEF DispatchRefused
  <2>4. CASE MarkDispatching(d)
    <3>1. /\ dat[d] \in Event /\ outState[dat[d]] = "reserved"
          /\ outState' = [outState EXCEPT ![dat[d]] = "dispatching"]
          /\ UNCHANGED <<sends, remote>>
      BY <1>0, <2>4 DEF MarkDispatching, wireVars
    <3>2. Delivery!Move(dat[d], "queued", "committed")
      BY <1>2, <3>1, Fates
    <3> QED
      BY <1>3, <3>1, <3>2 DEF Delivery!Step
  <2>5. CASE Send(d)
    <3>1. /\ dat[d] \in Event /\ outState[dat[d]] = "dispatching" /\ sends[dat[d]] = 0
          /\ UNCHANGED <<outState, remote>>
      BY <1>0, <2>5 DEF Send, UnsentBeforeDispatch, store, outbox
    <3>4. sends' = [sends EXCEPT ![dat[d]] = 1]
      BY <1>0, <2>5, <3>1 DEF Send, TypeOK
    <3>2. Fate(outState)[dat[d]] = "committed" /\ Fate(outState)' = Fate(outState)
      BY <3>1, Fates, Zenon
    <3>3. Delivery!Ask(dat[d])
      BY <3>1, <3>2, <3>4 DEF Delivery!Ask
    <3> QED
      BY <1>3, <3>1, <3>3 DEF Delivery!Step
  <2>6. ASSUME NEW receipt \in {"acknowledged", "unknown", "dead"}, ApplyReceipt(d, receipt)
        PROVE  [Delivery!Next]_(Delivery!vars)
    <3>1. /\ dat[d] \in Event /\ outState[dat[d]] = "dispatching"
          /\ outState' = [outState EXCEPT ![dat[d]] = receipt]
          /\ UNCHANGED <<sends, remote>>
          /\ receipt \in Receipts(d)
      BY <1>0, <2>6 DEF ApplyReceipt, wireVars
    <3>2. Delivery!Move(dat[d], "committed", FateOf(receipt))
      BY <1>2, <3>1, Fates
    <3>3. CASE receipt = "acknowledged"
      <4>1. dat[d] \in remote
        BY <3>1, <3>3 DEF Receipts
      <4> QED
        BY <1>3, <3>1, <3>2, <3>3, <4>1, Fates DEF Delivery!Step
    <3>4. CASE receipt = "unknown"
      BY <1>3, <3>1, <3>2, <3>4, Fates DEF Delivery!Step
    <3>5. CASE receipt = "dead"
      <4>1. sends[dat[d]] = 0
        BY <3>1, <3>5 DEF Receipts, UnsentBeforeDispatch
      <4> QED
        BY <1>3, <3>1, <3>2, <3>5, <4>1, Fates DEF Delivery!Step
    <3> QED
      BY <3>3, <3>4, <3>5
  <2> QED
    BY <1>6, <2>1, <2>2, <2>3, <2>4, <2>5, <2>6 DEF Dispatch
<1>7. CASE Wechat
  <2>1. PICK m \in Event : WechatShows(m)
    BY <1>7 DEF Wechat
  <2>2. /\ sends[m] = 1 /\ remote' = remote \cup {m} /\ UNCHANGED <<outState, sends>>
    BY <2>1 DEF WechatShows, UnsentBeforeDispatch, store, outbox
  <2>3. Fate(outState)' = Fate(outState)
    BY <2>2, Zenon
  <2>4. Delivery!Show(m)
    BY <2>2, <2>3 DEF Delivery!Show
  <2> QED
    BY <1>3, <2>4 DEF Delivery!Step
<1>8. CASE Clock \/ Pause \/ Resume \/ Stop
  BY <1>1, <1>8 DEF Clock, QuietHoursTurn, RetryDue, WindowPasses, Pause, Resume, Stop,
    store, outbox, wireVars
<1>9. ASSUME NEW m \in Event, NEW outcome \in {"acknowledged", "dead"},
             ReconcileUnknown(m, outcome)
      PROVE  [Delivery!Next]_(Delivery!vars)
  <2>1. /\ outState[m] = "unknown" /\ outState' = [outState EXCEPT ![m] = outcome]
        /\ UNCHANGED <<sends, remote>>
    BY <1>9 DEF ReconcileUnknown, wireVars
  <2>2. Delivery!Move(m, "unknown", FateOf(outcome))
    BY <1>2, <2>1, Fates
  <2> QED
    BY <1>3, <2>2, Fates DEF Delivery!Step
<1>10. CASE Startup
  <2>1. PICK late \in SUBSET Event :
          /\ outState' = [e \in Event |-> RecoveredOutbox(e, late)]
          /\ UNCHANGED <<sends, remote>>
    BY <1>10 DEF Startup, Start, wireVars
  <2>2. \A m \in Event :
          FateOf(outState'[m]) = IF FateOf(outState[m]) = "committed" THEN "unknown"
                                 ELSE FateOf(outState[m])
    BY <1>0, <2>1, Fates DEF RecoveredOutbox, TypeOK, OutboxState
  <2>3. Delivery!Interrupt
    BY <2>1, <2>2 DEF Delivery!Interrupt
  <2> QED
    BY <2>3 DEF Delivery!Next
<1> HIDE DEF IInv
<1> QED
  BY <1>4, <1>5, <1>6, <1>7, <1>8, <1>9, <1>10 DEF Next, Operator

\* The pipeline implements ReplyDelivery: through reservations, deferrals, retries,
\* crashes and recoveries, each reply is committed and asked for at most once, and
\* called delivered by the program only if WeChat shows it.
THEOREM ImplementsDelivery == Spec => DeliversOnce
<1>1. Init => Delivery!Init
  <2> SUFFICES ASSUME Init PROVE Delivery!Init
    OBVIOUS
  <2>1. \A m \in Event : outState[m] = "absent"
    BY DEF Init
  <2>2. \A m \in Event : FateOf(outState[m]) = "none"
    BY <2>1, Fates
  <2> QED
    BY <2>2 DEF Init, Delivery!Init
<1>2. IInv /\ [Next]_vars => [Delivery!Next]_(Delivery!vars)
  BY DeliveryStep
<1> QED
  BY <1>1, <1>2, InductiveInvariant, PTL DEF Spec, DeliversOnce, Delivery!Spec

---------------------------------------------------------------------------

\* What one step may do to a row that is settled or quarantined.
SettledStep ==
  \A e \in Event :
    /\ inState[e] \in {"completed", "dead"} => inState'[e] = inState[e]
    /\ outState[e] \in {"acknowledged", "dead"} => outState'[e] = outState[e]
    /\ outState[e] = "unknown" => outState'[e] \in {"unknown", "acknowledged", "dead"}

LEMMA SettledRows == ASSUME IInv, [Next]_vars PROVE SettledStep
<1> USE NoneAssumption, HeldRow
    DEF TypeOK, InboxState, OutboxState, Ownership, ProcessorOwns, DispatcherOwns,
        SettledStep, inbox, outbox, store, Goto, Done, DGoto, DDone
<1>0. TypeOK /\ Ownership
  BY DEF IInv
<1> USE <1>0
<1>1. CASE UNCHANGED vars \/ Wechat \/ Clock \/ Stop
  BY <1>1 DEF vars, Wechat, WechatShows, Clock, QuietHoursTurn, RetryDue, WindowPasses, Stop
<1>2. CASE Consume
  <2>1. UNCHANGED outState
    BY <1>2 DEF Consume, Receive, RecordInbound
  <2>2. \A e \in Event : inState[e] \in {"completed", "dead"} => inState'[e] = inState[e]
    <3>1. CASE RecordInbound
      BY <3>1 DEF RecordInbound
    <3>2. CASE \E e \in Event : Receive(e)
      BY <3>2 DEF Receive
    <3> QED
      BY <1>2, <3>1, <3>2 DEF Consume
  <2> QED
    BY <2>1, <2>2
<1>3. ASSUME NEW p \in Processor, Process(p) PROVE SettledStep
  <2>1. ASSUME NEW e \in Event, ClaimNextInbox(p, e) PROVE SettledStep
    BY <2>1 DEF ClaimNextInbox, Claimable
  <2>2. CASE SkipEvent(p) \/ CommitRefused(p) \/ FinishEvent(p)
    BY <2>2 DEF SkipEvent, CommitRefused, FinishEvent, CompleteInbox
  <2>3. CASE \/ Preflight(p) \/ MarkInboxModelStarted(p) \/ Generate(p)
             \/ \E step \in {"replied", "context"} : ModelResponds(p, step)
             \/ CreateDraft(p) \/ CommitAllowed(p)
    BY <2>3 DEF Preflight, MarkInboxModelStarted, Generate, ModelResponds, CreateDraft,
      CommitAllowed
  <2>4. CASE CreateOutbox(p)
    BY <2>4 DEF CreateOutbox
  <2>5. ASSUME NEW permanent \in BOOLEAN, FailInbox(p, permanent) PROVE SettledStep
    BY <2>5 DEF FailInbox
  <2> QED
    BY <1>3, <2>1, <2>2, <2>3, <2>4, <2>5 DEF Process
<1>4. ASSUME NEW d \in Dispatcher, Dispatch(d) PROVE SettledStep
  <2>1. CASE WakeDispatcher(d) \/ NothingToDispatch(d) \/ DispatchAllowed(d) \/ Send(d)
    BY <2>1 DEF WakeDispatcher, NothingToDispatch, DispatchAllowed, Send
  <2>2. ASSUME NEW m \in Event, ReserveNextOutbox(d, m) PROVE SettledStep
    BY <2>2 DEF ReserveNextOutbox, Dispatchable
  <2>3. CASE DispatchRefused(d)
    BY <2>3 DEF DispatchRefused
  <2>4. CASE MarkDispatching(d)
    BY <2>4 DEF MarkDispatching
  <2>5. ASSUME NEW receipt \in {"acknowledged", "unknown", "dead"}, ApplyReceipt(d, receipt)
        PROVE SettledStep
    BY <2>5 DEF ApplyReceipt
  <2> QED
    BY <1>4, <2>1, <2>2, <2>3, <2>4, <2>5 DEF Dispatch
<1>5. CASE Operator
  BY <1>5 DEF Operator, Pause, Resume, ReconcileUnknown
<1>6. CASE Startup
  BY <1>6 DEF Startup, Start, RecoveredInbox, RecoveredOutbox
<1> QED
  BY <1>1, <1>2, <1>3, <1>4, <1>5, <1>6 DEF Next

\* No step of any actor reopens a settled event or message, and a quarantined
\* message is only ever closed.
THEOREM SettledRowsStaySettled == Spec => SettledForever
<1>1. IInv /\ [Next]_vars => [SettledStep]_vars
  BY SettledRows
<1> QED
  BY <1>1, InductiveInvariant, PTL DEF Spec, SettledForever, SettledStep

---------------------------------------------------------------------------

\* If no restart's clock is behind the stamps of the process it replaces, every row
\* in work has a worker.
LEMMA NoOrphanStep ==
  ASSUME ~ClockStepsBack, IInv, NoOrphanRow, [Next]_vars PROVE NoOrphanRow'
<1> USE NoneAssumption, HeldRow
    DEF TypeOK, InboxState, OutboxState, Ownership, ProcessorOwns, DispatcherOwns,
        NoOrphanRow, inbox, outbox, store, process, procVars, dispVars, Goto, Done, DGoto,
        DDone
<1>0. TypeOK /\ Ownership
  BY DEF IInv
<1> USE <1>0
<1>8. ASSUME UNCHANGED <<inState, outState, at, dat, up>> PROVE NoOrphanRow'
  BY <1>8, ZenonT(60)
<1>9. ASSUME NEW e \in Event, NEW p \in Processor, at[p] = e,
             inState'[e] # "processing",
             \A f \in Event \ {e} : inState'[f] = inState[f],
             \A q \in Processor \ {p} : at'[q] = at[q],
             UNCHANGED <<outState, dat, up>>
      PROVE  NoOrphanRow'
  <2>1. ASSUME NEW f \in Event, inState'[f] = "processing", up
        PROVE  \E q \in Processor : at'[q] = f
    <3>1. f # e /\ inState[f] = "processing"
      BY <1>9, <2>1
    <3>2. PICK q \in Processor : at[q] = f
      BY <2>1, <3>1
    <3>3. at'[q] = f
      BY <1>9, <3>1, <3>2
    <3> QED
      BY <3>3
  <2>2. up => \A m \in Event : outState'[m] \in {"reserved", "dispatching"}
                               => \E d \in Dispatcher : dat'[d] = m
    BY <1>9
  <2> QED
    BY <1>9, <2>1, <2>2
<1>1. CASE UNCHANGED vars \/ Wechat \/ Clock
  BY <1>1, <1>8 DEF vars, Wechat, WechatShows, Clock, QuietHoursTurn, RetryDue, WindowPasses
<1>2. CASE Consume
  <2>1. UNCHANGED <<outState, dat, at, up>>
    BY <1>2 DEF Consume, Receive, RecordInbound
  <2>2. \A e \in Event : inState'[e] = "processing" => inState[e] = "processing"
    <3>1. CASE RecordInbound
      BY <3>1 DEF RecordInbound
    <3>2. CASE \E e \in Event : Receive(e)
      BY <3>2 DEF Receive
    <3> QED
      BY <1>2, <3>1, <3>2 DEF Consume
  <2> QED
    BY <2>1, <2>2
<1>3. ASSUME NEW p \in Processor, Process(p) PROVE NoOrphanRow'
  <2>1. ASSUME NEW e \in Event, ClaimNextInbox(p, e) PROVE NoOrphanRow'
    BY <2>1 DEF ClaimNextInbox
  <2>2. CASE SkipEvent(p) \/ CommitRefused(p) \/ FinishEvent(p)
    <3>1. CompletesRow(p) /\ UNCHANGED <<outState, dat, up>>
      BY <2>2, CompletesRowCases DEF SkipEvent, CommitRefused, FinishEvent
    <3> QED
      BY <1>9, <3>1 DEF CompletesRow
  <2>3. CASE \/ Preflight(p) \/ MarkInboxModelStarted(p) \/ Generate(p)
             \/ \E step \in {"replied", "context"} : ModelResponds(p, step)
             \/ CreateDraft(p) \/ CommitAllowed(p)
    BY <1>8, <2>3 DEF Preflight, MarkInboxModelStarted, Generate, ModelResponds, CreateDraft,
      CommitAllowed
  <2>4. CASE CreateOutbox(p)
    <3>1. /\ at[p] \in Event
          /\ UNCHANGED <<inState, at, dat, up>>
          /\ \/ UNCHANGED outState
             \/ outState' = [outState EXCEPT ![at[p]] = "pending"]
      BY <2>4 DEF CreateOutbox
    <3> QED
      BY <1>8, <3>1
  <2>5. ASSUME NEW permanent \in BOOLEAN, FailInbox(p, permanent) PROVE NoOrphanRow'
    BY <2>5 DEF FailInbox
  <2> QED
    BY <1>3, <2>1, <2>2, <2>3, <2>4, <2>5 DEF Process
<1>4. ASSUME NEW d \in Dispatcher, Dispatch(d) PROVE NoOrphanRow'
  <2>1. CASE WakeDispatcher(d) \/ NothingToDispatch(d) \/ DispatchAllowed(d) \/ Send(d)
    BY <1>8, <2>1 DEF WakeDispatcher, NothingToDispatch, DispatchAllowed, Send
  <2>2. ASSUME NEW m \in Event, ReserveNextOutbox(d, m) PROVE NoOrphanRow'
    BY <2>2 DEF ReserveNextOutbox
  <2>3. CASE DispatchRefused(d)
    BY <2>3 DEF DispatchRefused
  <2>4. CASE MarkDispatching(d)
    BY <2>4 DEF MarkDispatching
  <2>5. ASSUME NEW receipt \in {"acknowledged", "unknown", "dead"}, ApplyReceipt(d, receipt)
        PROVE NoOrphanRow'
    BY <2>5 DEF ApplyReceipt
  <2> QED
    BY <1>4, <2>1, <2>2, <2>3, <2>4, <2>5 DEF Dispatch
<1>5. CASE Operator
  <2>1. ASSUME NEW m \in Event, NEW outcome \in {"acknowledged", "dead"},
               ReconcileUnknown(m, outcome)
        PROVE  NoOrphanRow'
    BY <2>1 DEF ReconcileUnknown
  <2>2. CASE Pause \/ Resume
    BY <1>8, <2>2 DEF Pause, Resume
  <2> QED
    BY <1>5, <2>1, <2>2 DEF Operator
<1>6. CASE Stop
  BY <1>6 DEF Stop
<1>7. CASE Startup
  BY <1>7 DEF Startup, Start, RecoveredInbox, RecoveredOutbox
<1> QED
  BY <1>1, <1>2, <1>3, <1>4, <1>5, <1>6, <1>7 DEF Next

\* The claim of LemonbotRuntime.initialize that recovery strands no row: it holds
\* whenever the wall clock of a restart is ahead of every stamp it recovers.
THEOREM NothingIsStranded == ASSUME ~ClockStepsBack PROVE Spec => []NoOrphanRow
<1>1. Init => NoOrphanRow
  BY DEF Init, NoOrphanRow
<1>2. IInv /\ NoOrphanRow /\ [Next]_vars => NoOrphanRow'
  BY NoOrphanStep
<1> QED
  BY <1>1, <1>2, InductiveInvariant, PTL DEF Spec
============================================================================
