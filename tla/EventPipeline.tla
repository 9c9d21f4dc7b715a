--------------------------- MODULE EventPipeline ---------------------------
(***************************************************************************)
(* The durable event pipeline of Lemonbot: the inbox and outbox tables of  *)
(* CoreRepository (storage/repository.py), the processor that turns an     *)
(* inbox row into a reply (EventPipeline.process_once), the dispatcher     *)
(* that hands a reply to the connector (EventPipeline.dispatch_once), the  *)
(* consumer that records what the connector yields, the administrator and  *)
(* a process that may stop at any step and recovers when it starts again.  *)
(*                                                                         *)
(* One action is one SQLite transaction or one await of the code; the      *)
(* reply to event e is identified with e, because its message id is a      *)
(* uuid5 of the event (pipeline.py:243) and the outbox is unique in it.    *)
(***************************************************************************)
EXTENDS Naturals, FiniteSets

CONSTANTS
  Event,          \* inbound events the connector can yield
  None,           \* no row, no event, no lock holder
  Chat,           \* chats of the channel
  ChatOf,         \* the chat of an event
  OccurredAt,     \* InboundEvent.occurred_at, which arrival need not follow
  UsesModel,      \* events whose reply needs the model (not canary, welcome)
  Conversation,   \* events with metadata wechat_mode = "conversation"
  Processor,      \* concurrent callers of process_once
  Dispatcher,     \* concurrent callers of dispatch_once
  Modes,          \* output modes a start of the process may be configured with
  MaxAttempts,    \* fail_inbox's max_attempts (3 in the code)
  MaxTurns,       \* PipelineConfig.max_model_turns
  ReplyQuota,     \* replies per chat and window, 0 disables the window
  GlobalQuota,    \* replies of the channel per window (global_per_day)
  HasQuietHours,  \* does the channel keep quiet hours (wechat_agent_lab does)
  ClockStepsBack, \* may the wall clock of a restart be behind a row's stamp?
  MaxStops,       \* bound: how often the process stops
  MaxPauses       \* bound: how often the channel is paused

ASSUME NoneAssumption == None \notin Event \cup Processor
ASSUME FiniteAssumption == IsFiniteSet(Event)
ASSUME ShapeAssumption ==
  /\ ChatOf \in [Event -> Chat]
  /\ OccurredAt \in [Event -> Nat]
  /\ UsesModel \subseteq Event
  /\ Conversation \subseteq Event
  /\ Modes \subseteq {"observe", "draft", "send"}
ASSUME NumberAssumption ==
  /\ MaxAttempts \in Nat \ {0}
  /\ MaxTurns \in Nat \ {0}
  /\ ReplyQuota \in Nat
  /\ GlobalQuota \in Nat
  /\ HasQuietHours \in BOOLEAN
  /\ MaxStops \in Nat
  /\ MaxPauses \in Nat
  /\ ClockStepsBack \in BOOLEAN

VARIABLES
  inState, attempts, started, inId, \* columns of InboxRow, per event
  outState, due, fresh, outId,      \* columns of OutboxRow, per event replied to
  drafts,     \* events with a DraftRow
  paused,     \* is_paused(channel)
  quiet,      \* is it the channel's quiet hours
  allowed,    \* enabled AllowlistRows
  up,         \* is a process running
  mode,       \* PipelineConfig.output_mode of the running process
  consumer,   \* the event _consume_loop holds between is_paused and ingest
  pc, at, turn, \* per processor: next step, claimed event, model turns done
  lock,       \* side_effect_lock: the processor in its section, or None
  dpc, dat,   \* per dispatcher: next step, reserved message
  wire,       \* messages whose send request is on its way to WeChat
  remote,     \* messages that WeChat shows in the chat
  sends,      \* history: send requests issued per message
  spent,      \* history: claims of an event that began provider I/O
  seen,       \* history: rows recorded when the event was last claimed
  stops, pauses \* how often the bounded environment steps happened

inbox == <<inState, attempts, started, inId>>
outbox == <<outState, due, fresh, outId>>
store == <<inbox, outbox, drafts>>
admin == <<paused, quiet, allowed, pauses>>
process == <<up, mode, stops>>
procVars == <<pc, at, turn, lock>>
dispVars == <<dpc, dat>>
wireVars == <<wire, remote, sends>>
history == <<spent, seen>>
vars == <<store, admin, process, consumer, procVars, dispVars, wireVars, history>>

InboxState == {"absent", "pending", "processing", "completed", "dead"}
OutboxState ==
  {"absent", "pending", "reserved", "dispatching", "acknowledged", "unknown", "dead"}

Recorded == {e \in Event : inState[e] # "absent"}

(***************************************************************************)
(* The (occurred_at, id) order of recorded rows.                           *)
(***************************************************************************)
Earlier(e, f) ==
  \/ OccurredAt[e] < OccurredAt[f]
  \/ OccurredAt[e] = OccurredAt[f] /\ inId[e] < inId[f]

---------------------------------------------------------------------------
(* The policy of a reply (policy/engine.py).                               *)

\* count_outbound_since: the rows created inside the window, failed ones aside.
\* One window stands for the chat's three (ten minutes, hour, day) and the
\* channel's day.
Counted ==
  {m \in Event :
     /\ fresh[m]
     /\ outState[m] \in
          {"pending", "reserved", "dispatching", "acknowledged", "unknown"}}

OfChat(c) == {m \in Event : ChatOf[m] = c}

\* exclude_message_id leaves the reply being judged out of the count.
ChatQuotaReached(e) ==
  ReplyQuota # 0 /\ Cardinality((Counted \cap OfChat(ChatOf[e])) \ {e}) >= ReplyQuota

GlobalQuotaReached(e) == Cardinality(Counted \ {e}) >= GlobalQuota

\* The rule that decides a reply, in the order evaluate tries them.
Policy(e) ==
  IF paused THEN "runtime_paused"
  ELSE IF ChatOf[e] \notin allowed THEN "chat_not_allowlisted"
  ELSE IF quiet THEN "quiet_hours"
  ELSE IF ChatQuotaReached(e) THEN "rate_reply"
  ELSE IF GlobalQuotaReached(e) THEN "rate_global_day"
  ELSE "reply_allowed"

Transient == {"rate_reply", "rate_global_day", "runtime_paused", "quiet_hours"}

---------------------------------------------------------------------------
(* The consumer.                                                           *)

\* _consume_loop drops what arrives while paused, then awaits ingest.
Receive(e) ==
  /\ up /\ ~paused /\ consumer = None
  /\ consumer' = e
  /\ UNCHANGED <<store, admin, process, procVars, dispVars, wireVars, history>>

\* ingest -> record_inbound: a second delivery of an event changes nothing.
RecordInbound ==
  /\ consumer # None
  /\ IF inState[consumer] # "absent" THEN UNCHANGED inbox
     ELSE /\ inState' = [inState EXCEPT ![consumer] = "pending"]
          /\ inId' = [inId EXCEPT ![consumer] = 1 + Cardinality(Recorded)]
          /\ attempts' = [attempts EXCEPT ![consumer] = 0]
          /\ started' = [started EXCEPT ![consumer] = FALSE]
  /\ consumer' = None
  /\ UNCHANGED <<outbox, drafts, admin, process, procVars, dispVars, wireVars, history>>

---------------------------------------------------------------------------
(* The processor: process_once and _process_claimed.                       *)

\* Mutant: only pending rows block a later one.
BlockedByPending(e) ==
  \E f \in Event :
    ChatOf[f] = ChatOf[e] /\ inState[f] = "pending" /\ Earlier(f, e)

\* The NOT EXISTS subquery of claim_next_inbox.
Blocked(e) ==
  \E f \in Event :
    /\ ChatOf[f] = ChatOf[e]
    /\ inState[f] \in {"pending", "processing"}
    /\ Earlier(f, e)

Claimable(e) == inState[e] = "pending" /\ ~Blocked(e)

Goto(p, step) == pc' = [pc EXCEPT ![p] = step]

\* process_once returns: the worker is free for its next call.
Done(p) ==
  /\ Goto(p, "idle")
  /\ at' = [at EXCEPT ![p] = None]
  /\ turn' = [turn EXCEPT ![p] = 0]

Release(p) == lock' = IF lock = p THEN None ELSE lock

\* complete_inbox: a compare-and-set whose result the pipeline ignores.
CompleteInbox(e) ==
  /\ inState' = IF inState[e] = "processing"
                THEN [inState EXCEPT ![e] = "completed"] ELSE inState
  /\ UNCHANGED <<attempts, started, inId>>

ClaimNextInbox(p, e) ==
  /\ up /\ pc[p] = "idle"
  /\ Claimable(e)
  /\ \A f \in Event : Claimable(f) => f = e \/ Earlier(e, f)
  /\ inState' = [inState EXCEPT ![e] = "processing"]
  /\ attempts' = [attempts EXCEPT ![e] = @ + 1]
  /\ Goto(p, "claimed")
  /\ at' = [at EXCEPT ![p] = e]
  /\ seen' = [seen EXCEPT ![e] = Recorded]
  /\ UNCHANGED <<started, inId, outbox, drafts, admin, process, consumer, turn, lock, dispVars,
                 wireVars, spent>>

\* Target paused, observe mode, chat not enrolled by the connector, or a
\* preflight that is not AUTO: the row is completed and no reply is made.
SkipEvent(p) ==
  /\ pc[p] = "claimed"
  /\ CompleteInbox(at[p])
  /\ Done(p)
  /\ UNCHANGED <<outbox, drafts, admin, process, consumer, lock, dispVars, wireVars,
                 history>>

Preflight(p) ==
  /\ pc[p] = "claimed"
  /\ mode # "observe"
  /\ Policy(at[p]) = "reply_allowed"
  /\ Goto(p, IF at[p] \in UsesModel THEN "context" ELSE "replied")
  /\ UNCHANGED <<store, admin, process, consumer, at, turn, lock, dispVars, wireVars,
                 history>>

\* mark_inbox_model_started, the durable boundary before provider I/O.
MarkInboxModelStarted(p) ==
  /\ pc[p] = "context"
  /\ turn[p] < MaxTurns
  /\ inState[at[p]] = "processing"
  /\ started' = [started EXCEPT ![at[p]] = TRUE]
  /\ turn' = [turn EXCEPT ![p] = @ + 1]
  /\ Goto(p, "marked")
  /\ UNCHANGED <<inState, attempts, inId, outbox, drafts, admin, process, consumer, at, lock, dispVars, wireVars,
                 history>>

\* model.generate: from here on the provider may charge for the claim.
Generate(p) ==
  /\ pc[p] = "marked"
  /\ spent' = [spent EXCEPT ![at[p]] = @ \cup {attempts[at[p]]}]
  /\ Goto(p, "provider")
  /\ UNCHANGED <<store, admin, process, consumer, at, turn, lock, dispVars, wireVars,
                 seen>>

\* The response is text, or tool calls, which are invoked before the next turn.
ModelResponds(p, step) ==
  /\ pc[p] = "provider"
  /\ step \in {"replied", "context"}
  /\ Goto(p, step)
  /\ UNCHANGED <<store, admin, process, consumer, at, turn, lock, dispVars, wireVars,
                 history>>

\* create_draft: one row per event, no dispatch.
CreateDraft(p) ==
  /\ pc[p] = "replied" /\ mode = "draft"
  /\ drafts' = drafts \cup {at[p]}
  /\ Goto(p, "created")
  /\ UNCHANGED <<inbox, outbox, admin, process, consumer, at, turn, lock, dispVars,
                 wireVars, history>>

\* Mutant: the gate is not exclusive.
CommitUnlocked(p) ==
  /\ pc[p] = "replied" /\ mode = "send"
  /\ Policy(at[p]) = "reply_allowed"
  /\ lock' = p
  /\ Goto(p, "gate")
  /\ UNCHANGED <<store, admin, process, consumer, at, turn, dispVars, wireVars, history>>

\* The commit gate: take side_effect_lock and judge the reply again.
CommitAllowed(p) ==
  /\ pc[p] = "replied" /\ mode = "send"
  /\ lock = None
  /\ Policy(at[p]) = "reply_allowed"
  /\ lock' = p
  /\ Goto(p, "gate")
  /\ UNCHANGED <<store, admin, process, consumer, at, turn, dispVars, wireVars, history>>

CommitRefused(p) ==
  /\ pc[p] = "replied" /\ mode = "send"
  /\ lock = None
  /\ Policy(at[p]) # "reply_allowed"
  /\ CompleteInbox(at[p])
  /\ Done(p)
  /\ UNCHANGED <<outbox, drafts, admin, process, consumer, lock, dispVars, wireVars,
                 history>>

\* create_outbox: a second reply to the event returns the first row.
CreateOutbox(p) ==
  /\ pc[p] = "gate"
  /\ IF outState[at[p]] # "absent" THEN UNCHANGED outbox
     ELSE /\ outState' = [outState EXCEPT ![at[p]] = "pending"]
          /\ due' = [due EXCEPT ![at[p]] = TRUE]
          /\ fresh' = [fresh EXCEPT ![at[p]] = TRUE]
          /\ outId' = [outId EXCEPT ![at[p]] =
                         1 + Cardinality({m \in Event : outState[m] # "absent"})]
  /\ Release(p)
  /\ Goto(p, "created")
  /\ UNCHANGED <<inbox, drafts, admin, process, consumer, at, turn, dispVars, wireVars,
                 history>>

FinishEvent(p) ==
  /\ pc[p] = "created"
  /\ CompleteInbox(at[p])
  /\ Done(p)
  /\ UNCHANGED <<outbox, drafts, admin, process, consumer, lock, dispVars, wireVars,
                 history>>

\* Mutants: a failure is retried after provider I/O, or once too often.
FailRetriesStarted(p, permanent) ==
  /\ pc[p] # "idle"
  /\ permanent => pc[p] # "claimed"
  /\ LET retry == ~permanent /\ attempts[at[p]] < MaxAttempts
     IN  inState' = [inState EXCEPT ![at[p]] = IF retry THEN "pending" ELSE "dead"]
  /\ Release(p)
  /\ Done(p)
  /\ UNCHANGED <<attempts, started, inId, outbox, drafts, admin, process, consumer, dispVars,
                 wireVars, history>>

\* Any exception, the task timeout included: fail_inbox.  A
\* PermanentPipelineError (never raised before the preflight) is not retried.
FailInbox(p, permanent) ==
  /\ pc[p] # "idle"
  /\ permanent => pc[p] # "claimed"
  /\ LET e == at[p]
         retry == /\ ~permanent
                  /\ e \notin Conversation
                  /\ ~started[e]
                  /\ attempts[e] < MaxAttempts
     IN  inState' = IF inState[e] # "processing" THEN inState
                    ELSE [inState EXCEPT ![e] = IF retry THEN "pending" ELSE "dead"]
  /\ Release(p)
  /\ Done(p)
  /\ UNCHANGED <<attempts, started, inId, outbox, drafts, admin, process, consumer, dispVars, wireVars, history>>

---------------------------------------------------------------------------
(* The dispatcher: _dispatch_loop, dispatch_once and _dispatch_reserved.   *)

DGoto(d, step) == dpc' = [dpc EXCEPT ![d] = step]

DDone(d) == DGoto(d, "idle") /\ dat' = [dat EXCEPT ![d] = None]

\* The loop looks at is_paused, then awaits dispatch_once.
WakeDispatcher(d) ==
  /\ up /\ dpc[d] = "idle" /\ ~paused
  /\ DGoto(d, "awake")
  /\ UNCHANGED <<store, admin, process, consumer, procVars, dat, wireVars, history>>

Dispatchable(m) == outState[m] = "pending" /\ due[m]

ReserveNextOutbox(d, m) ==
  /\ dpc[d] = "awake"
  /\ Dispatchable(m)
  /\ \A n \in Event : Dispatchable(n) => outId[m] <= outId[n]
  /\ outState' = [outState EXCEPT ![m] = "reserved"]
  /\ DGoto(d, "reserved")
  /\ dat' = [dat EXCEPT ![d] = m]
  /\ UNCHANGED <<due, fresh, outId, inbox, drafts, admin, process, consumer, procVars, wireVars, history>>

NothingToDispatch(d) ==
  /\ dpc[d] = "awake"
  /\ \A m \in Event : ~Dispatchable(m)
  /\ DGoto(d, "idle")
  /\ UNCHANGED <<store, admin, process, consumer, procVars, dat, wireVars, history>>

DispatchAllowed(d) ==
  /\ dpc[d] = "reserved"
  /\ Policy(dat[d]) = "reply_allowed"
  /\ DGoto(d, "allowed")
  /\ UNCHANGED <<store, admin, process, consumer, procVars, dat, wireVars, history>>

\* Mutant: a transient refusal leaves the row reserved.
DispatchRefusedKeeps(d) ==
  /\ dpc[d] = "reserved"
  /\ Policy(dat[d]) # "reply_allowed"
  /\ DDone(d)
  /\ UNCHANGED <<store, admin, process, consumer, procVars, wireVars, history>>

\* Mutant: delivery begins before DISPATCHING is persisted.
MarkDispatchingLate(d) ==
  /\ dpc[d] = "allowed"
  /\ DGoto(d, "delivering")
  /\ UNCHANGED <<store, admin, process, consumer, procVars, dat, wireVars, history>>

\* A transient refusal releases the reservation until next_attempt_at
\* (release_reserved), any other one is final (mark_reserved_dead).
DispatchRefused(d) ==
  /\ dpc[d] = "reserved"
  /\ Policy(dat[d]) # "reply_allowed"
  /\ IF outState[dat[d]] # "reserved" THEN UNCHANGED <<outState, due>>
     ELSE IF Policy(dat[d]) \in Transient
     THEN /\ outState' = [outState EXCEPT ![dat[d]] = "pending"]
          /\ due' = [due EXCEPT ![dat[d]] = FALSE]
     ELSE /\ outState' = [outState EXCEPT ![dat[d]] = "dead"]
          /\ UNCHANGED due
  /\ DDone(d)
  /\ UNCHANGED <<fresh, outId, inbox, drafts, admin, process, consumer, procVars, wireVars, history>>

MarkDispatching(d) ==
  /\ dpc[d] = "allowed"
  /\ IF outState[dat[d]] = "reserved"
     THEN /\ outState' = [outState EXCEPT ![dat[d]] = "dispatching"]
          /\ DGoto(d, "delivering")
          /\ UNCHANGED dat
     ELSE DDone(d) /\ UNCHANGED outState
  /\ UNCHANGED <<due, fresh, outId, inbox, drafts, admin, process, consumer, procVars, wireVars, history>>

\* connector.deliver issues its one send request.  From now on nothing local
\* can tell whether WeChat acts on it.
Send(d) ==
  /\ dpc[d] = "delivering"
  /\ wire' = wire \cup {dat[d]}
  /\ sends' = [sends EXCEPT ![dat[d]] = @ + 1]
  /\ DGoto(d, "sent")
  /\ UNCHANGED <<store, admin, process, consumer, procVars, dat, remote, history>>

\* External: WeChat acts on the request whenever it likes, or never.
WechatShows(m) ==
  /\ m \in wire
  /\ wire' = wire \ {m}
  /\ remote' = remote \cup {m}
  /\ UNCHANGED <<store, admin, process, consumer, procVars, dispVars, sends, history>>

\* External: what deliver may return.  ACKNOWLEDGED needs the message read back
\* from the chat, FAILED is only returned before the request is issued.
Receipts(d) ==
  {"unknown"} \cup (IF dat[d] \in remote THEN {"acknowledged"} ELSE {})
              \cup (IF dpc[d] = "delivering" THEN {"dead"} ELSE {})

\* apply_receipt; an exception or the delivery timeout is mark_outbox_unknown,
\* which has the effect of an UNKNOWN receipt.
ApplyReceipt(d, receipt) ==
  /\ dpc[d] \in {"delivering", "sent"}
  /\ receipt \in Receipts(d)
  /\ outState' = IF outState[dat[d]] # "dispatching" THEN outState
                 ELSE [outState EXCEPT ![dat[d]] = receipt]
  /\ DDone(d)
  /\ UNCHANGED <<due, fresh, outId, inbox, drafts, admin, process, consumer, procVars, wireVars, history>>

---------------------------------------------------------------------------
(* Time, the administrator and the process.                                *)

\* next_attempt_at is reached.
RetryDue(m) ==
  /\ outState[m] = "pending" /\ ~due[m]
  /\ due' = [due EXCEPT ![m] = TRUE]
  /\ UNCHANGED <<outState, fresh, outId, inbox, drafts, admin, process, consumer, procVars, dispVars, wireVars,
                 history>>

\* created_at leaves the rate window, in the order of creation (a window that
\* cannot fill is not tracked).
WindowPasses(m) ==
  /\ ReplyQuota # 0 \/ GlobalQuota < Cardinality(Event)
  /\ outState[m] # "absent" /\ fresh[m]
  /\ \A n \in Event : outState[n] # "absent" /\ fresh[n]
                        => outId[m] <= outId[n]
  /\ fresh' = [fresh EXCEPT ![m] = FALSE]
  /\ UNCHANGED <<outState, due, outId, inbox, drafts, admin, process, consumer, procVars, dispVars, wireVars,
                 history>>

\* The local clock enters or leaves the quiet hours.
QuietHoursTurn ==
  /\ HasQuietHours
  /\ quiet' = ~quiet
  /\ UNCHANGED <<store, paused, allowed, pauses, process, consumer, procVars, dispVars,
                 wireVars, history>>

\* set_paused(True) by the administrator, the emergency stop or the connector;
\* the last two do not wait for side_effect_lock.
Pause ==
  /\ ~paused /\ pauses < MaxPauses
  /\ paused' = TRUE
  /\ pauses' = pauses + 1
  /\ UNCHANGED <<store, quiet, allowed, process, consumer, procVars, dispVars, wireVars,
                 history>>

\* set_pause(False) holds side_effect_lock.
Resume ==
  /\ paused /\ lock = None
  /\ paused' = FALSE
  /\ UNCHANGED <<store, quiet, allowed, pauses, process, consumer, procVars, dispVars, wireVars,
                 history>>

\* reconcile_unknown_outbox: an operator closes an ambiguous send, online or not.
ReconcileUnknown(m, outcome) ==
  /\ outState[m] = "unknown"
  /\ outcome \in {"acknowledged", "dead"}
  /\ outState' = [outState EXCEPT ![m] = outcome]
  /\ UNCHANGED <<due, fresh, outId, inbox, drafts, admin, process, consumer, procVars, dispVars, wireVars,
                 history>>

\* The process dies, or serve() cancels its tasks: CancelledError is no
\* Exception, so neither fail_inbox nor mark_outbox_unknown runs.
Stop ==
  /\ up /\ stops < MaxStops
  /\ up' = FALSE
  /\ stops' = stops + 1
  /\ consumer' = None
  /\ pc' = [p \in Processor |-> "idle"]
  /\ at' = [p \in Processor |-> None]
  /\ turn' = [p \in Processor |-> 0]
  /\ lock' = None
  /\ dpc' = [d \in Dispatcher |-> "idle"]
  /\ dat' = [d \in Dispatcher |-> None]
  /\ UNCHANGED <<store, admin, mode, wireVars, history>>

\* Mutants: recovery passes over recent claims or reservations, requeues what may
\* have been charged or sent, or writes a state the table does not have.
RecoveredInboxStrands(e, late) ==
  IF inState[e] = "processing" /\ started[e] THEN "dead" ELSE inState[e]

RecoveredInboxRequeues(e, late) ==
  IF inState[e] = "processing" THEN "pending" ELSE inState[e]

RecoveredOutboxResends(m, late) ==
  IF outState[m] \in {"reserved", "dispatching"} THEN "pending" ELSE outState[m]

\* recover_interrupted(stale_after=0).  claimed_at and reserved_at are compared
\* with the restart's clock: a row stamped in its future (late) is passed over.
RecoveredInbox(e, late) ==
  IF inState[e] # "processing" \/ e \in late THEN inState[e]
  ELSE IF started[e] THEN "dead" ELSE "pending"

RecoveredOutbox(m, late) ==
  CASE outState[m] = "reserved" /\ m \notin late -> "pending"
    [] outState[m] = "dispatching" -> "unknown"
    [] OTHER -> outState[m]

\* LemonbotRuntime.initialize: recovery, then the configured allowlist.
Start(late, chats, m) ==
  /\ ~up
  /\ late # {} => ClockStepsBack
  /\ up' = TRUE
  /\ inState' = [e \in Event |-> RecoveredInbox(e, late)]
  /\ outState' = [e \in Event |-> RecoveredOutbox(e, late)]
  /\ due' = [e \in Event |-> due[e] \/ (outState[e] = "reserved" /\ e \notin late)]
  /\ allowed' = chats
  /\ mode' = m
  /\ UNCHANGED <<attempts, started, inId, fresh, outId, drafts, paused, quiet, pauses, stops, consumer, procVars,
                 dispVars, wireVars, history>>

---------------------------------------------------------------------------

Init ==
  /\ inState = [e \in Event |-> "absent"]
  /\ attempts = [e \in Event |-> 0]
  /\ started = [e \in Event |-> FALSE]
  /\ inId = [e \in Event |-> 0]
  /\ outState = [e \in Event |-> "absent"]
  /\ due = [e \in Event |-> FALSE]
  /\ fresh = [e \in Event |-> FALSE]
  /\ outId = [e \in Event |-> 0]
  /\ drafts = {}
  /\ paused = FALSE
  /\ quiet = FALSE
  /\ allowed = {}
  /\ up = FALSE
  /\ mode \in Modes
  /\ consumer = None
  /\ pc = [p \in Processor |-> "idle"]
  /\ at = [p \in Processor |-> None]
  /\ turn = [p \in Processor |-> 0]
  /\ lock = None
  /\ dpc = [d \in Dispatcher |-> "idle"]
  /\ dat = [d \in Dispatcher |-> None]
  /\ wire = {}
  /\ remote = {}
  /\ sends = [e \in Event |-> 0]
  /\ spent = [e \in Event |-> {}]
  /\ seen = [e \in Event |-> {}]
  /\ stops = 0
  /\ pauses = 0

Consume == RecordInbound \/ \E e \in Event : Receive(e)

Process(p) ==
  \/ \E e \in Event : ClaimNextInbox(p, e)
  \/ SkipEvent(p) \/ Preflight(p)
  \/ MarkInboxModelStarted(p) \/ Generate(p)
  \/ \E step \in {"replied", "context"} : ModelResponds(p, step)
  \/ CreateDraft(p) \/ CommitAllowed(p) \/ CommitRefused(p)
  \/ CreateOutbox(p) \/ FinishEvent(p)
  \/ \E permanent \in BOOLEAN : FailInbox(p, permanent)

Dispatch(d) ==
  \/ WakeDispatcher(d) \/ NothingToDispatch(d)
  \/ \E m \in Event : ReserveNextOutbox(d, m)
  \/ DispatchAllowed(d) \/ DispatchRefused(d) \/ MarkDispatching(d)
  \/ Send(d)
  \/ \E receipt \in {"acknowledged", "unknown", "dead"} : ApplyReceipt(d, receipt)

Wechat == \E m \in Event : WechatShows(m)

Clock == QuietHoursTurn \/ \E m \in Event : RetryDue(m) \/ WindowPasses(m)

Operator ==
  \/ Pause \/ Resume
  \/ \E m \in Event, outcome \in {"acknowledged", "dead"} : ReconcileUnknown(m, outcome)

Startup ==
  \E late \in SUBSET Event, chats \in SUBSET Chat, m \in Modes : Start(late, chats, m)

Next ==
  \/ Consume
  \/ \E p \in Processor : Process(p)
  \/ \E d \in Dispatcher : Dispatch(d)
  \/ Wechat \/ Clock \/ Operator \/ Stop \/ Startup

Spec == Init /\ [][Next]_vars

\* The tasks of serve() run until the process stops, every wait of theirs ends
\* in a timeout, and a service manager starts a stopped process again.
Fairness ==
  /\ WF_vars(RecordInbound)
  /\ \A p \in Processor : WF_vars(Process(p))
  /\ \A d \in Dispatcher : WF_vars(Dispatch(d))
  /\ \A m \in Event : WF_vars(RetryDue(m)) /\ WF_vars(WindowPasses(m))
  /\ WF_vars(Startup)

FairSpec == Spec /\ Fairness

---------------------------------------------------------------------------
(* Correctness.                                                            *)

ProcessorStep ==
  {"idle", "claimed", "context", "marked", "provider", "replied", "gate", "created"}
DispatcherStep == {"idle", "awake", "reserved", "allowed", "delivering", "sent"}

\* Every row, worker and history variable keeps its shape.
TypeOK ==
  /\ inState \in [Event -> InboxState]
  /\ attempts \in [Event -> Nat]
  /\ started \in [Event -> BOOLEAN]
  /\ inId \in [Event -> Nat]
  /\ outState \in [Event -> OutboxState]
  /\ due \in [Event -> BOOLEAN]
  /\ fresh \in [Event -> BOOLEAN]
  /\ outId \in [Event -> Nat]
  /\ drafts \subseteq Event
  /\ paused \in BOOLEAN
  /\ quiet \in BOOLEAN
  /\ allowed \subseteq Chat
  /\ up \in BOOLEAN
  /\ mode \in Modes
  /\ consumer \in Event \cup {None}
  /\ pc \in [Processor -> ProcessorStep]
  /\ at \in [Processor -> Event \cup {None}]
  /\ turn \in [Processor -> Nat]
  /\ lock \in Processor \cup {None}
  /\ dpc \in [Dispatcher -> DispatcherStep]
  /\ dat \in [Dispatcher -> Event \cup {None}]
  /\ wire \subseteq Event
  /\ remote \subseteq Event
  /\ sends \in [Event -> Nat]
  /\ spent \in [Event -> SUBSET Nat]
  /\ seen \in [Event -> SUBSET Event]
  /\ stops \in Nat
  /\ pauses \in Nat

\* No reply is ever sent twice: whatever the order of crashes, restarts, receipts,
\* timeouts, deferrals and retried events, deliver issues at most one request per
\* message ("Quarantine instead of retrying blindly", pipeline.py _dispatch_reserved).
SendOnce == \A m \in Event : sends[m] <= 1

\* No event is paid for in two claims: once provider I/O may have begun, neither
\* fail_inbox nor recover_interrupted lets another claim call the provider.
ModelChainOnce == \A e \in Event : \A a, b \in spent[e] : a = b

\* Per-chat FIFO of claim_next_inbox, end to end: when an event was claimed, every
\* earlier event of its chat that was already recorded had been settled for good,
\* and no retry or recovery brings one of them back afterwards.
FifoPerChat ==
  \A e, f \in Event :
    e \in seen[f] /\ ChatOf[e] = ChatOf[f] /\ Earlier(e, f)
      => inState[e] \in {"completed", "dead"}

\* The commit gate closes the quota race (pipeline.py _process_claimed): the replies
\* of a chat, and of the channel, that count in the current window never exceed
\* their quota, however many processors decide at once, whatever failed or was
\* closed by an operator, and whatever was created before a crash.
QuotaRespected ==
  /\ Cardinality(Counted) <= GlobalQuota
  /\ ReplyQuota # 0 =>
       \A c \in Chat : Cardinality(Counted \cap OfChat(c)) <= ReplyQuota

\* A row in work is in somebody's hands: while a process runs, exactly one
\* processor holds each processing row and one dispatcher each reserved or
\* dispatching row, so nothing is stranded after recover_interrupted.
NoOrphanRow ==
  up => /\ \A e \in Event : inState[e] = "processing"
             => \E p \in Processor : at[p] = e
        /\ \A m \in Event : outState[m] \in {"reserved", "dispatching"}
             => \E d \in Dispatcher : dat[d] = m

\* No event is worked on for ever: fail_inbox's max_attempts (one for an event of a
\* conversation) bounds the claims, except that each stop of the process, whose
\* recovery looks at no counter, may add one.
RetryBudget ==
  \A e \in Event :
    attempts[e] <= stops + (IF e \in Conversation THEN 1 ELSE MaxAttempts)

\* An event whose answer took the model is answered by a draft or by a reply, never
\* both, even if the process restarts in another output mode: the mark of
\* mark_inbox_model_started keeps recover_interrupted from requeueing it.
DraftOrReply ==
  \A e \in UsesModel : e \in drafts => outState[e] = "absent"

\* Settled rows stay settled: a completed or dead event, an acknowledged or dead
\* message is never worked on again, and an unknown message only leaves its
\* quarantine to be closed by an operator.
SettledForever ==
  [][\A e \in Event :
       /\ inState[e] \in {"completed", "dead"} => inState'[e] = inState[e]
       /\ outState[e] \in {"acknowledged", "dead"} => outState'[e] = outState[e]
       /\ outState[e] = "unknown" => outState'[e] \in {"unknown", "acknowledged", "dead"}]_vars

\* Every recorded event is eventually completed or given up, whatever fails.
InboxSettles ==
  \A e \in Event :
    inState[e] \in {"pending", "processing"} ~> inState[e] \in {"completed", "dead"}

\* If the channel is in the end neither paused nor quiet, every reply reaches an outcome.
OutboxSettles ==
  <>[](~paused /\ ~quiet) =>
    \A m \in Event :
      outState[m] \in {"pending", "reserved", "dispatching"}
        ~> outState[m] \in {"acknowledged", "dead", "unknown"}
---------------------------------------------------------------------------
(* Refinement.                                                             *)

\* A row's state as ReplyDelivery sees it.
FateOf(state) ==
  CASE state = "absent" -> "none"
    [] state \in {"pending", "reserved"} -> "queued"
    [] state = "dispatching" -> "committed"
    [] state = "acknowledged" -> "delivered"
    [] state = "unknown" -> "unknown"
    [] state = "dead" -> "dropped"

Delivery == INSTANCE ReplyDelivery WITH
  Message <- Event,
  fate <- [m \in Event |-> FateOf(outState[m])],
  asked <- sends,
  shown <- remote

\* The pipeline implements ReplyDelivery: the reservation, deferral, retry and
\* recovery of rows never add a second commit or a second request, and the
\* program never calls delivered what WeChat does not show.
DeliversOnce == Delivery!Spec

---------------------------------------------------------------------------
(* The inductive invariant of the proofs.                                     *)

\* A worker holds a row exactly while it works, alone, and in the state its step
\* presumes: the compare-and-set of every repository method succeeds.
ProcessorOwns ==
  \A p \in Processor :
    /\ pc[p] = "idle" <=> at[p] = None
    /\ at[p] # None => inState[at[p]] = "processing"
    /\ \A q \in Processor : at[p] # None /\ at[p] = at[q] => p = q

DispatcherOwns ==
  \A d \in Dispatcher :
    /\ dpc[d] \in {"idle", "awake"} <=> dat[d] = None
    /\ dpc[d] \in {"reserved", "allowed"} => outState[dat[d]] = "reserved"
    /\ dpc[d] \in {"delivering", "sent"} => outState[dat[d]] = "dispatching"
    /\ \A c \in Dispatcher : dat[d] # None /\ dat[d] = dat[c] => d = c

Ownership == ProcessorOwns /\ DispatcherOwns

\* A stopped process holds nothing.
StoppedIsIdle ==
  ~up => /\ consumer = None
         /\ \A p \in Processor : pc[p] = "idle"
         /\ \A d \in Dispatcher : dpc[d] = "idle"

\* A message that may still be sent has never been sent.
UnsentBeforeDispatch ==
  /\ \A m \in Event : outState[m] \in {"absent", "pending", "reserved"} => sends[m] = 0
  /\ \A d \in Dispatcher : dpc[d] = "delivering" => sends[dat[d]] = 0
  /\ \A m \in wire : sends[m] = 1

\* Provider I/O is behind the durable mark, in the current claim, and the mark
\* bars the row from being claimed again.
SpentIsMarked ==
  /\ \A e \in Event :
       /\ spent[e] \subseteq {attempts[e]}
       /\ spent[e] # {} => started[e]
       /\ started[e] => inState[e] \in {"processing", "completed", "dead"}
  /\ \A p \in Processor : pc[p] = "marked" => started[at[p]]

\* Whatever a claim saw, and the claimed row itself, is in the table for good.
SeenIsRecorded ==
  \A f \in Event : seen[f] # {} => f \in Recorded /\ seen[f] \subseteq Recorded

\* A row that can still be claimed, now or after a restart, has a claim left.
ClaimLeft ==
  \A e \in Event :
    inState[e] = "pending" \/ (inState[e] = "processing" /\ ~up)
      => attempts[e] < stops + (IF e \in Conversation THEN 1 ELSE MaxAttempts)

\* A model answer was made behind the mark, and its worker has nothing left to
\* create.
AnswerIsMarked ==
  /\ \A e \in UsesModel :
       e \in drafts \/ outState[e] # "absent"
         => started[e] /\ \A p \in Processor : at[p] = e => pc[p] = "created"
  /\ \A p \in Processor :
       at[p] \in UsesModel /\ pc[p] \in {"provider", "replied", "gate", "created"}
         => started[at[p]]

\* What WeChat shows was asked for.
ShownWasSent == \A m \in remote : sends[m] = 1

\* Behind the gate there is room for the reply, and nobody else is behind it.
GateLeavesRoom ==
  \A p \in Processor : pc[p] = "gate" =>
    /\ lock = p
    /\ ~ChatQuotaReached(at[p]) /\ ~GlobalQuotaReached(at[p])

QuotaInv == GateLeavesRoom /\ QuotaRespected

\* The conjunction TLAPS shows to be inductive.
IInv ==
  /\ TypeOK
  /\ Ownership
  /\ StoppedIsIdle
  /\ UnsentBeforeDispatch
  /\ SendOnce
  /\ SpentIsMarked
  /\ SeenIsRecorded
  /\ FifoPerChat
  /\ ClaimLeft
  /\ RetryBudget
  /\ AnswerIsMarked
  /\ DraftOrReply
  /\ ShownWasSent
============================================================================
