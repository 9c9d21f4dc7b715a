---------------------------- MODULE AgentRuntime ----------------------------
(***************************************************************************)
(* The WeChat channel at run time in conversation mode: the connector's    *)
(* operation lock, signals and sticky pause                                *)
(* (connectors/wechat_agent_runtime.py), reception from several chats by   *)
(* anchors (connectors/wechat_agent_conversation.py) and the loops of the  *)
(* runtime that use them (runtime.py).  The tasks of one asyncio loop, the *)
(* consumer, the processor, the dispatcher and the administrator, change   *)
(* hands at every await; the process may stop at any of them.              *)
(*                                                                         *)
(* An event is the n-th message of a chat.  What a turn of the model does  *)
(* is the subject of EventPipeline; here it ends in a reply, in silence or *)
(* in a failure.  Waits that end by a timeout of a second (work_available, *)
(* wait_for_changes, the sleeps of the loops) are steps that may be taken  *)
(* at any time.                                                            *)
(***************************************************************************)
EXTENDS Naturals

CONSTANTS
  Target,        \* bound conversations
  NoEvent,       \* no event in hand
  MaxLog,        \* bound: messages per conversation
  SlowDelivery,  \* may a delivery exceed delivery_timeout_seconds?
  StartMayFail,  \* may _build_connector raise?
  Request,       \* what administrators ask for: <<"pause" or "resume", row>>
  MaxAsks,       \* bound: requests of the administrator
  MaxStops       \* bound: how often the process stops

Event == Target \X (1 .. MaxLog)

ASSUME AgentAssumption ==
  /\ MaxLog \in Nat /\ MaxAsks \in Nat /\ MaxStops \in Nat
  /\ SlowDelivery \in BOOLEAN /\ StartMayFail \in BOOLEAN
  /\ NoEvent \notin Event
  /\ Request \subseteq {"pause", "resume"} \X {"channel", "global"}

VARIABLES
  log,                       \* messages of each conversation in WeChat
  anchor,                    \* child.anchors: the last message read
  failing, failingFile,      \* target_pauses, and targets-paused.json
  ready, halted,             \* ready, and transport.paused
  pauseFile, rows,           \* paused.json, and the pause rows of the repository
  opLock, sideLock,          \* operation_lock, and side_effect_lock in set_pause
  idle, settled,             \* processing_idle, work_settled
  inbox, outbox,             \* rows of the repository, per event
  cpc, batch, hand,          \* the consumer: step, events to yield, event to ingest
  ppc, pat,                  \* the processor: step, claimed event
  dpc, dat,                  \* the dispatcher: step, reserved event
  apc, scope, asks,          \* the administrator: step, row asked for, requests
  phase, interrupted, stops, \* the process; recovery["outbox_unknown"] > 0
  doubt, stopped, downtime   \* history: see below

chats == <<log, anchor, failing, failingFile>>
pauses == <<ready, halted, pauseFile, rows>>
signals == <<idle, settled>>
tables == <<inbox, outbox>>
consumer == <<cpc, batch, hand>>
processor == <<ppc, pat>>
dispatcher == <<dpc, dat>>
admin == <<apc, scope, asks, sideLock>>
process == <<phase, interrupted, stops>>
history == <<doubt, stopped, downtime>>
vars == <<chats, pauses, opLock, signals, tables, consumer, processor, dispatcher,
          admin, process, history>>

Up == phase = "serving"
Paused == rows # {}
ActiveInbox == \E e \in Event : inbox[e] \in {"pending", "processing", "started"}
ActiveOutbox == \E e \in Event : outbox[e] \in {"pending", "reserved", "dispatching"}

---------------------------------------------------------------------------
(* The sticky pause.  Its reason file is durable before the row is.        *)

Take(task) == opLock = "free" /\ opLock' = task
Free == opLock' = "free"

\* Mutant: the marker is not written, only the row that follows.
MarkPausedInMemory ==
  /\ ready' = FALSE /\ halted' = TRUE
  /\ stopped' = TRUE
  /\ UNCHANGED <<pauseFile, rows>>

\* _pause up to its first await.
MarkPaused ==
  /\ ready' = FALSE /\ halted' = TRUE /\ pauseFile' = TRUE
  /\ stopped' = TRUE
  /\ UNCHANGED rows

\* The rest of _pause.
MarkPausedRow ==
  /\ rows' = rows \cup {"channel"}
  /\ UNCHANGED <<ready, halted, pauseFile>>

---------------------------------------------------------------------------
(* The consumer: events() and _consume_loop.                               *)

\* await processing_idle.wait()
AwaitIdle ==
  /\ Up /\ cpc = "top" /\ idle
  /\ cpc' = "settle"
  /\ UNCHANGED <<chats, pauses, opLock, signals, tables, batch, hand, processor,
                 dispatcher, admin, process, history>>

\* await work_settled.wait(), then the lock.
AwaitSettled ==
  /\ Up /\ cpc = "settle" /\ settled
  /\ Take("consumer")
  /\ cpc' = "check"
  /\ UNCHANGED <<chats, pauses, signals, tables, batch, hand, processor, dispatcher,
                 admin, process, history>>

CheckReady ==
  /\ cpc = "check"
  /\ IF ready /\ idle /\ ~Paused THEN cpc' = "active" /\ UNCHANGED opLock
     ELSE cpc' = "top" /\ Free
  /\ UNCHANGED <<chats, pauses, signals, tables, batch, hand, processor, dispatcher,
                 admin, process, history>>

\* has_active_inbox
CheckInbox ==
  /\ cpc = "active"
  /\ IF ActiveInbox THEN cpc' = "top" /\ Free /\ settled' = FALSE
     ELSE cpc' = "active2" /\ UNCHANGED <<opLock, settled>>
  /\ UNCHANGED <<chats, pauses, idle, tables, batch, hand, processor, dispatcher, admin,
                 process, history>>

\* Mutant: replies in the outbox do not hold up reception.
CheckNoOutbox ==
  /\ cpc = "active2"
  /\ cpc' = "poll"
  /\ UNCHANGED <<chats, pauses, opLock, signals, tables, batch, hand, processor,
                 dispatcher, admin, process, history>>

\* has_active_outbox, a read of its own.
CheckOutbox ==
  /\ cpc = "active2"
  /\ IF ActiveOutbox THEN cpc' = "top" /\ Free /\ settled' = FALSE
     ELSE cpc' = "poll" /\ UNCHANGED <<opLock, settled>>
  /\ UNCHANGED <<chats, pauses, idle, tables, batch, hand, processor, dispatcher, admin,
                 process, history>>

\* poll() without a notification, less than a minute after the last read.
PollNothing ==
  /\ cpc = "poll" /\ ~halted
  /\ cpc' = "top" /\ Free
  /\ UNCHANGED <<chats, pauses, signals, tables, batch, hand, processor, dispatcher,
                 admin, process, history>>

\* What _cycle returns if the rows of each conversation are good up to good[t].
Read(good) == {e \in Event : anchor[e[1]] < e[2] /\ e[2] <= good[e[1]]}

\* poll(): the conversations in bad fail (a lost anchor, a bad row) and are paused,
\* the others move their anchors.
Poll ==
  /\ cpc = "poll" /\ ~halted
  /\ \E bad \in SUBSET (Target \ failing), good \in [Target -> 0 .. MaxLog] :
       /\ \A t \in Target :
            IF t \in failing THEN good[t] = anchor[t]
            ELSE IF t \in bad
            THEN anchor[t] <= good[t] /\ good[t] <= log[t]
            ELSE good[t] = log[t]
       /\ failing \cup bad # Target
       /\ failing' = failing \cup bad
       /\ failingFile' = IF bad = {} THEN failingFile ELSE failing \cup bad
       /\ anchor' = [t \in Target |-> IF t \in failing \cup bad THEN anchor[t] ELSE log[t]]
       /\ batch' = Read(good)
       /\ settled' = (settled /\ Read(good) = {})
  /\ cpc' = "yield" /\ Free
  /\ UNCHANGED <<log, pauses, idle, tables, hand, processor, dispatcher, admin, process,
                 history>>

\* poll() raises LabPaused: the account, the snapshot, the notifications or the last
\* conversations fail.
PollFails ==
  /\ cpc = "poll"
  /\ \E bad \in SUBSET (Target \ failing) :
       /\ failing' = failing \cup bad
       /\ failingFile' = IF bad = {} THEN failingFile ELSE failing \cup bad
  /\ MarkPaused
  /\ cpc' = "pauseRow"
  /\ UNCHANGED <<log, anchor, opLock, signals, tables, batch, hand, processor,
                 dispatcher, admin, process, doubt, downtime>>

PollPauseRow ==
  /\ cpc = "pauseRow"
  /\ MarkPausedRow
  /\ cpc' = "top" /\ Free
  /\ UNCHANGED <<chats, signals, tables, batch, hand, processor, dispatcher, admin,
                 process, history>>

\* The rows of one conversation are yielded in their order.
FirstOf(e) == e \in batch /\ \A f \in batch : f[1] = e[1] => e[2] <= f[2]

\* _consume_loop looks whether the channel is paused.
Yield(e) ==
  /\ cpc = "yield" /\ FirstOf(e)
  /\ batch' = batch \ {e}
  /\ IF Paused THEN UNCHANGED <<cpc, hand>> ELSE cpc' = "ingest" /\ hand' = e
  /\ UNCHANGED <<chats, pauses, opLock, signals, tables, processor, dispatcher, admin,
                 process, history>>

\* ingest
Ingest ==
  /\ cpc = "ingest"
  /\ inbox' = [inbox EXCEPT ![hand] = IF @ = "none" THEN "pending" ELSE @]
  /\ cpc' = "yield" /\ hand' = NoEvent
  /\ UNCHANGED <<chats, pauses, opLock, signals, outbox, batch, processor, dispatcher,
                 admin, process, history>>

EndBatch ==
  /\ cpc = "yield" /\ batch = {}
  /\ cpc' = "top"
  /\ UNCHANGED <<chats, pauses, opLock, signals, tables, batch, hand, processor,
                 dispatcher, admin, process, history>>

---------------------------------------------------------------------------
(* The processor: _process_loop, processing_operation and process_once.    *)

\* The gate: ready, idle and, a read of the store, no reply on its way.
ProcessGate ==
  /\ Up /\ ppc = "gate" /\ ready /\ idle /\ ~ActiveOutbox
  /\ ppc' = "enter"
  /\ UNCHANGED <<chats, pauses, opLock, signals, tables, consumer, pat, dispatcher, admin,
                 process, history>>

\* Mutant: the mutex of the user interface is kept for the whole turn.
ProcessEnterKeeps ==
  /\ ppc = "enter" /\ Take("processor")
  /\ idle' = FALSE
  /\ ppc' = "claim"
  /\ UNCHANGED <<chats, pauses, settled, tables, consumer, pat, dispatcher, admin, process,
                 history>>

\* processing_operation holds the lock only to clear processing_idle.
ProcessEnter ==
  /\ ppc = "enter" /\ opLock = "free"
  /\ idle' = FALSE
  /\ ppc' = "claim"
  /\ UNCHANGED <<chats, pauses, opLock, settled, tables, consumer, pat, dispatcher, admin,
                 process, history>>

\* claim_next_inbox: first in, first out within a chat.
ProcessClaim(e) ==
  /\ ppc = "claim" /\ inbox[e] = "pending"
  /\ \A n \in 1 .. (e[2] - 1) : inbox[<<e[1], n>>] \notin {"pending", "processing", "started"}
  /\ inbox' = [inbox EXCEPT ![e] = "processing"]
  /\ ppc' = "claimed" /\ pat' = e
  /\ UNCHANGED <<chats, pauses, opLock, signals, outbox, consumer, dispatcher, admin,
                 process, history>>

\* IDLE
ProcessNothing ==
  /\ ppc = "claim" /\ \A e \in Event : inbox[e] # "pending"
  /\ idle' = TRUE
  /\ ppc' = "settle"
  /\ UNCHANGED <<chats, pauses, opLock, settled, tables, consumer, pat, dispatcher, admin,
                 process, history>>

\* After IDLE, two reads decide whether reception may go on.
ProcessSettleInbox ==
  /\ ppc = "settle"
  /\ ppc' = IF ActiveInbox THEN "gate" ELSE "settle2"
  /\ UNCHANGED <<chats, pauses, opLock, signals, tables, consumer, pat, dispatcher, admin,
                 process, history>>

\* Mutant: reception is not released.
ProcessSettleNot ==
  /\ ppc = "settle2"
  /\ ppc' = "gate"
  /\ UNCHANGED <<chats, pauses, opLock, signals, tables, consumer, pat, dispatcher, admin,
                 process, history>>

ProcessSettleOutbox ==
  /\ ppc = "settle2"
  /\ settled' = (settled \/ ~ActiveOutbox)
  /\ ppc' = "gate"
  /\ UNCHANGED <<chats, pauses, opLock, idle, tables, consumer, pat, dispatcher, admin,
                 process, history>>

\* The turn ends with the row in state s and processing_idle set.
EndTurn(s, next) ==
  /\ inbox' = [inbox EXCEPT ![pat] = s]
  /\ idle' = TRUE
  /\ ppc' = next /\ pat' = NoEvent

CanProcess == ~halted /\ pat[1] \notin failing

\* SKIPPED: event_eligible or the preflight refuses.
ProcessSkip ==
  /\ ppc = "claimed" /\ (~CanProcess \/ Paused)
  /\ EndTurn("done", "gate")
  /\ UNCHANGED <<chats, pauses, opLock, settled, outbox, consumer, dispatcher, admin,
                 process, history>>

\* mark_model_started
ProcessStart ==
  /\ ppc = "claimed" /\ CanProcess /\ ~Paused
  /\ inbox' = [inbox EXCEPT ![pat] = "started"]
  /\ ppc' = "generating"
  /\ UNCHANGED <<chats, pauses, opLock, signals, outbox, consumer, pat, dispatcher, admin,
                 process, history>>

\* Under side_effect_lock: the final policy, then create_outbox.
ProcessCommit ==
  /\ ppc = "generating" /\ ~sideLock /\ ~Paused
  /\ outbox' = [outbox EXCEPT ![pat] = "pending"]
  /\ ppc' = "complete"
  /\ UNCHANGED <<chats, pauses, opLock, signals, inbox, consumer, pat, dispatcher, admin,
                 process, history>>

\* The final policy refuses.
ProcessRefused ==
  /\ ppc = "generating" /\ ~sideLock /\ Paused
  /\ EndTurn("done", "gate")
  /\ UNCHANGED <<chats, pauses, opLock, settled, outbox, consumer, dispatcher, admin,
                 process, history>>

\* complete_inbox
ProcessComplete ==
  /\ ppc = "complete"
  /\ EndTurn("done", "gate")
  /\ UNCHANGED <<chats, pauses, opLock, settled, outbox, consumer, dispatcher, admin,
                 process, history>>

\* DEAD: a turn of a conversation is never retried.
ProcessDead ==
  /\ ppc \in {"claimed", "generating", "complete"}
  /\ EndTurn("dead", "pause")
  /\ UNCHANGED <<chats, pauses, opLock, settled, outbox, consumer, dispatcher, admin,
                 process, history>>

\* pause("ModelReplyFailed")
ProcessPause ==
  /\ ppc = "pause" /\ Take("processor")
  /\ MarkPaused
  /\ ppc' = "pauseRow"
  /\ UNCHANGED <<chats, signals, tables, consumer, pat, dispatcher, admin, process, doubt,
                 downtime>>

ProcessPauseRow ==
  /\ ppc = "pauseRow"
  /\ MarkPausedRow
  /\ ppc' = "gate" /\ Free
  /\ UNCHANGED <<chats, signals, tables, consumer, pat, dispatcher, admin, process, history>>

---------------------------------------------------------------------------
(* The dispatcher: _dispatch_loop, _dispatch_reserved and deliver().       *)

\* reserve_next_outbox, unless the loop finds the channel paused.
Reserve(e) ==
  /\ Up /\ dpc = "loop" /\ ~Paused /\ outbox[e] = "pending"
  /\ outbox' = [outbox EXCEPT ![e] = "reserved"]
  /\ dpc' = "evaluate" /\ dat' = e
  /\ UNCHANGED <<chats, pauses, opLock, signals, inbox, consumer, processor, admin,
                 process, history>>

\* The row leaves the dispatcher's hands in state s.
Settle(s, next) ==
  /\ outbox' = [outbox EXCEPT ![dat] = s]
  /\ dpc' = next /\ dat' = NoEvent

\* The policy: paused is transient, another refusal is final.
Refused ==
  /\ dpc = "evaluate"
  /\ Settle(IF Paused THEN "pending" ELSE "dead", "loop")
  /\ UNCHANGED <<chats, pauses, opLock, signals, inbox, consumer, processor, admin,
                 process, history>>

\* The policy agrees, then mark_dispatching.
MarkDispatching ==
  /\ dpc = "evaluate" /\ ~Paused
  /\ outbox' = [outbox EXCEPT ![dat] = "dispatching"]
  /\ dpc' = "deliver"
  /\ UNCHANGED <<chats, pauses, opLock, signals, inbox, consumer, processor, dat, admin,
                 process, history>>

\* deliver() waits for processing_idle and for the lock, and again if a turn has begun by
\* then.
DeliverLock ==
  /\ dpc = "deliver" /\ idle /\ Take("dispatcher")
  /\ dpc' = "locked"
  /\ UNCHANGED <<chats, pauses, signals, tables, consumer, processor, dat, admin, process,
                 history>>

\* Paused since the policy was asked: raises, and the reply is quarantined.
DeliverCheck ==
  /\ dpc = "locked"
  /\ IF ~ready \/ Paused THEN dpc' = "unknown" /\ Free
     ELSE dpc' = "sending" /\ UNCHANGED opLock
  /\ UNCHANGED <<chats, pauses, signals, tables, consumer, processor, dat, admin, process,
                 history>>

\* FAILED before the message is posted: the reply is not valid or the target is paused, or
\* its guard fails now and pauses it.
NotSent ==
  /\ dpc = "sending"
  /\ \/ UNCHANGED <<failing, failingFile>>
     \/ /\ dat[1] \notin failing
        /\ failing' = failing \cup {dat[1]} /\ failingFile' = failing'
  /\ dpc' = "failed" /\ Free
  /\ UNCHANGED <<log, anchor, pauses, signals, tables, consumer, processor, dat,
                 admin, process, history>>

\* The guard finds another account or a sender missing.
GuardPauses ==
  /\ dpc = "sending" /\ dat[1] \notin failing
  /\ MarkPaused
  /\ dpc' = "pauseRow"
  /\ UNCHANGED <<chats, opLock, signals, tables, consumer, processor, dat, admin, process,
                 doubt, downtime>>

\* POST /api/messages/send
Post ==
  /\ dpc = "sending" /\ dat[1] \notin failing
  /\ doubt' = doubt \cup {dat}
  /\ dpc' = "posted"
  /\ UNCHANGED <<chats, pauses, opLock, signals, tables, consumer, processor, dat, admin,
                 process, stopped, downtime>>

\* The message is read back, exactly once.
Confirmed ==
  /\ dpc = "posted"
  /\ doubt' = doubt \ {dat}
  /\ dpc' = "ack" /\ Free
  /\ UNCHANGED <<chats, pauses, signals, tables, consumer, processor, dat, admin, process,
                 stopped, downtime>>

\* The post or the readback fails: UNKNOWN, and deliver() pauses.
Unconfirmed ==
  /\ dpc = "posted"
  /\ MarkPaused
  /\ dpc' = "pauseRow"
  /\ UNCHANGED <<chats, opLock, signals, tables, consumer, processor, dat, admin, process,
                 doubt, downtime>>

DeliverPauseRow ==
  /\ dpc = "pauseRow"
  /\ MarkPausedRow
  /\ dpc' = "unknown" /\ Free
  /\ UNCHANGED <<chats, signals, tables, consumer, processor, dat, admin, process, history>>

\* delivery_timeout_seconds pass: deliver() is cancelled wherever it is.
DeliverTimeout ==
  /\ SlowDelivery /\ dpc \in {"deliver", "locked", "sending", "posted", "pauseRow"}
  /\ IF opLock = "dispatcher" THEN Free ELSE UNCHANGED opLock
  /\ dpc' = "unknown"
  /\ UNCHANGED <<chats, pauses, signals, tables, consumer, processor, dat, admin, process,
                 history>>

\* apply_receipt or mark_outbox_unknown; a confirmed reply may be handed to the memory.
Applied ==
  /\ \/ dpc = "ack" /\ \E next \in {"memory", "loop"} : Settle("acked", next)
     \/ dpc = "failed" /\ Settle("dead", "loop")
     \/ dpc = "unknown" /\ Settle("unknown", "pause")
  /\ UNCHANGED <<chats, pauses, opLock, signals, inbox, consumer, processor, admin,
                 process, history>>

\* pause("UnconfirmedSend")
DispatchPause ==
  /\ dpc = "pause" /\ Take("dispatcher")
  /\ MarkPaused
  /\ dpc' = "pauseRow2"
  /\ UNCHANGED <<chats, signals, tables, consumer, processor, dat, admin, process, doubt,
                 downtime>>

DispatchPauseRow ==
  /\ dpc = "pauseRow2"
  /\ MarkPausedRow
  /\ dpc' = "loop" /\ Free
  /\ UNCHANGED <<chats, signals, tables, consumer, processor, dat, admin, process, history>>

\* _maintain_confirmed_memory runs in a processing_operation of its own.
Derive ==
  /\ dpc = "memory" /\ opLock = "free"
  /\ idle' = FALSE
  /\ dpc' = "deriving"
  /\ UNCHANGED <<chats, pauses, opLock, settled, tables, consumer, processor, dat, admin,
                 process, history>>

Derived ==
  /\ dpc = "deriving"
  /\ idle' = TRUE
  /\ dpc' = "loop"
  /\ UNCHANGED <<chats, pauses, opLock, settled, tables, consumer, processor, dat, admin,
                 process, history>>

---------------------------------------------------------------------------
(* The administrator: RepositoryControl.set_pause under side_effect_lock,  *)
(* pause() and resume() of the connector.                                  *)

Ask(kind, row) ==
  /\ Up /\ apc = "idle" /\ asks < MaxAsks
  /\ asks' = asks + 1 /\ scope' = row /\ sideLock' = TRUE
  /\ apc' = kind
  /\ UNCHANGED <<chats, pauses, opLock, signals, tables, consumer, processor, dispatcher,
                 process, history>>

\* Mutant: pause() does not wait for the operation in progress.
AskedPauseAtOnce ==
  /\ apc = "pause"
  /\ MarkPaused
  /\ apc' = "pauseRow"
  /\ UNCHANGED <<chats, opLock, signals, tables, consumer, processor, dispatcher, scope,
                 asks, sideLock, process, doubt, downtime>>

AskedPause ==
  /\ apc = "pause" /\ Take("admin")
  /\ MarkPaused
  /\ apc' = "pauseRow"
  /\ UNCHANGED <<chats, signals, tables, consumer, processor, dispatcher, scope, asks,
                 sideLock, process, doubt, downtime>>

AskedPauseRow ==
  /\ apc = "pauseRow"
  /\ MarkPausedRow
  /\ apc' = "setRow" /\ Free
  /\ UNCHANGED <<chats, signals, tables, consumer, processor, dispatcher, scope, asks,
                 sideLock, process, history>>

\* The request is over.
Answer == apc' = "idle" /\ sideLock' = FALSE

\* resume() refuses while a turn is being processed.
ResumeBusy ==
  /\ apc = "resume" /\ opLock = "free" /\ ~idle
  /\ Answer
  /\ UNCHANGED <<chats, pauses, opLock, signals, tables, consumer, processor, dispatcher,
                 scope, asks, process, history>>

\* resume() up to the baseline: the transport and its targets are no longer paused.
Resume ==
  /\ apc = "resume" /\ idle /\ Take("admin")
  /\ halted' = FALSE /\ failing' = {}
  /\ apc' = "baseline"
  /\ UNCHANGED <<log, anchor, failingFile, ready, pauseFile, rows, signals, tables,
                 consumer, processor, dispatcher, scope, asks, sideLock, process, history>>

\* Mutant: the old anchors are kept.
BaselineKeeps ==
  /\ apc = "baseline"
  /\ \E bad \in SUBSET Target : bad # Target /\ failing' = bad /\ failingFile' = bad
  /\ apc' = "unlink"
  /\ UNCHANGED <<log, anchor, pauses, opLock, signals, tables, consumer, processor,
                 dispatcher, scope, asks, sideLock, process, history>>

\* baseline(): a target without a message table stays paused, the others are read anew.
Baseline ==
  /\ apc = "baseline"
  /\ \E bad \in SUBSET Target :
       /\ bad # Target
       /\ failing' = bad /\ failingFile' = bad
       /\ anchor' = [t \in Target |-> IF t \in bad THEN anchor[t] ELSE log[t]]
  /\ apc' = "unlink"
  /\ UNCHANGED <<log, pauses, opLock, signals, tables, consumer, processor,
                 dispatcher, scope, asks, sideLock, process, history>>

\* baseline() raises; the targets that passed may have moved their anchors.
BaselineFails ==
  /\ apc = "baseline"
  /\ \E bad \in SUBSET Target : \E moved \in {{}, Target \ bad} :
       /\ failing' = bad /\ failingFile' = IF bad = {} THEN failingFile ELSE bad
       /\ anchor' = [t \in Target |-> IF t \in moved THEN log[t] ELSE anchor[t]]
  /\ MarkPaused
  /\ apc' = "failRow"
  /\ UNCHANGED <<log, opLock, signals, tables, consumer, processor, dispatcher,
                 scope, asks, sideLock, process, doubt, downtime>>

BaselineFailsRow ==
  /\ apc = "failRow"
  /\ MarkPausedRow
  /\ Free /\ Answer
  /\ UNCHANGED <<chats, signals, tables, consumer, processor, dispatcher, scope, asks,
                 process, history>>

\* The operator's decision is durable once neither the file nor the row is left.
Unlink ==
  /\ apc = "unlink"
  /\ pauseFile' = FALSE
  /\ stopped' = (stopped /\ "channel" \in rows)
  /\ apc' = "clearRow"
  /\ UNCHANGED <<chats, ready, halted, rows, opLock, signals, tables, consumer, processor,
                 dispatcher, scope, asks, sideLock, process, doubt, downtime>>

ClearRow ==
  /\ apc = "clearRow"
  /\ rows' = rows \ {"channel"}
  /\ stopped' = FALSE /\ doubt' = {}
  /\ apc' = "ready"
  /\ UNCHANGED <<chats, ready, halted, pauseFile, opLock, signals, tables, consumer,
                 processor, dispatcher, scope, asks, sideLock, process, downtime>>

Resumed ==
  /\ apc = "ready"
  /\ ready' = TRUE
  /\ apc' = "unsetRow" /\ Free
  /\ UNCHANGED <<chats, halted, pauseFile, rows, signals, tables, consumer, processor,
                 dispatcher, scope, asks, sideLock, process, history>>

\* set_paused of the row asked for ends the request.
SetRow ==
  /\ \/ apc = "setRow" /\ rows' = rows \cup {scope}
     \/ apc = "unsetRow" /\ rows' = rows \ {scope}
  /\ Answer
  /\ UNCHANGED <<chats, ready, halted, pauseFile, opLock, signals, tables, consumer,
                 processor, dispatcher, scope, asks, process, history>>

---------------------------------------------------------------------------
(* WeChat, and the process: initialize() step by step, and its end.        *)

\* Is what arrives in t now to be answered?  Not while the channel or t is paused, up to
\* the new baseline.
Receiving(t) == t \notin failing /\ (ready \/ apc \in {"unlink", "clearRow", "ready"})

Arrive(t) ==
  /\ log[t] < MaxLog
  /\ log' = [log EXCEPT ![t] = @ + 1]
  /\ downtime' = IF Receiving(t) THEN downtime ELSE downtime \cup {<<t, log[t] + 1>>}
  /\ UNCHANGED <<anchor, failing, failingFile, pauses, opLock, signals, tables,
                 consumer, processor, dispatcher, admin, process, doubt, stopped>>

\* Everything volatile is gone.
Reset ==
  /\ failing' = {} /\ ready' = FALSE /\ halted' = FALSE
  /\ opLock' = "free" /\ sideLock' = FALSE /\ idle' = TRUE /\ settled' = TRUE
  /\ cpc' = "top" /\ batch' = {} /\ hand' = NoEvent
  /\ ppc' = "gate" /\ pat' = NoEvent
  /\ dpc' = "loop" /\ dat' = NoEvent
  /\ apc' = "idle"
  /\ phase' = "down" /\ interrupted' = FALSE

Stop ==
  /\ phase # "down" /\ stops < MaxStops
  /\ stops' = stops + 1
  /\ Reset
  /\ UNCHANGED <<log, anchor, failingFile, pauseFile, rows, tables, scope, asks, history>>

\* recover_interrupted
Recover ==
  /\ phase = "down"
  /\ inbox' = [e \in Event |-> IF inbox[e] = "processing" THEN "pending"
                              ELSE IF inbox[e] = "started" THEN "dead" ELSE inbox[e]]
  /\ outbox' = [e \in Event |-> IF outbox[e] = "reserved" THEN "pending"
                               ELSE IF outbox[e] = "dispatching" THEN "unknown" ELSE outbox[e]]
  /\ interrupted' = \E e \in Event : outbox[e] = "dispatching"
  /\ phase' = "build"
  /\ UNCHANGED <<chats, pauses, opLock, signals, consumer, processor, dispatcher, admin,
                 stops, history>>

\* _build_connector raises before the connector is initialized: the service ends.
BuildFails ==
  /\ StartMayFail /\ phase = "build" /\ stops < MaxStops
  /\ stops' = stops + 1
  /\ Reset
  /\ UNCHANGED <<log, anchor, failingFile, pauseFile, rows, tables, scope, asks, history>>

\* The connector's initialize() finds a pause.
BuildPaused ==
  /\ phase = "build" /\ (pauseFile \/ Paused)
  /\ failing' = failingFile
  /\ MarkPaused
  /\ phase' = "buildRow"
  /\ UNCHANGED <<log, anchor, failingFile, opLock, signals, tables, consumer,
                 processor, dispatcher, admin, interrupted, stops, doubt, downtime>>

\* No pause: baseline() succeeds for some target.
BuildReady ==
  /\ phase = "build" /\ ~pauseFile /\ ~Paused
  /\ \E bad \in SUBSET Target :
       /\ failingFile \subseteq bad /\ bad # Target
       /\ failing' = bad /\ failingFile' = bad
       /\ anchor' = [t \in Target |-> IF t \in bad THEN anchor[t] ELSE log[t]]
  /\ ready' = TRUE
  /\ phase' = "built"
  /\ UNCHANGED <<log, halted, pauseFile, rows, opLock, signals, tables, consumer,
                 processor, dispatcher, admin, interrupted, stops, history>>

\* No pause, but baseline() raises.
BuildUnready ==
  /\ phase = "build" /\ ~pauseFile /\ ~Paused
  /\ \E bad \in SUBSET Target :
       /\ failingFile \subseteq bad
       /\ failing' = bad /\ failingFile' = bad
  /\ MarkPaused
  /\ phase' = "buildRow"
  /\ UNCHANGED <<log, anchor, opLock, signals, tables, consumer, processor,
                 dispatcher, admin, interrupted, stops, doubt, downtime>>

BuildRow ==
  /\ phase = "buildRow"
  /\ MarkPausedRow
  /\ phase' = "built"
  /\ UNCHANGED <<chats, opLock, signals, tables, consumer, processor, dispatcher, admin,
                 interrupted, stops, history>>

\* Mutant: a send that was interrupted does not pause the channel.
ServeAnyway ==
  /\ phase = "built"
  /\ phase' = "serving"
  /\ UNCHANGED <<chats, pauses, opLock, signals, tables, consumer, processor, dispatcher,
                 admin, interrupted, stops, history>>

Serve ==
  /\ phase = "built" /\ ~interrupted
  /\ phase' = "serving"
  /\ UNCHANGED <<chats, pauses, opLock, signals, tables, consumer, processor, dispatcher,
                 admin, interrupted, stops, history>>

\* pause("InterruptedSend")
PauseInterrupted ==
  /\ phase = "built" /\ interrupted
  /\ MarkPaused
  /\ interrupted' = FALSE
  /\ phase' = "buildRow"
  /\ UNCHANGED <<chats, opLock, signals, tables, consumer, processor, dispatcher, admin,
                 stops, doubt, downtime>>

---------------------------------------------------------------------------
Init ==
  /\ log = [t \in Target |-> 0] /\ anchor = [t \in Target |-> 0]
  /\ failing = {} /\ failingFile = {}
  /\ ready = FALSE /\ halted = FALSE /\ pauseFile = FALSE /\ rows = {}
  /\ opLock = "free" /\ sideLock = FALSE /\ idle = TRUE /\ settled = TRUE
  /\ inbox = [e \in Event |-> "none"] /\ outbox = [e \in Event |-> "none"]
  /\ cpc = "top" /\ batch = {} /\ hand = NoEvent
  /\ ppc = "gate" /\ pat = NoEvent
  /\ dpc = "loop" /\ dat = NoEvent
  /\ apc = "idle" /\ scope = "channel" /\ asks = 0
  /\ phase = "down" /\ interrupted = FALSE /\ stops = 0
  /\ doubt = {} /\ stopped = FALSE /\ downtime = {}

ConsumerStep ==
  \/ AwaitIdle \/ AwaitSettled \/ CheckReady \/ CheckInbox \/ CheckOutbox
  \/ PollNothing \/ Poll \/ PollFails \/ PollPauseRow
  \/ \E e \in Event : Yield(e)
  \/ Ingest \/ EndBatch

ProcessorStep ==
  \/ ProcessGate \/ ProcessEnter \/ \E e \in Event : ProcessClaim(e)
  \/ ProcessNothing \/ ProcessSettleInbox \/ ProcessSettleOutbox
  \/ ProcessSkip \/ ProcessStart \/ ProcessCommit \/ ProcessRefused \/ ProcessComplete
  \/ ProcessDead \/ ProcessPause \/ ProcessPauseRow

DispatcherStep ==
  \/ \E e \in Event : Reserve(e)
  \/ Refused \/ MarkDispatching \/ DeliverLock \/ DeliverCheck
  \/ NotSent \/ GuardPauses \/ Post \/ Confirmed \/ Unconfirmed \/ DeliverPauseRow
  \/ DeliverTimeout \/ Applied \/ DispatchPause \/ DispatchPauseRow \/ Derive \/ Derived

AdminStep ==
  \/ AskedPause \/ AskedPauseRow \/ ResumeBusy \/ Resume \/ Baseline \/ BaselineFails
  \/ BaselineFailsRow \/ Unlink \/ ClearRow \/ Resumed \/ SetRow

StartStep ==
  \/ Recover \/ BuildPaused \/ BuildReady \/ BuildUnready \/ BuildRow \/ Serve
  \/ PauseInterrupted

Next ==
  \/ ConsumerStep \/ ProcessorStep \/ DispatcherStep \/ AdminStep \/ StartStep
  \/ \E r \in Request : Ask(r[1], r[2])
  \/ \E t \in Target : Arrive(t)
  \/ Stop \/ BuildFails

Spec == Init /\ [][Next]_vars

\* Every task goes on when it can; operation_lock is handed out in the order of arrival,
\* so that a task that finds it free again and again takes it in the end.  A processor
\* without work stays idle for a second at a time, in which the consumer gets its turn.
\* A change is reported, or WeChat is read anyway after a minute.
Fairness ==
  /\ SF_vars(ConsumerStep) /\ SF_vars(idle /\ AwaitSettled) /\ SF_vars(Poll \/ PollFails)
  /\ SF_vars(ProcessorStep) /\ SF_vars(DispatcherStep) /\ SF_vars(AdminStep)
  /\ WF_vars(StartStep)

FairSpec == Spec /\ Fairness

---------------------------------------------------------------------------
(* Properties.                                                             *)

\* Every variable has the values its code gives it.
TypeOK ==
  /\ log \in [Target -> 0 .. MaxLog] /\ anchor \in [Target -> 0 .. MaxLog]
  /\ failing \subseteq Target /\ failingFile \subseteq Target
  /\ ready \in BOOLEAN /\ halted \in BOOLEAN /\ pauseFile \in BOOLEAN
  /\ rows \subseteq {"channel", "global"}
  /\ opLock \in {"free", "consumer", "processor", "dispatcher", "admin"}
  /\ sideLock \in BOOLEAN /\ idle \in BOOLEAN /\ settled \in BOOLEAN
  /\ inbox \in [Event -> {"none", "pending", "processing", "started", "done", "dead"}]
  /\ outbox \in [Event -> {"none", "pending", "reserved", "dispatching", "acked", "dead",
                           "unknown"}]
  /\ cpc \in {"top", "settle", "check", "active", "active2", "poll", "pauseRow", "yield",
              "ingest"}
  /\ batch \subseteq Event /\ hand \in Event \cup {NoEvent}
  /\ ppc \in {"gate", "enter", "claim", "claimed", "generating", "complete", "settle",
              "settle2", "pause", "pauseRow"}
  /\ pat \in Event \cup {NoEvent}
  /\ dpc \in {"loop", "evaluate", "deliver", "locked", "sending", "posted", "pauseRow",
              "ack", "failed", "unknown", "pause", "pauseRow2", "memory", "deriving"}
  /\ dat \in Event \cup {NoEvent}
  /\ apc \in {"idle", "pause", "pauseRow", "setRow", "resume", "baseline", "failRow",
              "unlink", "clearRow", "ready", "unsetRow"}
  /\ scope \in {"channel", "global"} /\ asks \in 0 .. MaxAsks
  /\ phase \in {"down", "build", "buildRow", "built", "serving"}
  /\ interrupted \in BOOLEAN /\ stops \in 0 .. MaxStops
  /\ doubt \subseteq Event /\ stopped \in BOOLEAN /\ downtime \subseteq Event

---------------------------------------------------------------------------
(* The inductive invariant behind PauseIsSticky and SilentWhilePaused.     *)

\* Who is between taking operation_lock and releasing it.
LockHeld ==
  /\ cpc \in {"check", "active", "active2", "poll", "pauseRow"} => opLock = "consumer"
  /\ ppc = "pauseRow" => opLock = "processor"
  /\ dpc \in {"locked", "sending", "posted", "pauseRow", "pauseRow2"} => opLock = "dispatcher"
  /\ apc \in {"pauseRow", "baseline", "failRow", "unlink", "clearRow", "ready"}
       => opLock = "admin"

\* No task runs before serve().
AtRest == ~Up => cpc = "top" /\ ppc = "gate" /\ dpc = "loop" /\ apc = "idle"

\* A pause in force is on disk; a resume under way owns what is left of it.
OnDisk ==
  /\ stopped => ~ready /\ (pauseFile \/ "channel" \in rows)
  /\ pauseFile => ~ready
  /\ apc = "clearRow" => ~pauseFile
  /\ apc = "ready" => ~pauseFile /\ ~stopped
  /\ apc = "unsetRow" /\ stopped => pauseFile
  /\ apc \in {"pauseRow", "setRow"} => ~ready

\* The dispatcher sends only on a channel that runs.
SendsRunning == dpc \in {"sending", "posted"} => ready /\ rows = {}

\* If no end of the process forgets it, a send in doubt is at each step on its way to a pause
\* or behind one, up to a resume.
DoubtRemembered ==
  /\ dpc = "posted" => doubt \subseteq {dat}
  /\ phase = "down" /\ doubt # {} =>
       pauseFile \/ "channel" \in rows \/ \E e \in Event : outbox[e] = "dispatching"
  /\ phase = "build" /\ doubt # {} => pauseFile \/ "channel" \in rows \/ interrupted
  /\ phase = "buildRow" /\ doubt # {} => stopped
  /\ phase = "built" /\ doubt # {} => stopped \/ interrupted
  /\ Up /\ doubt # {} =>
       stopped \/ apc = "clearRow" \/ dpc \in {"posted", "pauseRow", "unknown", "pause"}

\* The invariant of the proofs.
AgentInv ==
  /\ ready \in BOOLEAN /\ pauseFile \in BOOLEAN /\ stopped \in BOOLEAN
  /\ LockHeld /\ AtRest /\ OnDisk /\ SendsRunning

\* Once a pause has begun, by whatever task and for whatever reason, no crash makes the
\* channel ready again: only a resume of the operator does (paused.json is written before
\* the row, and removed before the row is cleared).
PauseIsSticky == ready => ~stopped

\* What arrives while the channel or its conversation is paused, or the process is down,
\* is never recorded, hence never answered: a start and a resume read a new baseline
\* ("historical and downtime messages are not replayed").
DowntimeIsSkipped == \A e \in downtime : inbox[e] = "none"

\* Reception never runs beside the work of the last batch: while WeChat is read, no event
\* is pending or in a turn and no reply is on its way, although the store is asked twice
\* and the flags of the connector are shared with the maintenance of the memory.
QuietWhilePolling == cpc = "poll" => ~ActiveInbox /\ ~ActiveOutbox

\* A message is posted only while the channel runs: a pause, from whichever task, that has
\* reached the connector between the policy's answer and the post is respected.
SilentWhilePaused ==
  [][dpc # "posted" /\ dpc' = "posted" => ready /\ ~pauseFile /\ rows = {}]_vars

\* After a send whose outcome is not known, whether it was not confirmed or the process
\* stopped in it, nothing is posted until the operator resumes.
DoubtStopsSending ==
  [][dpc # "posted" /\ dpc' = "posted" => doubt = {}]_vars

\* A send in doubt that nothing on disk shows: its row is no longer DISPATCHING (recovered, or
\* marked UNKNOWN after a timeout) and the channel is not paused for it yet.
OnlyInMemory ==
  /\ doubt # {}
  /\ ~pauseFile /\ "channel" \notin rows
  /\ \A e \in Event : outbox[e] # "dispatching"

\* The process does not end in such a state.
NoEndForgetsADoubt == [][Stop \/ BuildFails => ~OnlyInMemory]_vars

\* A pause asked for takes effect, although the turn in progress and the administrator
\* need both locks.
PauseTakesEffect == apc = "pause" ~> (pauseFile \/ ~Up)

\* A message not read yet that came while the channel received, behind the work of earlier
\* ones, is recorded in the end, unless the channel or its conversation is paused, the
\* process stops or the operator takes a new baseline first.
MessageIsRecorded ==
  \A e \in Event :
    (anchor[e[1]] < e[2] /\ e[2] <= log[e[1]] /\ e \notin downtime)
      ~> (inbox[e] # "none" \/ ~ready \/ Paused \/ e[1] \in failing \/ opLock = "admin")
=============================================================================
