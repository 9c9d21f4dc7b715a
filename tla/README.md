# A TLA+ verification of Lemonbot

Lemonbot is a chat assistant that reads a WeChat client, decides by a fixed policy
whether it may answer, pays a model for a text and sends it. What it must never do is
send twice, pay twice, exceed its quotas or its budget, or lose an event, and it must
keep these promises through crashes, timeouts and operators. This directory models
the durable core of the program, its workers, its ways to the WeChat client and the files of
a profile, checks it with TLC and proves part of it with TLAPS.

Paths are relative to `src/src/lemonbot/`. `PROJECT.json` maps every definition to the
lines it translates.

## 1. Inventory

| component | state | operations | hard behaviour | what makes it correct |
|---|---|---|---|---|
| inbox and outbox store (`storage/repository.py`) | SQLite rows of events, replies, drafts, tool executions, pauses, allowlist | record, claim, mark, fail, complete, reserve, dispatch, receipt, release, recover, reconcile | crash between any two transactions; concurrent claimers | rows settle once, nothing is stranded, order per chat |
| event pipeline (`orchestration/pipeline.py`) | none of its own; a claimed row, a lock | `ingest`, `process_once`, `dispatch_once`, `_invoke_tool` | every await is an interleaving point; two evaluations of the policy | one reply per event, one send per reply, one paid chain per event |
| policy engine (`policy/engine.py`) | none | `evaluate` | reads counts that other tasks change | quotas hold at the commit |
| runtime (`runtime.py`) | loops, side-effect lock, emergency flag | `initialize`, `serve`, `close`, control | restart in another mode, with another allowlist | recovery is complete and safe |
| budget and ledger (`models/budget.py`, `models/persistent_budget.py`) | totals per day and month, open reservations, SQLite ledger | reserve, release, settle, settle_unknown, create | two clients, midnight, crash between memory and ledger, late bills | bills stay inside the limits |
| worker proxies, IPC and supervision (`models/*worker*`, `models/gateway.py`, `models/vision.py`, `tools/browser_worker*`, `ipc/`, `supervisor/`) | request lock, poisoned flag, two pipes, a process, a prepared image | create, generate, analyze, invoke, balance, shutdown, terminate | timeouts, cancellation, late answers, broken pipes, dead workers | an answer meets its request; no call of the provider is given back |
| proactive jobs (`proactive/`) | SQLite rows of jobs | add, claim, mark, defer, fail, complete, cancel, recover | cancel under the runner, recurrence, restart | one payment per occurrence |
| WeChat agent connector (`connectors/wechat_agent*.py`) | anchors per conversation, operation lock, three signals, sticky pauses, whitelist files | initialize, events, deliver, pause, resume, processing_operation | signals shared by three tasks; two locks; pauses from five places, on disk twice | a pause holds until resumed; no send while paused; downtime is not replayed; reception resumes |
| metadata bridge and listener (`src/scripts/agent_wechat_metadata.py`, `connectors/wechat_agent_conversation.py`, `connectors/wechat_agent_whitelist.py`) | epoch, sequence, binding; cursor, notice, anchors | watch, changes, conversations, bind; listen, read cycle, synchronise | restarts of either side, notices during a read, late rows | no message lost or read twice; one whitelist everywhere |
| approvals and approved tools (`approvals/`, `runtime.py`) | approval rows, tool executions | request, list, approve, deny, claim, execute, expire, recover | decisions racing expiry; crash, timeout or cancellation in execution | an approval is used once; what the rows say of an effect is true |
| memory (`memory/`) | derived records with sources | derive, roll, insert, search, select | derivation after delivery, timeouts with work left in a thread | a rolled summary forgets nothing; commitments are kept |
| attachments and object store (`tools/attachments.py`, `tools/object_store.py`) | rows, objects by digest, capacity breaker | ingest, read | kill between file and row | a row has its object |
| profile files (`runtime_lock.py`, `backup.py`, `data.py`, `cli.py`) | lock file, database, objects, archives, emergency file | backup, export, delete, restore, emergency-stop, resume | commands of several processes; kill or I/O error between any two renames | nothing stored is lost; a stop holds |
| AT-SPI observer (`connectors/*atspi*`, `supervisor/linux_atspi.py`) | sandbox, snapshot cursor | start, observe, align, record | repeated texts, stops between event and cursor | no event twice or missed |
| desktop probe (`connectors/linux_atspi_probe.py`) | command line, proven surface, canary | scan, focus, draft, commit, read back | a user who acts at any moment | sends only what it has proven |
| tools, admin, configuration, setup scripts, research | | | | pure I/O, static validation or laboratory code |

How they interact: the bridge notifies the listener, whose read cycle yields events to the
consumer task; the processor task claims rows, asks the policy, the model proxy (which asks
the budget and waits for its worker), the tools and the store; the dispatcher task reserves
replies, asks the policy again and calls the connector; after a delivery the memory is
maintained; the administrator pauses, resumes, reconciles and decides approvals through the
store; the proactive task adds messages to the same outbox. All tasks share one asyncio loop,
one SQLite file and one `side_effect_lock`; other processes share the files of the profile.

## 2. Plan

Done, in this order:

1. `EventPipeline` (store, pipeline, policy of a reply, runtime loops, recovery), the
   abstract `ReplyDelivery`, and the proofs in `EventPipelineProofs`;
2. `ModelBudget` (budget and ledger) and `ModelBudgetProofs`;
3. `ProactiveJobs` (store and runner) and `ProactiveJobsProofs`;
4. `AgentRuntime` (the connector's operation lock, signals, pauses, reception, delivery and
   start, with the loops of the runtime) and `AgentRuntimeProofs`;
5. `ToolExecution` (the tool calls of a turn, approvals, approved calls) and
   `AssistantProofs`;
6. `WorkerRpc` (the three kinds of isolated worker behind their proxies) and
   `WorkerRpcProofs`;
7. `MessageFeed` (bridge, listener, read cycle, whitelist), `AtspiObserver` and
   `DesktopProbe`, with `ReceptionProofs`;
8. `ConversationMemory` (derivation, rolling, context), in `AssistantProofs` too;
9. `ProfileData` (lock, attachments, backup, export, deletion, restore, emergency stop) and
   `ProfileDataProofs`.

To do, most important first:

10. the quiet-hours arithmetic and the rate windows of the policy as pure operators, checked
    against a reference definition;
11. the paging of the canary transport (overlap of successive pages) as a pure algorithm;
12. compositions: `Generate` of the pipeline with `ModelBudget` and `WorkerRpc`; proactive
    messages in the dispatcher.

## 3. Modules

### EventPipeline

One action is one SQLite transaction or one await. The reply to event `e` is identified
with `e`: its message id is a uuid5 of the event, and the outbox has a unique index on it.

| state | code |
|---|---|
| `inState`, `attempts`, `started`, `inId` | `InboxRow` (`model_started_at` as a flag) |
| `outState`, `due`, `fresh`, `outId` | `OutboxRow`; `due`: `next_attempt_at` has passed; `fresh`: `created_at` is inside the window |
| `drafts`, `paused`, `allowed`, `quiet` | `DraftRow`, runtime control rows, allowlist rows, quiet hours |
| `pc`, `at`, `turn`, `lock` | a call of `process_once`, its claimed row, the side-effect lock |
| `dpc`, `dat` | a call of `dispatch_once`, its reserved row |
| `consumer` | the event `_consume_loop` holds between the pause check and `ingest` |
| `wire`, `remote`, `sends` | requests on their way to WeChat, messages it shows, requests issued |
| `spent`, `seen` | history: claims that paid the provider; rows present when a row was claimed |

Abstractions. The chain of tool calls inside a turn is `ToolExecution`, what a turn does with
memory is `ConversationMemory`. One reply window stands for the three of a chat, another for the channel's
day. Whether an event is skipped before the policy is asked (not eligible, enrolment
metadata, welcome disabled) is a free choice of `SkipEvent`. Whether the connector
pauses the channel after an unconfirmed send or a failed model reply is covered by
`Pause`, which may happen at any time. The gates of `_process_loop` in conversation mode
(ready, idle, no active outbox) only remove behaviours, so every safety property holds
with them too. The receipt of a send is any that `_deliver` can return for what happened;
WeChat may show the message before or after a timeout, or never.

### ReplyDelivery

The promise of the outbox about one reply, without tables, workers or crashes: queued
once, committed once, requested at most once and only when committed, called delivered
only if WeChat shows it, and otherwise left to a human. `EventPipeline` maps the seven row
states to six fates (`FateOf`) and is shown to implement it (`DeliversOnce`).

### ModelBudget

| state | code |
|---|---|
| `row`, `charged`, `dayOf` | `model_budget_ledger` |
| `open`, `spent`, `mspent` | `_reservations`, `_daily_spend`, `_monthly_spend` |
| `pc`, `outcome`, `usage`, `dead` | a call of `generate` or `analyze_file`; poisoned proxies |
| `asked`, `billed` | external: requests the worker may have sent, what the provider bills |
| `today`, `clock` | the local date; whether it is steady or may step back (fixed per behaviour) |

The provider is external: it bills a call at most its estimate (a byte count bounds the
prompt and `max_tokens` the completion; the code computes `over_reservation` and nobody
reads it), perhaps long after the call ended. `asked` says that a request may have left,
so a worker that sends late is the same behaviour as one that sent early. `Start` lets
midnight fall between the reading of the ledger and the construction of the manager,
which look at the clock separately. On a clock that
steps back the manager, which loads only the current day and month, counts a day it has
forgotten from zero; `HardLimit` is therefore stated for a steady clock, `LedgerCovers` and
`OpenIsUnderWay` for both.

### ProactiveJobs

| state | code |
|---|---|
| `status`, `due`, `attempts`, `started` | `proactive_jobs` |
| `pc`, `held`, `claim` | `run_once`, its job and the attempts of the claimed copy |
| `queued` | message ids (job, due_at) in the outbox |
| `runs`, `paid` | history: occurrences completed, provider calls |
| `clock` | whether the clock is steady or may step back (fixed per behaviour) |

The verdict of the policy, the existence of the reason event and the model's answer are
free choices. An exception that leaves `run_once` ends `_proactive_loop` and therefore the
process (`serve` waits for the first task to end); `Raise` and `ClaimRaises` model the two
ways in which that happens. `NoBurst` and `FreshMessageId` compare
moments and are stated for a steady clock.

### AgentRuntime

The channel in conversation mode. One action is one await of one task: the consumer
(`events` and `_consume_loop`), the processor (`_process_loop`), the dispatcher
(`_dispatch_loop` and `deliver`), the administrator (`set_pause`), and `initialize`.

| state | code |
|---|---|
| `log`, `anchor` | messages of each conversation in WeChat (external); `child.anchors` |
| `failing`, `failingFile` | `target_pauses`, `targets-paused.json` |
| `ready`, `halted`, `pauseFile`, `rows` | `ready`, `transport.paused`, `paused.json`, the pause rows (channel, global) |
| `opLock`, `sideLock` | `operation_lock`; `side_effect_lock` while `set_pause` holds it |
| `idle`, `settled` | `processing_idle`, `work_settled` |
| `inbox`, `outbox` | states of the rows of each event and its reply (`started`: the model was called) |
| `cpc`/`batch`/`hand`, `ppc`/`pat`, `dpc`/`dat`, `apc`/`scope` | step and data of each task |
| `phase`, `interrupted` | progress of `initialize`; `recovery["outbox_unknown"] > 0` |
| `doubt`, `stopped`, `downtime` | history: posts not confirmed since the last resume; a pause has begun and was not resumed; messages that came while the channel or their conversation did not receive |

Abstractions. Only messages that become events are counted. What a turn does between claim
and commit is `EventPipeline`'s subject and is reduced to its end. `work_available` is left
out, because its only wait ends after a second anyway, as do the sleeps of the loops.
`processing_operation` holds the lock only to clear a flag, so that this is one step. A
check and the write that follows it are one step where a change in between has the effect
of the same change just after the write (`Reserve`, `MarkDispatching`); they are two where
it does not (`CheckReady` to `CheckOutbox`, `Yield` and `Ingest`, `DeliverCheck` and `Post`).
Which conversations and rows are bad is a free choice of each read. Emergency stop is
covered in its effect by a pause of the global row and a stop.

### ToolExecution

| state | code |
|---|---|
| `exec`, `boundTo` | `ToolExecutionRow`: state, and the request a call id is bound to |
| `approval`, `late` | approval rows; `expires_at` has passed |
| `paused`, `allowed`, `lock` | pause row, allowlist row, `side_effect_lock` |
| `tpc`, `call`, `left`, `used`, `turns` | a model turn: step, call in work, calls left, the counters of `max_tool_calls` and `max_model_turns` |
| `apc`, `claim`, `outcome` | each administrator's request: step, claimed approval, outcome so far |
| `phase`, `stops` | the process and its recovery |
| `invoked`, `live`, `effect` | invocations per row; rows whose tool may still act, rows whose tool has acted (external) |

A tool answers truly, but may act after its timeout, after a cancellation or after the
process has ended. An approval and the exact arguments it is bound to are one request.

### WorkerRpc

| state | code |
|---|---|
| `kind`, `created` | which of the three workers; `create()` |
| `holder`, `poisoned` | `_request_lock`, `_poisoned` with `_closed` |
| `phase`, `op`, `verdict` | each call: step, operation, what is left to do after the answer |
| `res`, `ledgerFailed` | the reservation of each call |
| `proc`, `toWorker`, `fromWorker` | the process and its pipes |
| `wst`, `cur`, `pending`, `called` | the worker: step, frame in hand, prepared image, calls put on the wire to the provider |

A frame is the call it belongs to, which stands for its request id, and its type. The worker may
crash or hang at every step, answer late, and be ended while it works; a caller may be
cancelled at every await.

### MessageFeed

| state | code |
|---|---|
| `table`, `broken` | rows of each chat by their place in the order of the table (external); rows `event()` refuses |
| `bridge`, `epoch`, `sequence`, `dirty` | the bridge, `ChangeNotifications`, an unread inotify event |
| `config`, `configFile` | `chat_ids` of the bridge and its file |
| `listening`, `cursor`, `failures`, `lost`, `notified` | `_listen`, `_notification_error`, `_notifications` |
| `phase`, `wanted`, `metaFile`, `bindingFile` | start of the service with a whitelist, and its two files |
| `failing`, `failingFile`, `halted` | per-target pauses and their file; the channel's pause |
| `anchors`, `cycle` | `child.anchors`, the read in progress and its answer |
| `got`, `owed`, `twice` | history: events yielded, messages to yield, a message yielded again |

A message may take a place between older ones, since rows are ordered by `create_time`. Owed
is a message newer than some anchor: one older than all of them is, to the code, an old one.

### AtspiObserver

| state | code |
|---|---|
| `transcript`, `top` | the chat and what of it is shown (external) |
| `sandbox`, `pipe` | bus proxy and worker, snapshots on their way |
| `tail`, `chain`, `upto` | the saved cursor; history: the position it stands for |
| `work`, `at`, `hash`, `paused` | the snapshot in hand; `_paused_reason` |
| `events`, `baseline` | recorded events; history: last position of the first snapshot |
| `disturbed`, `partial`, `strayed` | how often the user scrolled or an item was not read; history: an item was left out, an overlap was found elsewhere than where the cursor stands |

The code sees fingerprints only; positions are kept so that properties can tell two items of
one text apart. A chain hash is the sequence hashed into it. The alignment takes the longest
overlap if it is found once; it may be a repeated text at another place. `RecordIsExact` claims
the record exact until that happens (`strayed`), and that only a repeated text makes it happen;
both cases occur within the run's bounds. An item that the worker cannot read (`partial`) is
missing for good, and ids after it are others.

### DesktopProbe

| state | code |
|---|---|
| `layout`, `chat`, `draft`, `sent`, `posts`, `alt` | the client: window, open chat, drafts, messages, canaries shown, the locked modifier (external) |
| `flags`, `pc`, `surface` | command line, next step, the surface first found |
| `canary`, `wrote`, `confirmed` | the text, whether the setter returned, how it is known |
| `commits`, `report` | send attempts and the printed result |
| `since`, `used` | history: what the user did since the last proof |

The choice of the surface (closest pair, ties refused) is translated as operators over paths
of the accessibility tree; four layouts make the choice unique, indirect, illegible and
ambiguous.

### ConversationMemory

| state | code |
|---|---|
| `said` | messages of each conversation |
| `records` | `memory_records`; an id is what it is hashed from |
| `derivation`, `stragglers` | the derivation in progress; inserts that go on in a thread after a timeout |
| `context` | the last bounded context |
| `derived`, `overtaken` | bound; history: an insert went on after its derivation had ended |

Every record and message costs one unit of room. Which records a full-text search prefers is
a free choice among those of the scope and the kinds.

### ProfileData

| state | code |
|---|---|
| `lockPath`, `fd`, `holds` | inode at the path of the lock file, open files, granted flocks |
| `job`, `pc`, `mem`, `full` | the command of each process, its step, its locals; the capacity breaker |
| `db`, `objects`, `incoming`, `archives` | database, object store, its temporary files, finished archives |
| `estop` | the emergency file |
| `stopped`, `committed`, `breached`, `tainted`, `crossed` | history: a stop was reported; rows reported stored; two holders of the lock; a restore cut short; a stop and a resume that crossed |

Every step that changes a file is an action, with a kill or an I/O error possible at each. The
history variables name what the properties exclude: `breached` is the finding
`profile_lock`, the others are listed under the observations below.

## 4. Runs

| run | instance and bounds | distinct states | shows |
|---|---|---|---|
| `pipeline_crash` | 2 events of a chat, one of them a model event, 1 processor, 1 dispatcher, 1 stop, restart in any output mode, quiet hours | 2.4 million | nothing is sent or paid twice or stranded, draft or reply but never both; the pipeline implements `ReplyDelivery` |
| `pipeline_quota` | 2 events of a chat, 2 processors, window of 1, 1 pause, 1 stop, restart on a clock that may be behind | 2.9 million | the commit gate closes the quota race; order per chat |
| `reply_path` | 1 event, 2 stops, 2 pauses, quiet hours; 3 calls of a worker of each kind; fairness | 83 000 | events and replies settle; calls end, leave nothing behind and are never given back unpaid |
| `budget` | 3 calls of 2 proxies, 3 days in 2 months, limits that do not admit all, 1 stop, both clocks | 1.5 million | `HardLimit`, `LedgerCovers`, no reservation is leaked |
| `jobs` | a recurring and a one-off job, failures, deferral, cancel, a stop, both clocks, fairness | 740 000 | every due job is served, no burst, paid once per occurrence, an early cancel is free |
| `agent_channel` | 2 conversations with a message each, 1 request of the administrator, 1 stop, starts that may fail | 1.9 million | a pause survives; silence while paused and after a send in doubt; downtime is not replayed; reception is exclusive |
| `agent_live` | 1 conversation with 2 messages, a pause asked for, slow deliveries, fairness | | a pause takes effect; a message behind the work of another is recorded |
| `data` | tools: 2 calls and 1 approval, 2 administrators, 1 stop; memory: 2 conversations, 3 messages, 3 derivations; profile: 2 processes, 3 commands, 1 kill, 2 I/O errors | 810 000 | effects are recorded truly, approvals are used once and not while paused; summaries and commitments are kept; rows have their objects, archives are complete, nothing stored is lost, a stop holds |
| `reception` | observer: 4 items of 3 texts, 3 shown, 2 kept in the cursor, 1 crash, 2 scrolls or unread items; probe: 3 flags, 2 acts of the user; feed: 2 chats, 2 whitelists, 2 messages anywhere in a window of 3, 1 refused row, 1 restart of the bridge, 1 stop | 3.2 million | every message is recorded once until an overlap is mistaken; only what was proven is sent; no wakeup is lost; one whitelist is served |
| `jobs_assertion`, `agent_interrupted`, `profile_lock` | small instances | | **violations**, see findings |

Parts that share no state share a run: the variable `part` of `MCReplyPath`, `MCAssistantData`
and `MCReception` says which of them a behaviour is about, and the others stand still. Nothing
is composed that way; each part is explored for itself. In `budget` and `jobs` one call or job
takes part only on the steady clock, to keep the behaviours with a clock that steps back
small.

Why the bounds are enough. Each hazard needs at most two rows and two workers: a race is
between two tasks, a crash divides one task's steps in two, a retry needs one earlier
claim. One stop is placed at every step by TLC; a second one is added where recovery
itself could be interrupted by another (`reply_path`, `agent_interrupted`). Windows and
limits are one below what the instance could use, so that the refusing branch and the last
admitted call both occur. `MaxAttempts` is 2 rather than 3: one retry that is allowed and
one that is not. A worker sees `init`, a call that goes wrong and a call after it. Three
commands by two processes are a core, a command beside it and one that finds what they left;
a second I/O error meets the rollback of the first. Three messages are one more than a
derivation sees.
A window of three rows with four places and two old messages lets a late message fall below,
between and above the anchors, and lets the table outgrow the window. Two conversations let
one fail while the other goes on; conversations, texts and processors that nothing tells apart
are symmetric (safety runs only). `agent_channel` leaves out slow deliveries: a timeout after
the post, whose outcome is recorded as unknown just before the process stops, would meet the
finding `agent_interrupted` with a single stop. The other properties of that run are proved
with them. Deadlock checking is off because a stopped process that reached its bound, a
paused channel nobody resumes and a finished schedule really rest.

### Fairness

The fairness of the pipeline (`FairSpec`, repeated in `PathSpec` of `MCReplyPath` for its part)
is weak fairness of the three loops (they run until the
process stops, and every wait of theirs has a timeout: `max_task_seconds`,
`delivery_timeout_seconds`, sleeps of at most a second), of the passing of a retry delay
and of a window, and of the restart (a service manager). Nothing is assumed about new
events, WeChat, pauses or resumes; `OutboxSettles` therefore asks that the channel is in
the end neither paused nor quiet. `WorkerSpec` assumes that a caller's steps go on (the
request lock is a queue, and every exchange has a timeout) and that a worker that was told to end
does (SIGKILL follows SIGTERM); nothing is assumed of a worker otherwise. `JobsSpec` assumes
`_proactive_loop` and the restart. The budget needs no fairness: that no reservation is leaked is
an invariant.

`FairSpec` of `AgentRuntime` assumes strong fairness of each task, because a lock that is
free again and again is handed out in the order of arrival (`asyncio.Lock` is a queue); of
the consumer's way to the lock while the processor is idle, because a processor without
work sleeps up to a second in `work_available.wait()`; and of a real read by `poll`, because
a change is notified and WeChat is read after a minute in any case. Nothing is assumed of
arrivals, requests or stops.

## 5. Proofs

All constants are arbitrary: any numbers of events, chats, workers, calls and jobs, any
quotas and bounds. The assumptions are the named `ASSUME`s of the modules, which only
give types and ask that attempts, turns, estimates, periods and delays are positive.

**EventPipeline** (`EventPipelineProofs`). `SendOnce` is not
inductive: that a message is unsent before it is dispatched depends on who holds the row.
`IInv` adds ownership (each row in work is held by at most one worker, in the state the
worker's step presumes), that a stopped process holds nothing, that an unsent state means
no request, that provider I/O lies behind the durable mark and the mark bars another claim,
that whatever a claim saw is recorded for good, that a claimable row has a claim left, and
that a model answer is behind the mark. One lemma per group of actions shows that it is
preserved; type correctness, `SendOnce`, `ModelChainOnce`, `FifoPerChat`, `RetryBudget` and
`DraftOrReply` follow. `QuotaRespected` is a count, and rests on three facts: whoever is behind
the commit gate holds `side_effect_lock`, hence is alone (`GateLeavesRoom`); only
`create_outbox` adds to what the windows count, so that deferrals, receipts, operators and
recovery can only make room; and the count the policy judged, the reply itself left out, is
still an upper bound when the row is created. Its last part shows that every step is a step of
`ReplyDelivery` or a stutter, that settled rows stay settled, and, if the clock does not go
back over a restart, that no row is stranded.

**ModelBudget** (`ModelBudgetProofs`). `Books` relates, per call, the step, the ledger
row and the bill: the row is there before the request can leave, a call is released only if
the provider was not asked, and what is recorded is the bill or the estimate. It says
nothing of the totals in memory, hence holds even if the clock goes back, and implies
`LedgerCovers`: recovery can overcount and never undercount. `OpenIsUnderWay` (no reservation
in memory outlives its call, whatever fails, is cancelled or stops) is inductive beside `Books`.
`HardLimit` needs the sums. Its invariant `LimitInv` speaks of the `Exposure` of a call: its
bill once there is one, its estimate while it is reserved or may have been asked. A
reservation is the only step that raises an exposure, and it compares all that the manager
knows with the limits; that this is all there is (`MemoryCovers`: the day's and the month's
totals cover every exposure without a reservation, those of earlier processes and of late
bills included) is what settling, the midnight, a stop and the recovery of the ledger must
keep. It is proved for a steady clock, which the formula names, and uses that later days
have no earlier month. A sum counts the units of its amounts (`Units`), so that facts about
finite sets are enough for it.

**ProactiveJobs** (`ProactiveJobsProofs`). `JobsInv` says that a row that may still be
paid is unmarked, or its runner is just behind the mark, and that its payments belong to
earlier occurrences. `PaidOnce` follows for any behaviour of the clock; `NoBurst` and
`FreshMessageId` for a steady clock, which their formulas name, since they compare moments;
`FinalForever` because every transition of the runner asks for a running row, and
`EarlyCancelIsFree` because the runner calls the model only for a row that bears the durable mark.

**AgentRuntime** (`AgentRuntimeProofs`). A pause is two writes and a resume removes both,
in tasks that take turns, so neither `PauseIsSticky` nor `SilentWhilePaused` is inductive.
`AgentInv` adds who is between taking `operation_lock` and releasing it (so that no two
tasks are in a pause, a post or a resume at once), that no task is awake before `serve`, what
of a pause is on disk at each step of a resume (the file outlives the row; the row that
`set_pause` clears after `resume` has released the lock may belong to a newer pause, whose
file is then still there), and that the dispatcher posts only on a channel that is ready and
not paused. `ReceptionIsQuiet` strengthens `QuietWhilePolling` by what each of the two reads
has established and why it still holds when the second is done: rows become active only
through the consumer itself or from a row of the other table that is active already.
`DowntimeIsNeverReplayed` adds that what came in downtime lies at or below every anchor in
use, or behind an anchor that is read anew before it is used. Conversations, messages,
requests and stops are arbitrary, and deliveries may be slow.

`DoubtStopsSending` does not hold of every behaviour (section 6), so its theorem says exactly
what breaks it: `NoEndForgetsADoubt` excludes a stop or a failed start at the moment when a
doubt is in memory alone (`OnlyInMemory`: its row was recovered or marked UNKNOWN, the channel
is not paused for it yet). Under it `DoubtRemembered` holds: every doubt is on disk as a pause
or as an interrupted row, or a task that is about to pause the channel carries it, or a
resume is clearing it. The run `agent_interrupted` shows a behaviour that the hypothesis
excludes.

**ToolExecution** (`AssistantProofs`). Turn, administrators, recovery and the tools
themselves write to the same rows, so what `NoSilentEffect` and `ApprovalIsTrue` say of a row
rests on who owns it. `ToolInv` adds that the turn owns the row of the call in work and knows
its state at each of its steps (`TurnRow`), that an administrator owns the approval it has
claimed, no two the same (`Claimed`), and knows how far approval and execution row have come
(`AdminRow`), that a tool acts only behind a row that was marked executing
(`EffectsMarked`), that an approval nobody has claimed has no row that ever ran
(`ApprovalRow`), that a stopped process does nothing (`StoppedIsStill`), and that the policy's
answer stays true while the administrator holds `side_effect_lock` (`LockHeld`). From that
follow the two invariants, and `PauseHoldsApproved`, an action property: the step that
invokes an approved request is the administrator's, under the lock, and the channel is not
paused then. The assumption on the constants is that call ids, approvals and the mark of a
free lock are different things.

**ConversationMemory** (`AssistantProofs`). What an insertion replaces was chosen when the
derivation began; `MemoryInv` carries that choice to the insertion. A record about to be inserted
cites messages of its own conversation, and its sources contain those of what it replaces,
whether its derivation is still there or not (`WellMade`, `MadeWell`); hence nothing replaced
is ever uncovered, also when a derivation times out and its insert goes on in a thread. That
one summary is in force needs more (`RollsAll`): the search of a derivation finds it, the merge
is rolled only with it in the request, and nothing else inserts meanwhile, which is why the
formula excludes timed-out inserts. `CommitmentsKept` follows from the order of selection.

**WorkerRpc** (`WorkerRpcProofs`). A proxy has one request under way, so the worker's
provider call is paid if the frame it answers belongs to the call that holds the request lock.
The code checks that only when the answer comes back; `WorkerInv` shows that there is nothing
else it could be: only the holder of the lock has asked (`OneHolder`), it had reserved before
it sent the frame (`ReservedFirst`), there is at most one frame in both pipes and the worker
together (`AtMostOne`, `OneUnderWay`), it is the holder's, of the type its step waits for
(`Owed`, `RequestOK`, `AnswerOK`), a prepared image is waiting only for the operation that
follows (`PendingOK`), and a proxy that gave up a request is poisoned before it lets go
(`Empty`). `NoFreeCall` and `CleanWhenFree` follow, and `AnswerIsMine`: the answer a call
reads is never an earlier call's. Safety needs no fairness; the invariant is proved of
`WorkerSafety`, which `WorkerSpec` implies.

**ProfileData** (`ProfileDataProofs`). The argument is the lock: commands that hold it are
alone with rows and objects, so what one has seen stays true until its next step, and only
`backup`, which takes no lock, must tolerate the others. `ProfileInv` adds which steps a
command is at and that it holds the lock there (`StepsOK`, `LockOK`), what it knows of the
files (`KnowsFiles`: the object is there before the row is inserted; what a deletion unlinks no
row names; from `stage` on everything stored is in an archive), where the old database is whole
during a switch and its rollback (`SwitchOK`), that a copy in progress has its objects unless
it was torn (`CopyOK`), and that a stop in force has its file and no resume is half done
(`StopInv`). `Recoverable` needs no assumption on kills or errors; `NoDanglingRow` and
`ArchiveComplete` are proved up to a switch that was cut short, as their formulas say. All
four hold until two processes hold the lock at once, the finding `profile_lock`: the proof
shows that nothing but that can break them.

**AtspiObserver** (`ReceptionProofs`). `ObserverInv` counts everything from the last position
of the first snapshot: the chain is the texts up to the cursor, the hash in hand those up to
the item before the next, the id of an event those up to its position, and snapshots are
positions that follow one another (`CountsFromBaseline`). So what is read again after a stop
gets its old id, and two positions never share one. The step that matters is the alignment:
the place it finds shows the text the tail ends with (`AlignedPlace`), so it is the cursor's
place or a text that repeats. It holds for any texts, lengths of view and tail.

**DesktopProbe** (`ReceptionProofs`). The steps between a look and the key belong to the
probe, the acts between them to the user. `ProbeInv` says which mode may be at which step
(`ModeFollowed`, from the six flags of the command line), that there is one attempt to send and
that it is the last thing that touches the client (`SingleCommit`), and what the last look still
proves (`LookHolds`): the open chat and the draft are those it has read, or the user acted
since. `SentIsProven` follows for any set of layouts: the proof of the surface is used only
through what is asked of it again before the key.

**MessageFeed** (`ReceptionProofs`). `FeedInv` follows three things. The files and the bridge
take over the whitelist in one order, so what a start has passed agrees (`StartFollows`), and
the listener never knows more than the bridge has said (`CursorFollows`). A cycle belongs to
a channel that is not paused, or is a baseline (`CycleFollows`), and asks for rows that are in
the table and were not yielded (`TablesHold`). For a chat that is read (`Live`), the anchors tell
old from new: what was yielded is an anchor or below all of them (`KnownStaysKnown`), what is
owed lies above one and is none, or has come late, below an anchor, into a table that outgrew
the window (`WaitingIsTold`), and is noticed (`WaitingAlarms`). The step that
matters is the snapshot: the newest rows are closed upwards and hold the newest of all
(`NewestFacts`), so the next anchors tell the whole table, and a row outside the window
means that the table is larger than it. The proof holds for any positive window and number
of anchors, whichever is larger. `NoLostWakeup` speaks of messages that a read would yield: a
late one, below the window's overlap, may lie among the rows that have become anchors, where
none would.

The invariants `IInv`, `QuotaInv`, `Books`, `LimitInv`, `JobsInv`, `AgentInv`, `ToolInv`,
`WorkerInv`, `ProfileInv`, `MemoryInv`, `ObserverInv`, `ProbeInv`, `FeedInv` and
`DoubtRemembered`, the type invariants, `RetryBudget`, `SettledForever`, `FreshMessageId`,
`FinalForever`, `AnswerIsMine` and `SingleCommit` are proved and not repeated in a run. (Each
inductive invariant was checked by TLC on the instance of its module's run before it was
proved.)

Only model-checked: the liveness properties and fairness (out of the prover's reach). Every
safety property of a run is stated by a theorem; `DoubtStopsSending` holds of the starts of
its run and is proved for all starts under `NoEndForgetsADoubt`.

## 6. Findings

- `agent_interrupted`: `recover_interrupted` turns an interrupted send into UNKNOWN, and the
  channel is paused for it only after `_build_connector` has returned. If that raises (the
  whitelist cannot be synchronised while the client is still starting) or the process stops
  in between, the next start no longer sees an interrupted send, is ready, and goes on
  sending, although the tests ask that a crash during a dispatch "recovers unknown and
  pauses" (`tests/integration/test_wechat_agent_runtime.py:162`). The reply itself is never
  sent again. The same window exists after a delivery timeout, between
  `mark_outbox_unknown` and the dispatcher's `pause`.
- `jobs_assertion`: cancelling a running job makes every later transition of its runner
  raise, which ends the service. (The jobs are off in the supported deployment.)
- `profile_lock`: `RuntimeLock.__exit__` unlinks the lock file after it has released it
  (`runtime_lock.py:71`). A process that has the old file open and one that creates a new one
  are both granted their flock, although `runtime.py:415` relies on one live core. In
  conversation mode the core also takes a second lock in a file that is never removed, so that
  two cores are kept apart there; the offline commands (delete, restore, export, stop, resume)
  rely on the first lock alone.

Observations, met while modelling, that no document of the repository contradicts:

- `attempts` of a job is never reset; a recurring job that has passed the limit of its record
  (100) ends every process that claims it. `JobIsServed` excludes these schedules.
- A process killed between `mkstemp` and the rename leaves an `incoming-*` file in the object
  store, which every later backup, export and restore refuses.
- `backup` takes no lock: beside a running core its archive is complete (`ArchiveComplete`),
  beside a deletion or a restore it may miss objects.
- A restore killed between its renames leaves the profile half switched; everything is then in
  the archive made before (`Recoverable`).
- A `resume` that crosses an `emergency-stop` still waiting for the lock lifts its file, and the
  stop reports success.
- An insert that outlives its timed-out derivation may leave two active summaries.
- A message that enters a table below every anchor, or below an anchor in a table larger than
  the window, is not seen.
- The AT-SPI observer uses an overlap that is found once also where it is a repeated text at
  another place: messages before it are then passed over, or, where the pass before was not
  saved, recorded a second time under other ids.
- `HardLimit` and `NoOrphanRow` need a clock that is not set back (over midnight, over a
  restart).

## 7. Not modelled

What the tools themselves do (the external `Act` of `ToolExecution`); the HTTP surface of the
administrator, whose effects are the operator's actions above; configuration, secrets and
redaction, which keep no evolving state; the setup scripts, which act through a start, a stop
or a resume; the research tools; the paging of the canary transport and `/mentions`, window
navigation; message history and audit rows, which nothing reads back into a decision; the
ranking of the full-text search; `memory/compression.py`, which the service does not use; the
encoding and size limits of frames, which are a failure of the exchange; the rules of the
policy for proactive messages, whose verdict is a free choice.
