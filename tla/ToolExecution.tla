--------------------------- MODULE ToolExecution ---------------------------
(***************************************************************************)
(* Tool calls and one-time approvals: the calls of one model turn          *)
(* (_invoke_tool of orchestration/pipeline.py), the durable rows of tool   *)
(* executions (storage/repository.py), the approval rows                   *)
(* (approvals/repository.py, approvals/service.py) and the execution of an *)
(* approved call by the administrator's request                            *)
(* (RepositoryControl._execute_approved_tool of runtime.py).               *)
(*                                                                         *)
(* A request is a tool with exact arguments.  An execution row belongs to  *)
(* a call id of the turn or to an approval; an approval belongs to a       *)
(* request.  What a tool does outside is one effect that may come late.    *)
(***************************************************************************)
EXTENDS Naturals

CONSTANTS
  CallId,         \* ids the model gives to its tool calls
  Request,        \* tools with their arguments
  KindOf,         \* "read", "auto" or "approve": what the policy says of the request
  NoRequest,      \* no request
  Admin,          \* concurrent requests of administrators
  MaxToolCalls,   \* max_tool_calls
  MaxTurns,       \* max_model_turns
  MaxStops        \* bound: how often the process stops

Approval == {r \in Request : KindOf[r] = "approve"}
Row == CallId \cup Approval

ASSUME ToolAssumption ==
  /\ KindOf \in [Request -> {"read", "auto", "approve"}]
  /\ NoRequest \notin Request /\ CallId \cap Request = {} /\ "free" \notin Admin
  /\ MaxToolCalls \in Nat /\ MaxTurns \in Nat /\ MaxStops \in Nat

VARIABLES
  exec, boundTo,        \* tool_executions: state, and the request of a call id
  approval, late,       \* approvals: state; expires_at has passed
  paused, allowed,      \* pause row, allowlist row of the chat
  lock,                 \* side_effect_lock: "free", "pause" or an administrator
  tpc, call, left, used, turns, \* the turn: step, call, calls left, counters
  apc, claim, outcome,  \* each administrator: step, claimed approval, outcome so far
  phase, stops,         \* the process
  invoked, live, effect \* history and the outside: invocations per row, rows whose
                        \* tool may still act, rows whose tool has acted

rows == <<exec, boundTo, approval>>
policy == <<late, paused, allowed>>
turn == <<tpc, call, left, used, turns>>
admin == <<apc, claim, outcome>>
process == <<phase, stops>>
outside == <<invoked, live, effect>>
toolVars == <<rows, policy, lock, turn, admin, process, outside>>

ExecState == {"none", "requested", "executing", "succeeded", "failed", "denied",
              "approval_pending", "unknown"}
ApprovalState == {"none", "pending", "executing", "approved", "denied", "unknown"}

\* A tool without side effect has nothing to undo.
SideEffect(x) ==
  IF x \in Approval THEN TRUE ELSE boundTo[x] # NoRequest /\ KindOf[boundTo[x]] # "read"

---------------------------------------------------------------------------
(* The execution rows.                                                     *)

\* resolve_tool_execution: only from the states the outcome may follow.
Resolved(x, s) ==
  [exec EXCEPT ![x] =
     IF \/ s = "failed" /\ @ \in {"requested", "executing"}
        \/ s \in {"denied", "approval_pending"} /\ @ = "requested"
        \/ s \in {"succeeded", "unknown"} /\ @ = "executing"
     THEN s ELSE @]

\* invoke: from now on the tool may act, at once or late.
Invoke(x) ==
  /\ invoked' = [invoked EXCEPT ![x] = @ + 1]
  /\ live' = IF SideEffect(x) THEN live \cup {x} ELSE live
  /\ UNCHANGED effect

\* The tool acts, perhaps after its timeout or the end of the process.
Act(x) ==
  /\ x \in live
  /\ live' = live \ {x} /\ effect' = effect \cup {x}
  /\ UNCHANGED <<rows, policy, lock, turn, admin, process, invoked>>

\* A tool answers truly: committed after it has acted, failed if it will not act.
Answers(x, a) ==
  \/ a = "ok" /\ (SideEffect(x) => x \in effect) /\ UNCHANGED outside
  \/ a = "failed" /\ x \notin effect /\ live' = live \ {x} /\ UNCHANGED <<invoked, effect>>
  \/ a = "unknown" /\ UNCHANGED outside

---------------------------------------------------------------------------
(* The turn: _run_model_and_tools and _invoke_tool.                        *)

Up == phase = "up"

\* PermanentPipelineError: the event is dead and its turn is not repeated.
EndTurn == tpc' = "over" /\ left' = 0 /\ call' = NoRequest

\* The model asks for n calls; none ends the turn, and so do one too many and a turn too many.
ModelAnswers(n) ==
  /\ Up /\ tpc = "model" /\ turns < MaxTurns
  /\ turns' = turns + 1 /\ used' = used + n
  /\ IF n = 0 \/ used + n > MaxToolCalls THEN EndTurn
     ELSE tpc' = "begin" /\ left' = n /\ UNCHANGED call
  /\ UNCHANGED <<rows, policy, lock, admin, process, outside>>

\* The next call of the answer, or the next request to the model.
NextCall == tpc' = (IF left > 1 THEN "begin" ELSE IF turns < MaxTurns THEN "model" ELSE "over")
            /\ left' = left - 1 /\ call' = NoRequest

\* begin_tool_execution inserts the row.
Begin(c, r) ==
  /\ tpc = "begin" /\ exec[c] = "none"
  /\ exec' = [exec EXCEPT ![c] = "requested"]
  /\ boundTo' = [boundTo EXCEPT ![c] = r]
  /\ tpc' = "check" /\ call' = c
  /\ UNCHANGED <<approval, policy, lock, left, used, turns, admin, process, outside>>

\* duplicate_tool_call: the id was used for the same request.
Duplicate(c) ==
  /\ tpc = "begin" /\ exec[c] # "none"
  /\ NextCall
  /\ UNCHANGED <<rows, policy, lock, used, turns, admin, process, outside>>

\* The id is rebound to another request, or the row cannot be written.
Rebound ==
  /\ tpc = "begin"
  /\ EndTurn
  /\ UNCHANGED <<rows, policy, lock, used, turns, admin, process, outside>>

\* Not enrolled, arguments rejected, URL or data class not authorised, or the policy
\* refuses, now or in its second answer.
Reject ==
  /\ tpc \in {"check", "commit"}
  /\ \E s \in {"denied", "failed"} : exec' = Resolved(call, s)
  /\ NextCall
  /\ UNCHANGED <<boundTo, approval, policy, lock, used, turns, admin, process, outside>>

\* The policy: a side effect is refused while paused.
Permits(x) == ~(paused /\ SideEffect(x))

\* approval_service.request: one row for one exact request, whatever became of it.
RequestApproval ==
  /\ tpc = "check" /\ boundTo[call] \in Approval /\ Permits(call)
  /\ approval' = [approval EXCEPT ![boundTo[call]] = IF @ = "none" THEN "pending" ELSE @]
  /\ tpc' = "pending"
  /\ UNCHANGED <<exec, boundTo, policy, lock, call, left, used, turns, admin, process,
                 outside>>

ApprovalPending ==
  /\ tpc = "pending"
  /\ exec' = Resolved(call, "approval_pending")
  /\ NextCall
  /\ UNCHANGED <<boundTo, approval, policy, lock, used, turns, admin, process, outside>>

\* AUTO, twice.
Preflight ==
  /\ tpc = "check" /\ boundTo[call] \notin Approval /\ Permits(call)
  /\ tpc' = "commit"
  /\ UNCHANGED <<rows, policy, lock, call, left, used, turns, admin, process, outside>>

\* The second answer, then mark_tool_executing.
MarkExecuting ==
  /\ tpc = "commit" /\ Permits(call) /\ exec[call] = "requested"
  /\ exec' = [exec EXCEPT ![call] = "executing"]
  /\ tpc' = "invoke"
  /\ UNCHANGED <<boundTo, approval, policy, lock, call, left, used, turns, admin, process,
                 outside>>

InvokeInTurn ==
  /\ tpc = "invoke"
  /\ Invoke(call)
  /\ tpc' = "wait"
  /\ UNCHANGED <<rows, policy, lock, call, left, used, turns, admin, process>>

Outcome(a) == IF a = "ok" THEN "succeeded" ELSE a

InTurnResult ==
  /\ tpc = "wait"
  /\ \E a \in {"ok", "failed", "unknown"} :
       /\ Answers(call, a)
       /\ exec' = Resolved(call, Outcome(a))
  /\ NextCall
  /\ UNCHANGED <<boundTo, approval, policy, lock, used, turns, admin, process>>

\* Mutant: an exception is a failure, whatever the tool may have done.
InTurnRaisesFailed ==
  /\ tpc = "wait"
  /\ exec' = Resolved(call, "failed")
  /\ NextCall
  /\ UNCHANGED <<boundTo, approval, policy, lock, used, turns, admin, process, outside>>

\* A timeout or an exception of the tool.
InTurnRaises ==
  /\ tpc = "wait"
  /\ exec' = Resolved(call, IF SideEffect(call) THEN "unknown" ELSE "failed")
  /\ NextCall
  /\ UNCHANGED <<boundTo, approval, policy, lock, used, turns, admin, process, outside>>

\* The turn is cancelled (max_task_seconds) or its outcome cannot be written: a call in
\* flight is resolved, one not yet marked keeps its row until the next start.
Cancelled ==
  /\ tpc \notin {"over", "model"}
  /\ \/ tpc = "wait" /\ exec' = Resolved(call, IF SideEffect(call) THEN "unknown" ELSE "failed")
     \/ UNCHANGED exec
  /\ EndTurn
  /\ UNCHANGED <<boundTo, approval, policy, lock, used, turns, admin, process, outside>>

---------------------------------------------------------------------------
(* The approvals and the administrators.                                   *)

\* _expire_pending comes first in every transaction below.
Expired == [b \in Approval |-> IF approval[b] = "pending" /\ late[b] THEN "denied" ELSE approval[b]]

\* list_pending
ListPending(a) ==
  /\ Up /\ apc[a] = "idle"
  /\ approval' = Expired
  /\ UNCHANGED <<exec, boundTo, policy, lock, turn, admin, process, outside>>

Deny(a, b) ==
  /\ Up /\ apc[a] = "idle"
  /\ approval' = [Expired EXCEPT ![b] = IF @ = "pending" THEN "denied" ELSE @]
  /\ UNCHANGED <<exec, boundTo, policy, lock, turn, admin, process, outside>>

\* approve_once: pending and in time becomes executing, for this claim only.
Claim(a, b) ==
  /\ Up /\ apc[a] = "idle" /\ Expired[b] = "pending"
  /\ approval' = [Expired EXCEPT ![b] = "executing"]
  /\ apc' = [apc EXCEPT ![a] = "lock"] /\ claim' = [claim EXCEPT ![a] = b]
  /\ outcome' = [outcome EXCEPT ![a] = "denied"]
  /\ UNCHANGED <<exec, boundTo, policy, lock, turn, process, outside>>

\* Mutant: the call is judged and made without the lock.
TakeNoLock(a) ==
  /\ apc[a] = "lock"
  /\ apc' = [apc EXCEPT ![a] = "check"]
  /\ UNCHANGED <<rows, policy, lock, turn, claim, outcome, process, outside>>

TakeLock(a) ==
  /\ apc[a] = "lock" /\ lock = "free"
  /\ lock' = a
  /\ apc' = [apc EXCEPT ![a] = "check"]
  /\ UNCHANGED <<rows, policy, turn, claim, outcome, process, outside>>

\* The lock is given back on the way to the finally block.
Leave(a, o) ==
  /\ lock' = IF lock = a THEN "free" ELSE lock
  /\ outcome' = [outcome EXCEPT ![a] = o]
  /\ apc' = [apc EXCEPT ![a] = "settle"]

\* Event or tool gone, chat no longer allowed, schema changed, policy against it.
Revalidate(a) ==
  /\ apc[a] = "check"
  /\ IF allowed /\ ~paused
     THEN apc' = [apc EXCEPT ![a] = "begin"] /\ UNCHANGED <<lock, outcome>>
     ELSE Leave(a, "denied")
  /\ UNCHANGED <<rows, policy, turn, claim, process, outside>>

BeginApproved(a) ==
  /\ apc[a] = "begin"
  /\ IF exec[claim[a]] = "none"
     THEN /\ exec' = [exec EXCEPT ![claim[a]] = "requested"]
          /\ apc' = [apc EXCEPT ![a] = "mark"] /\ UNCHANGED <<lock, outcome>>
     ELSE Leave(a, "unknown") /\ UNCHANGED exec
  /\ UNCHANGED <<boundTo, approval, policy, turn, claim, process, outside>>

\* mark_tool_executing, and the tool is called.
InvokeApproved(a) ==
  /\ apc[a] = "mark"
  /\ exec' = [exec EXCEPT ![claim[a]] = "executing"]
  /\ Invoke(claim[a])
  /\ apc' = [apc EXCEPT ![a] = "wait"]
  /\ UNCHANGED <<boundTo, approval, policy, lock, turn, claim, outcome, process>>

\* Only a committed result is an approval; the row of the execution comes first.
ApprovedResult(a) ==
  /\ apc[a] = "wait"
  /\ \E r \in {"ok", "failed", "unknown"} :
       /\ Answers(claim[a], r)
       /\ exec' = Resolved(claim[a], IF r = "ok" THEN "succeeded" ELSE "unknown")
       /\ Leave(a, IF r = "ok" THEN "approved" ELSE "unknown")
  /\ UNCHANGED <<boundTo, approval, policy, turn, claim, process>>

\* An exception, a timeout or a cancelled request.
Raised(a) ==
  /\ apc[a] \in {"lock", "check", "begin", "mark", "wait"}
  /\ Leave(a, IF apc[a] = "wait" THEN "unknown" ELSE "denied")
  /\ UNCHANGED <<rows, policy, turn, claim, process, outside>>

\* finally: an execution row not resolved yet is, or cannot be.
SettleRow(a) ==
  /\ apc[a] = "settle"
  /\ \/ /\ exec' = Resolved(claim[a], IF outcome[a] = "unknown" THEN "unknown" ELSE "failed")
        /\ UNCHANGED outcome
     \/ /\ exec[claim[a]] # "none"
        /\ outcome' = [outcome EXCEPT ![a] = IF @ = "approved" THEN @ ELSE "unknown"]
        /\ UNCHANGED exec
  /\ apc' = [apc EXCEPT ![a] = "resolve"]
  /\ UNCHANGED <<boundTo, approval, policy, lock, turn, claim, process, outside>>

Idle(a) == apc' = [apc EXCEPT ![a] = "idle"] /\ claim' = [claim EXCEPT ![a] = NoRequest]

\* resolve: only an executing row, and only with its claim token; or it fails.
ResolveApproval(a) ==
  /\ apc[a] = "resolve"
  /\ \/ approval' = [approval EXCEPT ![claim[a]] = IF @ = "executing" THEN outcome[a] ELSE @]
     \/ UNCHANGED approval
  /\ Idle(a)
  /\ UNCHANGED <<exec, boundTo, policy, lock, turn, outcome, process, outside>>

---------------------------------------------------------------------------
(* The world and the process.                                              *)

Expire(b) ==
  /\ approval[b] = "pending" /\ ~late[b]
  /\ late' = [late EXCEPT ![b] = TRUE]
  /\ UNCHANGED <<rows, paused, allowed, lock, turn, admin, process, outside>>

\* set_pause waits for side_effect_lock.
SetPause ==
  /\ Up /\ lock = "free"
  /\ paused' = ~paused
  /\ UNCHANGED <<rows, late, allowed, lock, turn, admin, process, outside>>

Disallow ==
  /\ allowed
  /\ allowed' = FALSE
  /\ UNCHANGED <<rows, late, paused, lock, turn, admin, process, outside>>

Stop ==
  /\ phase # "down" /\ stops < MaxStops
  /\ stops' = stops + 1 /\ phase' = "down"
  /\ lock' = "free"
  /\ tpc' = "over" /\ call' = NoRequest /\ left' = 0
  /\ apc' = [a \in Admin |-> "idle"] /\ claim' = [a \in Admin |-> NoRequest]
  /\ UNCHANGED <<rows, policy, used, turns, outcome, outside>>

\* recover_interrupted, the tool executions.
RecoverRows ==
  /\ phase = "down"
  /\ exec' = [x \in Row |-> IF exec[x] = "requested" THEN "failed"
                            ELSE IF exec[x] = "executing" THEN "unknown" ELSE exec[x]]
  /\ phase' = "recovering"
  /\ UNCHANGED <<boundTo, approval, policy, lock, turn, admin, stops, outside>>

\* Mutant: an interrupted execution may be approved again.
RecoverApprovalsRequeues ==
  /\ phase = "recovering"
  /\ approval' = [b \in Approval |-> IF approval[b] = "executing" THEN "pending" ELSE approval[b]]
  /\ phase' = "up"
  /\ UNCHANGED <<exec, boundTo, policy, lock, turn, admin, stops, outside>>

\* recover_executing
RecoverApprovals ==
  /\ phase = "recovering"
  /\ approval' = [b \in Approval |-> IF approval[b] = "executing" THEN "unknown" ELSE approval[b]]
  /\ phase' = "up"
  /\ UNCHANGED <<exec, boundTo, policy, lock, turn, admin, stops, outside>>

---------------------------------------------------------------------------
ToolInit ==
  /\ exec = [x \in Row |-> "none"] /\ boundTo = [c \in CallId |-> NoRequest]
  /\ approval = [b \in Approval |-> "none"] /\ late = [b \in Approval |-> FALSE]
  /\ paused = FALSE /\ allowed = TRUE /\ lock = "free"
  /\ tpc = "model" /\ call = NoRequest /\ left = 0 /\ used = 0 /\ turns = 0
  /\ apc = [a \in Admin |-> "idle"] /\ claim = [a \in Admin |-> NoRequest]
  /\ outcome = [a \in Admin |-> "denied"]
  /\ phase = "up" /\ stops = 0
  /\ invoked = [x \in Row |-> 0] /\ live = {} /\ effect = {}

TurnStep ==
  \/ \E n \in 0 .. MaxToolCalls + 1 : ModelAnswers(n)
  \/ \E c \in CallId, r \in Request : Begin(c, r)
  \/ \E c \in CallId : Duplicate(c)
  \/ Rebound \/ Reject \/ RequestApproval \/ ApprovalPending \/ Preflight \/ MarkExecuting
  \/ InvokeInTurn \/ InTurnResult \/ InTurnRaises \/ Cancelled

AdminStep(a) ==
  \/ ListPending(a)
  \/ \E b \in Approval : Deny(a, b) \/ Claim(a, b)
  \/ TakeLock(a) \/ Revalidate(a) \/ BeginApproved(a) \/ InvokeApproved(a)
  \/ ApprovedResult(a) \/ Raised(a) \/ SettleRow(a) \/ ResolveApproval(a)

ToolNext ==
  \/ TurnStep
  \/ \E a \in Admin : AdminStep(a)
  \/ \E x \in Row : Act(x)
  \/ \E b \in Approval : Expire(b)
  \/ SetPause \/ Disallow \/ Stop \/ RecoverRows \/ RecoverApprovals

ToolSpec == ToolInit /\ [][ToolNext]_toolVars

---------------------------------------------------------------------------
(* Properties.                                                             *)

\* The values of the tables and of the tasks.
ToolTypeOK ==
  /\ exec \in [Row -> ExecState] /\ boundTo \in [CallId -> Request \cup {NoRequest}]
  /\ approval \in [Approval -> ApprovalState] /\ late \in [Approval -> BOOLEAN]
  /\ paused \in BOOLEAN /\ allowed \in BOOLEAN /\ lock \in Admin \cup {"free"}
  /\ tpc \in {"model", "begin", "check", "pending", "commit", "invoke", "wait", "over"}
  /\ call \in CallId \cup {NoRequest}
  /\ left \in Nat /\ used \in Nat /\ turns \in Nat /\ stops \in Nat
  /\ apc \in [Admin -> {"idle", "lock", "check", "begin", "mark", "wait", "settle", "resolve"}]
  /\ claim \in [Admin -> Approval \cup {NoRequest}]
  /\ outcome \in [Admin -> {"approved", "denied", "unknown"}]
  /\ phase \in {"up", "down", "recovering"}
  /\ invoked \in [Row -> Nat] /\ live \subseteq Row /\ effect \subseteq Row

\* No effect goes unrecorded: what a tool has done or may still do is behind a row that says
\* it was executing, has succeeded or is not known; a row called failed or denied, after
\* whatever exception, cancellation or crash, never had an effect and never will.
NoSilentEffect ==
  \A x \in live \cup effect : exec[x] \in {"executing", "succeeded", "unknown"}

\* What the administrator is told is true: an approved action was done, once; a denied one
\* was never done and will not be.
ApprovalIsTrue ==
  \A b \in Approval :
    /\ approval[b] = "approved" => b \in effect
    /\ approval[b] = "denied" => b \notin live /\ b \notin effect
    /\ invoked[b] <= 1

\* An approved call starts only on a chat that is not paused, although the request to pause
\* runs beside it (side_effect_lock spans the policy's answers and the call).
PauseHoldsApproved ==
  [][\A b \in Approval : invoked'[b] # invoked[b] => ~paused]_toolVars

---------------------------------------------------------------------------
(* The inductive invariant.                                                *)

\* Without a process there are no tasks.
StoppedIsStill ==
  phase # "up" => tpc = "over" /\ lock = "free" /\ \A a \in Admin : apc[a] = "idle"

\* The row of the call a turn works on; before the invocation it has no effect.
TurnRow ==
  /\ tpc \notin {"model", "over"} => left > 0
  /\ tpc \in {"check", "pending", "commit", "invoke", "wait"} =>
       call \in CallId /\ boundTo[call] \in Request
  /\ tpc \in {"check", "pending", "commit"} => exec[call] = "requested"
  /\ tpc \in {"invoke", "wait"} => exec[call] = "executing"

\* What may act is a side effect of a row that was marked.
EffectsMarked == NoSilentEffect /\ \A x \in live \cup effect : SideEffect(x)

\* An administrator that is past the claim owns the approval's row.
Claimed(a) ==
  /\ claim[a] \in Approval /\ approval[claim[a]] = "executing"
  /\ \A d \in Admin : apc[d] # "idle" /\ claim[d] = claim[a] => d = a

\* What the steps of an administrator have made of its execution row.
AdminRow(a) ==
  LET b == claim[a] IN
  /\ apc[a] \in {"lock", "check", "begin"} => exec[b] = "none"
  /\ apc[a] = "mark" => exec[b] = "requested"
  /\ apc[a] = "wait" => exec[b] = "executing"
  /\ apc[a] = "settle" /\ outcome[a] = "approved" => exec[b] = "succeeded" /\ b \in effect
  /\ apc[a] = "settle" /\ outcome[a] = "denied" => exec[b] \in {"none", "requested"}
  /\ apc[a] = "resolve" /\ outcome[a] = "approved" => b \in effect
  /\ apc[a] = "resolve" /\ outcome[a] = "denied" => exec[b] \in {"none", "failed"}

\* From the policy's answers to the call nobody else has the lock, and so nobody pauses.
LockHeld(a) ==
  /\ apc[a] \in {"check", "begin", "mark", "wait"} => lock = a
  /\ apc[a] \in {"begin", "mark"} => ~paused

\* An approval not yet claimed has no execution; one not yet marked was not invoked.
ApprovalRow(b) ==
  /\ approval[b] \in {"none", "pending"} => exec[b] = "none"
  /\ exec[b] \in {"none", "requested"} => invoked[b] = 0

ToolInv ==
  /\ ToolTypeOK /\ StoppedIsStill /\ TurnRow /\ EffectsMarked /\ ApprovalIsTrue
  /\ \A a \in Admin : (apc[a] # "idle" => Claimed(a) /\ AdminRow(a)) /\ LockHeld(a)
  /\ \A b \in Approval : ApprovalRow(b)
=============================================================================
