----------------------------- MODULE WorkerRpc -----------------------------
(***************************************************************************)
(* One isolated worker process and its proxy in the core: the model worker *)
(* (models/worker_proxy.py, models/worker.py, models/gateway.py), the      *)
(* vision worker with its two phases (models/vision_worker_proxy.py,       *)
(* models/vision_worker.py, models/vision.py) and the browser worker       *)
(* (tools/browser_worker_proxy.py, tools/browser_worker.py), over the      *)
(* framed pipes of ipc/framing.py and the processes of                     *)
(* supervisor/processes.py.                                                *)
(*                                                                         *)
(* A call is one task of the core that uses the proxy once.  A frame is    *)
(* its call, which stands for the request id, and a message type.          *)
(***************************************************************************)
EXTENDS Naturals, Sequences

CONSTANTS
  Kind,     \* the workers looked at: a subset of {"model", "vision", "browser"}
  Caller,   \* calls of the proxy
  NoCall    \* no call

ASSUME WorkerAssumption == Kind \subseteq {"model", "vision", "browser"} /\ NoCall \notin Caller

VARIABLES
  kind,                 \* which worker this is
  created,              \* "no", "yes" or "failed": create()
  holder, poisoned,     \* who has _request_lock, and _poisoned with _closed
  phase, op, verdict,   \* each call: step, operation, what is left to do after the answer
  res, ledgerFailed,    \* the reservation of each call; the ledger refused a settlement
  proc,                 \* "up", "stopping" (stdin closed, SIGTERM sent) or "gone"
  toWorker, fromWorker, \* the pipes
  wst, cur, pending,    \* the worker: step, frame in hand, prepared image
  called                \* history: calls whose request was put on the wire to the provider

proxy == <<created, holder, poisoned>>
calls == <<phase, op, verdict>>
money == <<res, ledgerFailed>>
pipes == <<toWorker, fromWorker>>
worker == <<wst, cur, pending, called>>
workerVars == <<kind, proxy, calls, money, proc, pipes, worker>>

Operations ==
  CASE kind = "model" -> {"generate", "balance", "verify", "shutdown"}
    [] kind = "vision" -> {"analyze", "shutdown"}
    [] kind = "browser" -> {"invoke", "shutdown"}

\* What comes after the answer: the money, and whether the worker is given up.
Verdict == [money : {"keep", "charge", "release", "settle"}, poison : BOOLEAN]
Plain == [money |-> "keep", poison |-> FALSE]
GiveUp(m) == [money |-> m, poison |-> TRUE]
GoOn(m) == [money |-> m, poison |-> FALSE]

Frame(c, t) == [call |-> c, type |-> t]
NoFrame == Frame(NoCall, "none")
\* An answer: the request it is for, its type, provider_call_started and worker_must_close.
Answer(f, t, s) == [call |-> f.call, to |-> f.type, type |-> t, started |-> s, close |-> FALSE]
LastAnswer(f, t, s) == [call |-> f.call, to |-> f.type, type |-> t, started |-> s, close |-> TRUE]

---------------------------------------------------------------------------
(* The proxy.                                                              *)

\* _terminate: once; stdin is closed and the process is told to end.
TerminateWorker ==
  /\ poisoned' = TRUE
  /\ proc' = IF proc = "up" THEN "stopping" ELSE proc

TerminateIf(b) == IF b THEN TerminateWorker ELSE UNCHANGED <<poisoned, proc>>

\* create() starts the worker and sends the first frame; the calls come after it.
Arrive(c, o) ==
  /\ phase[c] = "new"
  /\ IF created = "no" THEN o = "init" /\ \A d \in Caller : phase[d] = "new"
     ELSE created = "yes" /\ o \in Operations
  /\ phase' = [phase EXCEPT ![c] = "waiting"] /\ op' = [op EXCEPT ![c] = o]
  /\ UNCHANGED <<kind, proxy, verdict, money, proc, pipes, worker>>

\* The call has the lock: an unusable worker is given up, a closed one stays closed, and a
\* request that does not fit is refused before anything is reserved.
Enter(c) ==
  /\ phase[c] = "waiting" /\ holder = NoCall
  /\ holder' = c
  /\ \/ /\ poisoned \/ proc = "gone"
        /\ TerminateWorker
        /\ phase' = [phase EXCEPT ![c] = "leave"]
     \/ /\ ~poisoned
        /\ \E s \in {"reserve", "leave"} : op[c] = "generate" /\ phase' = [phase EXCEPT ![c] = s]
        /\ UNCHANGED <<poisoned, proc>>
     \/ /\ ~poisoned /\ op[c] # "generate"
        /\ phase' = [phase EXCEPT ![c] = "send"]
        /\ UNCHANGED <<poisoned, proc>>
  /\ UNCHANGED <<kind, created, op, verdict, money, pipes, worker>>

\* budget.reserve: refused or cancelled, the model worker has seen nothing yet, while the
\* vision worker holds a prepared image that nobody will commit.
ReserveFor(c) ==
  /\ phase[c] = "reserve"
  /\ \/ /\ res' = [res EXCEPT ![c] = "reserved"]
        /\ phase' = [phase EXCEPT ![c] = "send"]
        /\ UNCHANGED <<poisoned, proc>>
     \/ /\ phase' = [phase EXCEPT ![c] = "leave"]
        /\ TerminateIf(kind = "vision")
        /\ UNCHANGED res
  /\ UNCHANGED <<kind, created, holder, op, verdict, ledgerFailed, pipes, worker>>

\* The frame an operation sends next: vision commits what was prepared and paid for.
FrameType(c) == IF op[c] = "analyze" /\ res[c] = "reserved" THEN "commit" ELSE op[c]

\* _rpc: the frame is written while the process is there.
WriteRequest(c) ==
  /\ phase[c] = "send" /\ proc = "up"
  /\ toWorker' = Append(toWorker, Frame(c, FrameType(c)))
  /\ phase' = [phase EXCEPT ![c] = "recv"]
  /\ UNCHANGED <<kind, proxy, op, verdict, money, proc, fromWorker, worker>>

\* What an answer of the expected type leads to, if its payload is accepted; "settle" is the
\* reported usage, or the whole reservation where the usage is missing or out of range.
Accepted(c, a) ==
  CASE op[c] = "generate" -> GoOn("settle")
    [] a.type = "result" /\ op[c] = "analyze" ->
         [money |-> IF a.started THEN "settle" ELSE "release", poison |-> a.close]
    [] op[c] = "shutdown" -> GiveUp("keep")
    [] OTHER -> Plain

\* Mutant: an error is believed to have cost nothing.
RemoteFailureFree(c, a) ==
  [money |-> IF res[c] = "none" THEN "keep" ELSE "release",
   poison |-> a.type = "error_hard" \/ op[c] \in {"init", "shutdown", "invoke"}
              \/ FrameType(c) = "commit"]

\* _RemoteFailure: the worker says whether the provider was called; invalid_request and
\* internal give it up, and so does any failure of a commit, of the start or of a browser call.
RemoteFailure(c, a) ==
  [money |-> IF res[c] = "none" THEN "keep" ELSE IF a.started THEN "charge" ELSE "release",
   poison |-> \/ a.type = "error_hard" /\ op[c] # "balance"
              \/ op[c] \in {"init", "shutdown", "invoke"}
              \/ FrameType(c) = "commit"]

\* The exchange failed: whatever was reserved is charged, and the worker is given up.
Failed(c) == GiveUp(IF res[c] = "none" THEN "keep" ELSE "charge")

Expected(c) == IF FrameType(c) = "analyze" THEN "prepared" ELSE "result"

\* _validate_prepared and _validate_result: a payload that is out of bounds, or not about what
\* was asked, is a failure of the exchange.
Validated(c, v) == {v, Failed(c)}

\* read_frame: an answer to another request, of another type or that does not validate is a
\* failure of the exchange.
ReadAnswer(c) ==
  /\ phase[c] = "recv" /\ fromWorker # <<>>
  /\ LET a == Head(fromWorker)
         mine == a.call = c /\ a.to = FrameType(c)
         v == IF mine /\ a.type \in {"error_soft", "error_hard"} THEN RemoteFailure(c, a)
              ELSE IF mine /\ a.type = Expected(c) THEN Accepted(c, a)
              ELSE Failed(c)
     IN \E w \in Validated(c, v) :
          /\ verdict' = [verdict EXCEPT ![c] = w]
          /\ phase' = [phase EXCEPT ![c] = IF a.type = "prepared" /\ w = v THEN "reserve" ELSE "settle"]
          /\ created' = IF op[c] # "init" THEN created
                        ELSE IF w = Plain THEN "yes" ELSE "failed"
          /\ TerminateIf(w = Failed(c))
  /\ fromWorker' = Tail(fromWorker)
  /\ UNCHANGED <<kind, holder, op, money, toWorker, worker>>

\* Mutant: a call that was cancelled or timed out takes nothing down with it.
RpcFailsQuietly(c) ==
  /\ phase[c] \in {"send", "recv"}
  /\ verdict' = [verdict EXCEPT ![c] = GoOn(Failed(c).money)]
  /\ phase' = [phase EXCEPT ![c] = "settle"]
  /\ created' = IF op[c] = "init" THEN "failed" ELSE created
  /\ UNCHANGED <<kind, holder, poisoned, proc, op, money, pipes, worker>>

\* Mutant: the exchange has no timeout.
RpcFailsAtEnd(c) ==
  /\ phase[c] \in {"send", "recv"} /\ proc = "gone"
  /\ TerminateWorker
  /\ verdict' = [verdict EXCEPT ![c] = Failed(c)]
  /\ phase' = [phase EXCEPT ![c] = "settle"]
  /\ created' = IF op[c] = "init" THEN "failed" ELSE created
  /\ UNCHANGED <<kind, holder, op, money, pipes, worker>>

\* The timeout, a cancelled caller, a broken pipe or a process that has ended.
RpcFails(c) ==
  /\ phase[c] \in {"send", "recv"}
  /\ TerminateWorker
  /\ verdict' = [verdict EXCEPT ![c] = Failed(c)]
  /\ phase' = [phase EXCEPT ![c] = "settle"]
  /\ created' = IF op[c] = "init" THEN "failed" ELSE created
  /\ UNCHANGED <<kind, holder, op, money, pipes, worker>>

\* A caller that no longer waits for the lock.
CancelWaiting(c) ==
  /\ phase[c] = "waiting" /\ op[c] # "init"
  /\ phase' = [phase EXCEPT ![c] = "done"]
  /\ UNCHANGED <<kind, proxy, op, verdict, money, proc, pipes, worker>>

Settled(m) ==
  CASE m = "charge" -> "charged" [] m = "release" -> "released" [] m = "settle" -> "settled"

\* _critical_transition: the money first, even for a cancelled caller, which also gives the
\* worker up; a ledger that fails does so too.
SettleCall(c) ==
  /\ phase[c] = "settle"
  /\ \/ /\ verdict[c].money = "keep"
        /\ TerminateIf(verdict[c].poison)
        /\ UNCHANGED money
     \/ /\ verdict[c].money # "keep"
        /\ \E cancelled \in BOOLEAN, ok \in BOOLEAN :
             /\ res' = IF ok THEN [res EXCEPT ![c] = Settled(verdict[c].money)] ELSE res
             /\ ledgerFailed' = (ledgerFailed \/ ~ok)
             /\ TerminateIf(verdict[c].poison \/ cancelled \/ ~ok)
  /\ phase' = [phase EXCEPT ![c] = "leave"]
  /\ UNCHANGED <<kind, created, holder, op, verdict, pipes, worker>>

Leave(c) ==
  /\ phase[c] = "leave"
  /\ phase' = [phase EXCEPT ![c] = "done"]
  /\ holder' = NoCall
  /\ UNCHANGED <<kind, created, poisoned, op, verdict, money, proc, pipes, worker>>

---------------------------------------------------------------------------
(* The worker, which goes on until the signal has reached it.              *)

Running == proc # "gone"

\* read_frame_sync; only an init frame is taken first.
WorkerReads ==
  /\ Running /\ wst = "read" /\ toWorker # <<>>
  /\ cur' = Head(toWorker) /\ toWorker' = Tail(toWorker)
  /\ wst' = "work"
  /\ UNCHANGED <<kind, proxy, calls, money, proc, fromWorker, pending, called>>

\* The request goes out to the provider (generate and analyze of the backends).
CallProvider ==
  /\ Running /\ wst = "work"
  /\ cur.type = "generate" \/ (cur.type = "commit" /\ pending = cur.call)
  /\ called' = called \cup {cur.call}
  /\ wst' = "called"
  /\ UNCHANGED <<kind, proxy, calls, money, proc, pipes, cur, pending>>

\* The answers of the model worker: what is known to come before the call says so.
ModelAnswers ==
  IF cur.type = "generate"
  THEN {Answer(cur, t, TRUE) : t \in {"error_soft", "error_hard"}}
       \cup (IF wst = "called" THEN {Answer(cur, "result", TRUE)}
             ELSE {Answer(cur, t, FALSE) : t \in {"error_soft", "error_hard"}})
  ELSE {Answer(cur, t, FALSE) : t \in {"result", "error_soft", "error_hard"}}

\* The answers of the vision worker.  A commit that fails around the call ends it; only a
\* missing credential or a refused zero-price budget keeps it for the next image.
VisionAnswers ==
  CASE cur.type = "analyze" ->
         {Answer(cur, t, FALSE) : t \in {"prepared", "error_soft", "error_hard"}}
    [] cur.type = "commit" ->
         {LastAnswer(cur, "error_soft", TRUE)}
         \cup (IF wst = "called" THEN {Answer(cur, "result", TRUE), LastAnswer(cur, "result", TRUE)}
               ELSE {LastAnswer(cur, "error_hard", FALSE), Answer(cur, "result", FALSE),
                     LastAnswer(cur, "result", FALSE)})
    [] OTHER -> {Answer(cur, t, FALSE) : t \in {"result", "error_hard"}}

BrowserAnswers == {Answer(cur, t, FALSE) : t \in {"result", "error_hard"}}

WorkerAnswers ==
  CASE kind = "model" -> ModelAnswers
    [] kind = "vision" -> VisionAnswers
    [] kind = "browser" -> BrowserAnswers

\* write_frame_sync, and the worker reads on or ends: a first frame refused, a shutdown or a
\* last answer is its end.
WorkerReplies ==
  /\ Running /\ wst \in {"work", "called"}
  /\ \E a \in WorkerAnswers :
       /\ fromWorker' = Append(fromWorker, a)
       /\ pending' = IF a.type = "prepared" THEN cur.call
                     ELSE IF cur.type = "commit" THEN NoCall ELSE pending
       /\ proc' = IF a.close \/ cur.type = "shutdown" \/ (cur.type = "init" /\ a.type # "result")
                  THEN "gone" ELSE proc
  /\ wst' = "read" /\ cur' = NoFrame
  /\ UNCHANGED <<kind, proxy, calls, money, toWorker, called>>

\* The end of the process: EOF on stdin, SIGTERM, SIGKILL after the grace period, a crash or a
\* reply it cannot write.
WorkerEnds ==
  /\ Running
  /\ proc' = "gone"
  /\ UNCHANGED <<kind, proxy, calls, money, pipes, worker>>

---------------------------------------------------------------------------
WorkerInit ==
  /\ kind \in Kind
  /\ created = "no" /\ holder = NoCall /\ poisoned = FALSE
  /\ phase = [c \in Caller |-> "new"] /\ op = [c \in Caller |-> "init"]
  /\ verdict = [c \in Caller |-> Plain]
  /\ res = [c \in Caller |-> "none"] /\ ledgerFailed = FALSE
  /\ proc = "up" /\ toWorker = <<>> /\ fromWorker = <<>>
  /\ wst = "read" /\ cur = NoFrame /\ pending = NoCall /\ called = {}

CallerStep(c) ==
  \/ Enter(c) \/ ReserveFor(c) \/ WriteRequest(c) \/ ReadAnswer(c) \/ RpcFails(c) \/ SettleCall(c) \/ Leave(c)

WorkerNext ==
  \/ \E c \in Caller : \E o \in Operations \cup {"init"} : Arrive(c, o)
  \/ \E c \in Caller : CallerStep(c) \/ CancelWaiting(c)
  \/ WorkerReads \/ CallProvider \/ WorkerReplies \/ WorkerEnds

\* Tasks run (the lock is first in, first out, a wait has its timeout), and a process that was
\* told to end does: SIGKILL follows SIGTERM.
WorkerSpec ==
  /\ WorkerInit /\ [][WorkerNext]_workerVars
  /\ \A c \in Caller : WF_workerVars(CallerStep(c))
  /\ WF_workerVars(poisoned /\ WorkerEnds)

---------------------------------------------------------------------------
(* Properties.                                                             *)

\* The values of the proxy, the pipes and the worker.
WorkerTypeOK ==
  /\ kind \in {"model", "vision", "browser"} /\ created \in {"no", "yes", "failed"}
  /\ holder \in Caller \cup {NoCall} /\ poisoned \in BOOLEAN /\ ledgerFailed \in BOOLEAN
  /\ phase \in [Caller -> {"new", "waiting", "reserve", "send", "recv", "settle", "leave", "done"}]
  /\ op \in [Caller -> {"init", "generate", "balance", "verify", "analyze", "invoke", "shutdown"}]
  /\ verdict \in [Caller -> Verdict]
  /\ res \in [Caller -> {"none", "reserved", "charged", "released", "settled"}]
  /\ proc \in {"up", "stopping", "gone"} /\ wst \in {"read", "work", "called"}
  /\ pending \in Caller \cup {NoCall} /\ called \subseteq Caller

\* No call is free: a reservation is given back only if the provider was never called for it
\* and never will be, although the core sees the call only through the frames of a process
\* that may crash, hang or answer late.
NoFreeCall == \A c \in called : res[c] \in {"reserved", "charged", "settled"}

\* A worker that is still in use between two calls has nothing left over from the last one:
\* no frame in a pipe, no request in hand, no prepared image; so the next answer is the
\* answer to the next request.
CleanWhenFree ==
  holder = NoCall /\ ~poisoned =>
    /\ toWorker = <<>> /\ fromWorker = <<>>
    /\ cur = NoFrame /\ pending = NoCall

\* Every call of the proxy ends, with its reservation settled unless the ledger itself failed,
\* and a worker that was given up is gone.
CallEnds ==
  /\ \A c \in Caller : phase[c] = "waiting" ~> phase[c] = "done" /\ (res[c] # "reserved" \/ ledgerFailed)
  /\ poisoned ~> proc = "gone"

---------------------------------------------------------------------------
(* The inductive invariant.                                                *)

FrameTypes == {"init", "generate", "balance", "verify", "analyze", "commit", "invoke", "shutdown"}
Frames == [call : Caller, type : FrameTypes]
AnswerTypes == {"prepared", "result", "error_soft", "error_hard"}
Answers == [call : Caller, to : FrameTypes, type : AnswerTypes, started : BOOLEAN, close : BOOLEAN]

\* The frames a provider is called for.
Paid == {"generate", "commit"}

\* _request_lock: a call is past the wait while it holds the lock, and a worker that was
\* given up is asked for nothing more.
OneHolder ==
  /\ \A c \in Caller :
       phase[c] \in {"reserve", "send", "recv", "settle", "leave"} <=> holder = c
  /\ poisoned => \A c \in Caller : phase[c] \notin {"reserve", "send", "recv"}

\* Each worker has its own operations, and the money is reserved before a paid frame is sent.
ReservedFirst(c) ==
  /\ op[c] = "generate" => kind = "model"
  /\ op[c] = "analyze" => kind = "vision"
  /\ phase[c] \in {"new", "waiting", "reserve"} => res[c] = "none"
  /\ phase[c] \in {"send", "recv"} => res[c] \in {"none", "reserved"}
  /\ phase[c] \in {"send", "recv"} /\ op[c] = "generate" => res[c] = "reserved"

\* One frame or answer is under way at a time, and none while the worker is not waited for.
Empty == toWorker = <<>> /\ fromWorker = <<>> /\ wst = "read"

AtMostOne(S) == {<<>>} \cup {<<x>> : x \in S}

OneUnderWay ==
  /\ toWorker \in AtMostOne(Frames) /\ fromWorker \in AtMostOne(Answers)
  /\ IF wst = "read" THEN cur = NoFrame ELSE cur \in Frames
  /\ toWorker # <<>> => fromWorker = <<>> /\ wst = "read"
  /\ fromWorker # <<>> => wst = "read"
  /\ ~poisoned => (Empty <=> \A c \in Caller : phase[c] # "recv")

\* The money of a call that has reached the provider, or may: it is not on the way back.
Owed(c) ==
  /\ phase[c] \in {"recv", "settle", "leave", "done"} /\ op[c] \in {"generate", "analyze"}
  /\ res[c] \in {"reserved", "charged", "settled"}
  /\ phase[c] = "settle" => verdict[c].money # "release"

\* A request under way is the one its call waits for, unless the worker was given up.
RequestOK(f) ==
  /\ f.type \in Paid => Owed(f.call) /\ (wst # "called" => f.call \notin called)
  /\ f.type = "generate" => kind = "model"
  /\ f.type = "commit" => kind = "vision"
  /\ ~poisoned => phase[f.call] = "recv" /\ f.type = FrameType(f.call)
  /\ ~poisoned /\ pending # NoCall => f.type = "commit"

\* So is an answer, and one that says the provider was not called is right.
AnswerOK(a) ==
  /\ a.to \in Paid /\ ~a.started => a.call \notin called
  /\ a.type = "prepared" => a.to = "analyze"
  /\ ~poisoned => phase[a.call] = "recv" /\ a.to = FrameType(a.call)
  /\ ~poisoned /\ pending # NoCall => a.type = "prepared"

\* A prepared image is kept from the answer of analyze to the answer of its commit.
PendingOK ==
  ~poisoned /\ pending # NoCall =>
    /\ holder # NoCall /\ op[holder] = "analyze"
    /\ phase[holder] \in {"reserve", "send", "recv"}
    /\ phase[holder] = "send" => res[holder] = "reserved"

WorkerInv ==
  /\ WorkerTypeOK /\ OneHolder /\ OneUnderWay /\ PendingOK
  /\ \A c \in Caller : ReservedFirst(c) /\ (c \in called => Owed(c))
  /\ toWorker # <<>> => RequestOK(Head(toWorker))
  /\ wst # "read" => RequestOK(cur)
  /\ fromWorker # <<>> => AnswerOK(Head(fromWorker))

\* The answer a call reads is the answer to the request it has sent, although the pipes carry
\* the frames of all calls: what a timeout left behind is never read.
AnswerIsMine ==
  \A c \in Caller : phase[c] = "recv" /\ fromWorker # <<>> =>
    Head(fromWorker).call = c /\ Head(fromWorker).to = FrameType(c)
=============================================================================
