--------------------------- MODULE ProactiveJobs ---------------------------
(***************************************************************************)
(* The scheduler of proactive messages: the proactive_jobs table           *)
(* (proactive/store.py) and the runner that claims a due job, judges it,   *)
(* pays the model for a text and queues the text in the outbox             *)
(* (proactive/runner.py).  One action is one transaction of the store or   *)
(* one await of run_once.  A job may be one-off or recurring; the          *)
(* administrator may cancel it at any moment, and the process may stop at  *)
(* any step.                                                               *)
(*                                                                         *)
(* Time is counted in whole units.  An occurrence of a job is the due_at   *)
(* it was claimed with: the message id is a uuid5 of the two.              *)
(***************************************************************************)
EXTENDS Naturals

CONSTANTS
  Job,            \* jobs that are ever added
  NoJob,          \* the runner holds no job
  CreatedAt,      \* ProactiveJob.created_at
  Recurring,      \* jobs with recurrence_seconds
  Period,         \* recurrence_seconds of those
  DeferDelay,     \* defer's delay (30 minutes)
  RetryDelay,     \* fail's delay (5 minutes)
  MaxAttempts,    \* fail's max_attempts (3)
  AttemptsCap,    \* the most attempts that ProactiveJob admits (100)
  MaxTime,        \* bound: the clock ends here
  MaxStops        \* bound: how often the process stops

ASSUME JobAssumption ==
  /\ NoJob \notin Job
  /\ CreatedAt \in [Job -> Nat]
  /\ Recurring \subseteq Job
  /\ Period \in [Job -> Nat \ {0}]
ASSUME TimeAssumption ==
  /\ DeferDelay \in Nat \ {0} /\ RetryDelay \in Nat \ {0}
  /\ MaxAttempts \in Nat \ {0} /\ AttemptsCap \in Nat \ {0}
  /\ MaxTime \in Nat /\ MaxStops \in Nat

VARIABLES
  status, due, attempts, started, \* columns of proactive_jobs, per job
  pc, held, claim, \* the runner: next step, claimed job, its attempts when claimed
  queued,          \* occurrences with a message in the outbox
  runs, paid,      \* history: completed occurrences and provider calls of each job
  now, clock,      \* the wall clock, and whether it is "steady" or "stepped" back at times
  up, stops

table == <<status, due, attempts, started>>
runner == <<pc, held, claim>>
process == <<up, stops, clock>>
history == <<runs, paid>>
vars == <<table, runner, queued, history, now, process>>

JobStatus == {"absent", "pending", "running", "completed", "dead", "cancelled"}

---------------------------------------------------------------------------
(* The store.                                                              *)

\* add: a new job, due in the past or the future.
Add(j, at) ==
  /\ status[j] = "absent"
  /\ status' = [status EXCEPT ![j] = "pending"]
  /\ due' = [due EXCEPT ![j] = at]
  /\ UNCHANGED <<attempts, started, runner, queued, history, now, process>>

Due(j) == status[j] = "pending" /\ due[j] <= now

\* ORDER BY due_at, created_at.
Before(i, j) ==
  \/ due[i] < due[j]
  \/ due[i] = due[j] /\ CreatedAt[i] < CreatedAt[j]

FirstDue(j) == Due(j) /\ \A i \in Job : Due(i) => ~Before(i, j)

Claimed(j) ==
  /\ status' = [status EXCEPT ![j] = "running"]
  /\ attempts' = [attempts EXCEPT ![j] = @ + 1]

\* claim_due.
ClaimDue(j) ==
  /\ up /\ pc = "idle" /\ FirstDue(j)
  /\ attempts[j] < AttemptsCap
  /\ Claimed(j)
  /\ pc' = "claimed"
  /\ held' = j
  /\ claim' = attempts[j] + 1
  /\ UNCHANGED <<due, started, queued, history, now, process>>

\* An exception leaves run_once and with it _proactive_loop and serve: the process
\* ends.
Ends ==
  /\ up' = FALSE
  /\ pc' = "idle" /\ held' = NoJob /\ claim' = 0
  /\ UNCHANGED <<stops, clock>>

\* claim_due of a job whose attempts the record type does not admit: the update is
\* committed, then _decode raises.  (Bound: counted once past the cap.)
ClaimRaises(j) ==
  /\ up /\ pc = "idle" /\ FirstDue(j)
  /\ attempts[j] = AttemptsCap
  /\ Claimed(j)
  /\ Ends
  /\ UNCHANGED <<due, started, queued, history, now>>

\* _transition and _fail_sync: only a running row changes.
Transition(to, at) ==
  /\ status[held] = "running"
  /\ status' = [status EXCEPT ![held] = to]
  /\ due' = [due EXCEPT ![held] = at]
  /\ started' = [started EXCEPT ![held] = FALSE]
  /\ pc' = "idle" /\ held' = NoJob /\ claim' = 0
  /\ UNCHANGED <<attempts, queued, paid, now, process>>

\* cancel.
Cancel(j) ==
  /\ status[j] \in {"pending", "running"}
  /\ status' = [status EXCEPT ![j] = "cancelled"]
  /\ UNCHANGED <<due, attempts, started, runner, queued, history, now, process>>

---------------------------------------------------------------------------
(* run_once.                                                               *)

Working == {"claimed", "ready", "marked", "provider", "generated", "queued"}

\* The reason event is stored, the policy says AUTO and the prompt is short enough.
Preflight ==
  /\ pc = "claimed"
  /\ pc' = "ready"
  /\ UNCHANGED <<table, held, claim, queued, history, now, process>>

\* The policy refuses for now.
Defer ==
  /\ pc = "claimed"
  /\ Transition("pending", now + DeferDelay)
  /\ UNCHANGED runs

\* Mutant: a job is tried again although its provider call may have been made.
FailRetriesStarted(limit) ==
  /\ pc \in Working
  /\ Transition(IF claim >= limit THEN "dead" ELSE "pending", now + RetryDelay)
  /\ UNCHANGED runs

\* fail: with max_attempts = 1 for what no retry can mend and for provider errors,
\* with the default for any other exception.
Fail(limit) ==
  /\ pc \in Working
  /\ Transition(IF started[held] \/ claim >= limit THEN "dead" ELSE "pending",
                now + RetryDelay)
  /\ UNCHANGED runs

\* Mutant: nobody looks at whether the row was still running.
MarkModelStartedUnchecked ==
  /\ pc = "ready"
  /\ started' = [started EXCEPT ![held] = @ \/ status[held] = "running"]
  /\ pc' = "marked"
  /\ UNCHANGED <<status, due, attempts, held, claim, queued, history, now, process>>

\* mark_model_started, the boundary after which nothing is tried again.
MarkModelStarted ==
  /\ pc = "ready" /\ status[held] = "running"
  /\ started' = [started EXCEPT ![held] = TRUE]
  /\ pc' = "marked"
  /\ UNCHANGED <<status, due, attempts, held, claim, queued, history, now, process>>

Payment == [run |-> runs[held], at |-> now, claim |-> claim]

Generate ==
  /\ pc = "marked"
  /\ paid' = [paid EXCEPT ![held] = @ \cup {Payment}]
  /\ pc' = "provider"
  /\ UNCHANGED <<table, held, claim, queued, runs, now, process>>

\* A text and no tool calls.
ModelResponds ==
  /\ pc = "provider"
  /\ pc' = "generated"
  /\ UNCHANGED <<table, held, claim, queued, history, now, process>>

\* create_outbox, which looks at no policy and not at the job's row.
CreateOutbox ==
  /\ pc = "generated"
  /\ queued' = queued \cup {<<held, due[held]>>}
  /\ pc' = "queued"
  /\ UNCHANGED <<table, held, claim, history, now, process>>

\* complete of a job without recurrence.
CompleteOnce ==
  /\ pc = "queued" /\ held \notin Recurring
  /\ Transition("completed", due[held])
  /\ runs' = [runs EXCEPT ![held] = @ + 1]

\* Mutant: one period later, even if that is past as well.
NextDueOnePeriod(d, p) == {d + p}

\* The due_at of the next occurrence: whole periods later, the first one after now.
NextDue(d, p) ==
  IF d > now THEN {d} ELSE {n \in now + 1 .. now + p : (n - d) % p = 0}

\* complete of a recurring job: occurrences that were missed are skipped.
CompleteRecurring ==
  /\ pc = "queued" /\ held \in Recurring
  /\ \E next \in NextDue(due[held], Period[held]) : Transition("pending", next)
  /\ runs' = [runs EXCEPT ![held] = @ + 1]

\* The job was cancelled: mark_model_started says no, and defer, fail and complete
\* raise, the handler's own fail included.
Raise ==
  /\ pc \in Working /\ status[held] # "running"
  /\ Ends
  /\ UNCHANGED <<table, queued, history, now>>

---------------------------------------------------------------------------
(* The clock and the process.                                              *)

Tick ==
  /\ now < MaxTime
  /\ now' = now + 1
  /\ UNCHANGED <<table, runner, queued, history, process>>

ClockBack ==
  /\ clock = "stepped" /\ now > 0
  /\ now' = now - 1
  /\ UNCHANGED <<table, runner, queued, history, process>>

Stop ==
  /\ up /\ stops < MaxStops
  /\ up' = FALSE /\ stops' = stops + 1
  /\ pc' = "idle" /\ held' = NoJob /\ claim' = 0
  /\ UNCHANGED <<table, queued, history, now, clock>>

\* Mutant: what the previous process was running is left alone.
RecoveredStrands(j) == status[j]

\* _initialize_sync: a running row is the previous process's.
Recovered(j) ==
  IF status[j] # "running" THEN status[j]
  ELSE IF started[j] THEN "dead" ELSE "pending"

Start ==
  /\ ~up
  /\ up' = TRUE
  /\ status' = [j \in Job |-> Recovered(j)]
  /\ UNCHANGED <<due, attempts, started, runner, queued, history, now, stops, clock>>

---------------------------------------------------------------------------

Init ==
  /\ status = [j \in Job |-> "absent"]
  /\ due = [j \in Job |-> 0]
  /\ attempts = [j \in Job |-> 0]
  /\ started = [j \in Job |-> FALSE]
  /\ pc = "idle" /\ held = NoJob /\ claim = 0
  /\ queued = {}
  /\ runs = [j \in Job |-> 0]
  /\ paid = [j \in Job |-> {}]
  /\ now = 0 /\ clock \in {"steady", "stepped"}
  /\ up = FALSE /\ stops = 0

RunOnce ==
  \/ \E j \in Job : ClaimDue(j) \/ ClaimRaises(j)
  \/ Preflight \/ Defer \/ MarkModelStarted \/ Generate \/ ModelResponds
  \/ CreateOutbox \/ CompleteOnce \/ CompleteRecurring \/ Raise
  \/ \E limit \in {1, MaxAttempts} : Fail(limit)

Next ==
  \/ RunOnce
  \/ \E j \in Job : Cancel(j) \/ \E at \in 0 .. MaxTime : Add(j, at)
  \/ Tick \/ ClockBack \/ Stop \/ Start

Spec == Init /\ [][Next]_vars

\* _proactive_loop runs until the process ends, and a service manager starts it
\* again.
FairSpec == Spec /\ WF_vars(RunOnce) /\ WF_vars(Start)

---------------------------------------------------------------------------
(* Correctness.                                                            *)

PaymentRecord == [run : Nat, at : Nat, claim : Nat]

\* The shape of the table, the runner and the history.
TypeOK ==
  /\ status \in [Job -> JobStatus]
  /\ due \in [Job -> Nat]
  /\ attempts \in [Job -> Nat]
  /\ started \in [Job -> BOOLEAN]
  /\ pc \in Working \cup {"idle"}
  /\ held \in Job \cup {NoJob}
  /\ pc \in Working => held \in Job
  /\ claim \in Nat
  /\ queued \subseteq Job \X Nat
  /\ runs \in [Job -> Nat]
  /\ paid \in [Job -> SUBSET PaymentRecord]
  /\ now \in Nat /\ clock \in {"steady", "stepped"}
  /\ up \in BOOLEAN
  /\ stops \in Nat

\* An occurrence is paid for at most once, and a one-off job once in its life:
\* neither a failure nor a restart regenerates a text for which provider I/O may
\* have begun ("must not re-plan and spend again automatically", runner.py).
PaidOnce ==
  \A j \in Job : \A x, y \in paid[j] : x.run = y.run => x = y

\* A recurring job that was late, deferred or stopped for several periods catches
\* up with one message and not with one per missed period, as long as the clock
\* does not go back.
NoBurst ==
  clock = "steady" => \A j \in Job : \A x, y \in paid[j] : x.at = y.at => x = y

\* No paid text is lost: the message id, a uuid5 of job and due_at, is new when
\* create_outbox inserts it, so that on_conflict_do_nothing never drops it (on a
\* clock that does not go back).
FreshMessageId == clock = "steady" /\ pc = "generated" => <<held, due[held]>> \notin queued

\* What is completed, dead or cancelled stays so, whatever the runner was doing
\* when the administrator cancelled the job.
FinalForever ==
  [][\A j \in Job :
       status[j] \in {"completed", "dead", "cancelled"} => status'[j] = status[j]]_vars

\* A job cancelled before the no-retry boundary costs nothing, even if the runner
\* has already claimed it and the policy has admitted it.
EarlyCancelIsFree ==
  [][\A j \in Job :
       status[j] = "cancelled" /\ ~started[j] => paid'[j] = paid[j]]_vars

\* A due job is settled or given a later due_at: failures, deferrals, cancellations
\* of other jobs, and stops do not strand it or let others starve it.  The exception
\* is a row whose attempts have passed what the record type admits: it ends every
\* process that claims it.
JobIsServed ==
  \A j \in Job :
    status[j] \in {"pending", "running"} /\ due[j] <= now
      ~> \/ status[j] \in {"completed", "dead", "cancelled"} \/ due[j] > now
         \/ \E i \in Job : attempts[i] > AttemptsCap

\* What the store asserts whenever the runner ends a job (store.py, "proactive job
\* transition was not applied exactly once"): the row is still running.
TransitionApplies == pc \in Working => status[held] = "running"
---------------------------------------------------------------------------
(* The inductive invariant of the proofs.                                  *)

\* The runner works on one row, which nobody but the administrator touches.
RunnerHolds ==
  /\ ~up => pc = "idle"
  /\ pc \in Working => status[held] \in {"running", "cancelled"}

\* The durable mark is behind the runner's step, and bars the row from a claim.
MarkBars ==
  /\ \A j \in Job : started[j] => status[j] \in {"running", "dead", "cancelled"}
  /\ pc \in {"claimed", "ready"} => ~started[held]
  /\ pc \in {"marked", "provider", "generated", "queued"} => started[held]

\* Rows from which a provider call can still be made for their current occurrence.
MayPay(j) ==
  \/ ~started[j] /\ status[j] \in {"pending", "running"}
  \/ pc = "marked" /\ held = j

\* Their payments belong to earlier occurrences.
PaidEarlier ==
  \A j \in Job :
    /\ status[j] = "absent" => paid[j] = {}
    /\ \A x \in paid[j] : x.run <= runs[j] /\ (MayPay(j) => x.run < runs[j])

\* If the clock never goes back: payments and message ids lie in the past, and
\* before the due_at of an occurrence that may still be paid or queued.
PastIsPast ==
  clock = "steady" =>
    /\ pc \in Working => due[held] <= now
    /\ \A j \in Job : \A x \in paid[j] : x.at <= now /\ (MayPay(j) => x.at < due[j])
    /\ \A q \in queued :
         /\ q[2] <= now
         /\ status[q[1]] # "absent"
         /\ MayPay(q[1]) \/ (held = q[1] /\ pc \in {"provider", "generated"})
              => q[2] < due[q[1]]
    /\ NoBurst

\* The conjunction TLAPS shows to be inductive.
JobsInv == TypeOK /\ RunnerHolds /\ MarkBars /\ PaidEarlier /\ PaidOnce /\ PastIsPast
============================================================================
