------------------------ MODULE ProactiveJobsProofs ------------------------
(***************************************************************************)
(* A proactive occurrence is paid for at most once, for any jobs, delays   *)
(* and bounds, and whatever the clock does; if the clock does not go back, *)
(* a late recurring job does not fire in a burst and no paid text is lost  *)
(* to a message id that was used before.                                   *)
(*                                                                         *)
(* The invariant JobsInv ties the durable mark to the runner's step: a row *)
(* that may still be paid is unmarked, or its runner is just behind the    *)
(* mark, and then its payments belong to earlier occurrences.              *)
(***************************************************************************)
EXTENDS ProactiveJobs, TLAPS

\* A new row has no payments and no messages.
LEMMA AddKeeps ==
  ASSUME JobsInv, NEW j \in Job, NEW at \in 0 .. MaxTime, Add(j, at)
  PROVE  JobsInv'
<1> USE JobAssumption, TimeAssumption
    DEF JobsInv, table, runner, history, process, Working
<1>1. TypeOK'
  BY DEF Add, TypeOK, JobStatus, RunnerHolds
<1>2. RunnerHolds'
  BY DEF Add, TypeOK, RunnerHolds
<1>3. MarkBars'
  BY DEF Add, TypeOK, RunnerHolds, MarkBars
<1>4. PaidEarlier'
  BY DEF Add, TypeOK, RunnerHolds, MarkBars, PaidEarlier, MayPay
<1>5. PaidOnce'
  BY DEF Add, TypeOK, PaidEarlier, MayPay, PaidOnce
<1>6. PastIsPast'
  BY DEF Add, TypeOK, RunnerHolds, MarkBars, PaidEarlier, PastIsPast, NoBurst, MayPay
<1> QED
  BY <1>1, <1>2, <1>3, <1>4, <1>5, <1>6

\* claim_due takes a pending row, whose current occurrence is unpaid.
LEMMA ClaimDueKeeps ==
  ASSUME JobsInv, NEW j \in Job, ClaimDue(j)
  PROVE  JobsInv'
<1> USE JobAssumption, TimeAssumption
    DEF JobsInv, table, runner, history, process, Working
<1>1. TypeOK'
  BY DEF ClaimDue, Claimed, FirstDue, Due, TypeOK, JobStatus, RunnerHolds
<1>2. RunnerHolds'
  BY DEF ClaimDue, Claimed, FirstDue, Due, TypeOK, RunnerHolds
<1>3. MarkBars'
  BY DEF ClaimDue, Claimed, FirstDue, Due, TypeOK, RunnerHolds, MarkBars
<1>4. PaidEarlier'
  BY DEF ClaimDue, Claimed, FirstDue, Due, TypeOK, RunnerHolds, MarkBars, PaidEarlier, MayPay
<1>5. PaidOnce'
  BY DEF ClaimDue, Claimed, FirstDue, Due, TypeOK, PaidEarlier, MayPay, PaidOnce
<1>6. PastIsPast'
  BY DEF ClaimDue, Claimed, FirstDue, Due, TypeOK, RunnerHolds, MarkBars, PaidEarlier, PastIsPast, NoBurst, MayPay
<1> QED
  BY <1>1, <1>2, <1>3, <1>4, <1>5, <1>6

\* claim_due of a row that cannot be decoded leaves it to the next process.
LEMMA ClaimRaisesKeeps ==
  ASSUME JobsInv, NEW j \in Job, ClaimRaises(j)
  PROVE  JobsInv'
<1> USE JobAssumption, TimeAssumption
    DEF JobsInv, table, runner, history, process, Working
<1>1. TypeOK'
  <2>1. status' \in [Job -> JobStatus] /\ attempts' \in [Job -> Nat]
    BY DEF ClaimRaises, Claimed, FirstDue, Due, Ends, TypeOK, JobStatus
  <2>2. pc' \in Working \cup {"idle"} /\ held' \in Job \cup {NoJob}
        /\ (pc' \in Working => held' \in Job) /\ claim' \in Nat
    BY DEF ClaimRaises, Claimed, FirstDue, Due, Ends, TypeOK
  <2>3. up' \in BOOLEAN /\ stops' \in Nat
    BY DEF ClaimRaises, Claimed, FirstDue, Due, Ends, TypeOK
  <2> QED
    BY <2>1, <2>2, <2>3 DEF ClaimRaises, Claimed, FirstDue, Due, Ends, TypeOK
<1>2. RunnerHolds'
  BY DEF ClaimRaises, Claimed, FirstDue, Due, Ends, TypeOK, RunnerHolds
<1>3. MarkBars'
  BY DEF ClaimRaises, Claimed, FirstDue, Due, Ends, TypeOK, RunnerHolds, MarkBars
<1>4. PaidEarlier'
  BY DEF ClaimRaises, Claimed, FirstDue, Due, Ends, TypeOK, RunnerHolds, MarkBars, PaidEarlier, MayPay
<1>5. PaidOnce'
  BY DEF ClaimRaises, Claimed, FirstDue, Due, Ends, TypeOK, PaidEarlier, MayPay, PaidOnce
<1>6. PastIsPast'
  BY DEF ClaimRaises, Claimed, FirstDue, Due, Ends, TypeOK, RunnerHolds, MarkBars, PaidEarlier, PastIsPast, NoBurst, MayPay
<1> QED
  BY <1>1, <1>2, <1>3, <1>4, <1>5, <1>6

\* cancel changes the status alone, also under the runner's hands.
LEMMA CancelKeeps ==
  ASSUME JobsInv, NEW j \in Job, Cancel(j)
  PROVE  JobsInv'
<1> USE JobAssumption, TimeAssumption
    DEF JobsInv, table, runner, history, process, Working
<1>1. TypeOK'
  BY DEF Cancel, TypeOK, JobStatus, RunnerHolds
<1>2. RunnerHolds'
  BY DEF Cancel, TypeOK, RunnerHolds
<1>3. MarkBars'
  BY DEF Cancel, TypeOK, RunnerHolds, MarkBars
<1>4. PaidEarlier'
  BY DEF Cancel, TypeOK, RunnerHolds, MarkBars, PaidEarlier, MayPay
<1>5. PaidOnce'
  BY DEF Cancel, TypeOK, PaidEarlier, MayPay, PaidOnce
<1>6. PastIsPast'
  BY DEF Cancel, TypeOK, RunnerHolds, MarkBars, PaidEarlier, PastIsPast, NoBurst, MayPay
<1> QED
  BY <1>1, <1>2, <1>3, <1>4, <1>5, <1>6

\* The checks before the boundary change nothing.
LEMMA PreflightKeeps ==
  ASSUME JobsInv, Preflight
  PROVE  JobsInv'
<1> USE JobAssumption, TimeAssumption
    DEF JobsInv, table, runner, history, process, Working
<1>1. TypeOK'
  BY DEF Preflight, TypeOK, JobStatus, RunnerHolds
<1>2. RunnerHolds'
  BY DEF Preflight, TypeOK, RunnerHolds
<1>3. MarkBars'
  BY DEF Preflight, TypeOK, RunnerHolds, MarkBars
<1>4. PaidEarlier'
  BY DEF Preflight, TypeOK, RunnerHolds, MarkBars, PaidEarlier, MayPay
<1>5. PaidOnce'
  BY DEF Preflight, TypeOK, PaidEarlier, MayPay, PaidOnce
<1>6. PastIsPast'
  BY DEF Preflight, TypeOK, RunnerHolds, MarkBars, PaidEarlier, PastIsPast, NoBurst, MayPay
<1> QED
  BY <1>1, <1>2, <1>3, <1>4, <1>5, <1>6

\* A deferred occurrence is unpaid and moves to the future.
LEMMA DeferKeeps ==
  ASSUME JobsInv, Defer
  PROVE  JobsInv'
<1> USE JobAssumption, TimeAssumption
    DEF JobsInv, table, runner, history, process, Working
<1>1. TypeOK'
  BY DEF Defer, Transition, TypeOK, JobStatus, RunnerHolds
<1>2. RunnerHolds'
  BY DEF Defer, Transition, TypeOK, RunnerHolds
<1>3. MarkBars'
  BY DEF Defer, Transition, TypeOK, RunnerHolds, MarkBars
<1>4. PaidEarlier'
  BY DEF Defer, Transition, TypeOK, RunnerHolds, MarkBars, PaidEarlier, MayPay
<1>5. PaidOnce'
  BY DEF Defer, Transition, TypeOK, PaidEarlier, MayPay, PaidOnce
<1>6. PastIsPast'
  <2> SUFFICES ASSUME clock = "steady", clock' = "steady" PROVE PastIsPast'
    BY DEF Defer, Transition, PastIsPast
  <2>1. (pc \in Working => due[held] <= now)'
    BY DEF Defer, Transition, TypeOK, PastIsPast
  <2>2. \A k \in Job : \A x \in paid'[k] :
          x.at <= now' /\ (MayPay(k)' => x.at < due'[k])
    <3> SUFFICES ASSUME NEW k \in Job, NEW x \in paid'[k]
                 PROVE  x.at <= now' /\ (MayPay(k)' => x.at < due'[k])
      OBVIOUS
    <3>1. x \in paid[k] /\ x.at \in Nat /\ now \in Nat /\ x.at <= now
      BY DEF Defer, Transition, TypeOK, PaymentRecord, PastIsPast
    <3>2. x.at <= now'
      BY <3>1 DEF Defer, Transition
    <3>3. ASSUME MayPay(k)' PROVE x.at < due'[k]
      BY <3>1, <3>3 DEF Defer, Transition, TypeOK, RunnerHolds, MarkBars, PastIsPast, MayPay
    <3> QED
      BY <3>2, <3>3
  <2>3. \A q \in queued' :
          /\ q[2] <= now'
          /\ status'[q[1]] # "absent"
          /\ MayPay(q[1])' \/ (held' = q[1] /\ pc' \in {"provider", "generated"})
               => q[2] < due'[q[1]]
    <3> SUFFICES ASSUME NEW q \in queued'
                 PROVE  /\ q[2] <= now'
                        /\ status'[q[1]] # "absent"
                        /\ MayPay(q[1])' \/ (held' = q[1] /\ pc' \in {"provider", "generated"})
                             => q[2] < due'[q[1]]
      OBVIOUS
    <3>1. q \in queued /\ q[1] \in Job /\ q[2] \in Nat /\ now \in Nat /\ q[2] <= now
      BY DEF Defer, Transition, TypeOK, PastIsPast
    <3>2. q[2] <= now' /\ status'[q[1]] # "absent"
      BY <3>1 DEF Defer, Transition, TypeOK, PastIsPast
    <3>3. ASSUME MayPay(q[1])' \/ (held' = q[1] /\ pc' \in {"provider", "generated"})
          PROVE  q[2] < due'[q[1]]
      BY <3>1, <3>3 DEF Defer, Transition, TypeOK, RunnerHolds, MarkBars, PastIsPast, MayPay
    <3> QED
      BY <3>2, <3>3
  <2>4. NoBurst'
    BY DEF Defer, Transition, PastIsPast, NoBurst
  <2> QED
    BY <2>1, <2>2, <2>3, <2>4 DEF PastIsPast
<1> QED
  BY <1>1, <1>2, <1>3, <1>4, <1>5, <1>6

\* A failed occurrence is unpaid and moves to the future, or the job is dead.
LEMMA FailKeeps ==
  ASSUME JobsInv, NEW limit \in {1, MaxAttempts}, Fail(limit)
  PROVE  JobsInv'
<1> USE JobAssumption, TimeAssumption
    DEF JobsInv, table, runner, history, process, Working
<1>1. TypeOK'
  BY DEF Fail, Transition, TypeOK, JobStatus, RunnerHolds
<1>2. RunnerHolds'
  BY DEF Fail, Transition, TypeOK, RunnerHolds
<1>3. MarkBars'
  BY DEF Fail, Transition, TypeOK, RunnerHolds, MarkBars
<1>4. PaidEarlier'
  BY DEF Fail, Transition, TypeOK, RunnerHolds, MarkBars, PaidEarlier, MayPay
<1>5. PaidOnce'
  BY DEF Fail, Transition, TypeOK, PaidEarlier, MayPay, PaidOnce
<1>6. PastIsPast'
  <2> SUFFICES ASSUME clock = "steady", clock' = "steady" PROVE PastIsPast'
    BY DEF Fail, Transition, PastIsPast
  <2>1. (pc \in Working => due[held] <= now)'
    BY DEF Fail, Transition, TypeOK, PastIsPast
  <2>2. \A k \in Job : \A x \in paid'[k] :
          x.at <= now' /\ (MayPay(k)' => x.at < due'[k])
    <3> SUFFICES ASSUME NEW k \in Job, NEW x \in paid'[k]
                 PROVE  x.at <= now' /\ (MayPay(k)' => x.at < due'[k])
      OBVIOUS
    <3>1. x \in paid[k] /\ x.at \in Nat /\ now \in Nat /\ x.at <= now
      BY DEF Fail, Transition, TypeOK, PaymentRecord, PastIsPast
    <3>2. x.at <= now'
      BY <3>1 DEF Fail, Transition
    <3>3. ASSUME MayPay(k)' PROVE x.at < due'[k]
      BY <3>1, <3>3 DEF Fail, Transition, TypeOK, RunnerHolds, MarkBars, PastIsPast, MayPay
    <3> QED
      BY <3>2, <3>3
  <2>3. \A q \in queued' :
          /\ q[2] <= now'
          /\ status'[q[1]] # "absent"
          /\ MayPay(q[1])' \/ (held' = q[1] /\ pc' \in {"provider", "generated"})
               => q[2] < due'[q[1]]
    <3> SUFFICES ASSUME NEW q \in queued'
                 PROVE  /\ q[2] <= now'
                        /\ status'[q[1]] # "absent"
                        /\ MayPay(q[1])' \/ (held' = q[1] /\ pc' \in {"provider", "generated"})
                             => q[2] < due'[q[1]]
      OBVIOUS
    <3>1. q \in queued /\ q[1] \in Job /\ q[2] \in Nat /\ now \in Nat /\ q[2] <= now
      BY DEF Fail, Transition, TypeOK, PastIsPast
    <3>2. q[2] <= now' /\ status'[q[1]] # "absent"
      BY <3>1 DEF Fail, Transition, TypeOK, PastIsPast
    <3>3. ASSUME MayPay(q[1])' \/ (held' = q[1] /\ pc' \in {"provider", "generated"})
          PROVE  q[2] < due'[q[1]]
      BY <3>1, <3>3 DEF Fail, Transition, TypeOK, RunnerHolds, MarkBars, PastIsPast, MayPay
    <3> QED
      BY <3>2, <3>3
  <2>4. NoBurst'
    BY DEF Fail, Transition, PastIsPast, NoBurst
  <2> QED
    BY <2>1, <2>2, <2>3, <2>4 DEF PastIsPast
<1> QED
  BY <1>1, <1>2, <1>3, <1>4, <1>5, <1>6

\* The boundary is made durable before the provider is called.
LEMMA MarkKeeps ==
  ASSUME JobsInv, MarkModelStarted
  PROVE  JobsInv'
<1> USE JobAssumption, TimeAssumption
    DEF JobsInv, table, runner, history, process, Working
<1>1. TypeOK'
  BY DEF MarkModelStarted, TypeOK, JobStatus, RunnerHolds
<1>2. RunnerHolds'
  BY DEF MarkModelStarted, TypeOK, RunnerHolds
<1>3. MarkBars'
  BY DEF MarkModelStarted, TypeOK, RunnerHolds, MarkBars
<1>4. PaidEarlier'
  BY DEF MarkModelStarted, TypeOK, RunnerHolds, MarkBars, PaidEarlier, MayPay
<1>5. PaidOnce'
  BY DEF MarkModelStarted, TypeOK, PaidEarlier, MayPay, PaidOnce
<1>6. PastIsPast'
  BY DEF MarkModelStarted, TypeOK, RunnerHolds, MarkBars, PaidEarlier, PastIsPast, NoBurst, MayPay
<1> QED
  BY <1>1, <1>2, <1>3, <1>4, <1>5, <1>6

\* The payment is the first of its occurrence and of its moment.
LEMMA GenerateKeeps ==
  ASSUME JobsInv, Generate
  PROVE  JobsInv'
<1> USE JobAssumption, TimeAssumption
    DEF JobsInv, table, runner, history, process, Working
<1>1. TypeOK'
  <2>1. Payment \in PaymentRecord
    BY DEF Generate, Payment, PaymentRecord, TypeOK
  <2>2. paid' \in [Job -> SUBSET PaymentRecord]
    BY <2>1 DEF Generate, TypeOK
  <2> QED
    BY <2>2 DEF Generate, TypeOK
<1>2. RunnerHolds'
  BY DEF Generate, Payment, TypeOK, RunnerHolds
<1>3. MarkBars'
  BY DEF Generate, Payment, TypeOK, RunnerHolds, MarkBars
<1>4. PaidEarlier'
  BY DEF Generate, Payment, TypeOK, RunnerHolds, MarkBars, PaidEarlier, MayPay
<1>5. PaidOnce'
  BY DEF Generate, Payment, TypeOK, PaidEarlier, MayPay, PaidOnce
<1>6. PastIsPast'
  BY DEF Generate, Payment, TypeOK, RunnerHolds, MarkBars, PaidEarlier, PastIsPast, NoBurst, MayPay
<1> QED
  BY <1>1, <1>2, <1>3, <1>4, <1>5, <1>6

\* The answer of the model.
LEMMA RespondKeeps ==
  ASSUME JobsInv, ModelResponds
  PROVE  JobsInv'
<1> USE JobAssumption, TimeAssumption
    DEF JobsInv, table, runner, history, process, Working
<1>1. TypeOK'
  BY DEF ModelResponds, TypeOK, JobStatus, RunnerHolds
<1>2. RunnerHolds'
  BY DEF ModelResponds, TypeOK, RunnerHolds
<1>3. MarkBars'
  BY DEF ModelResponds, TypeOK, RunnerHolds, MarkBars
<1>4. PaidEarlier'
  BY DEF ModelResponds, TypeOK, RunnerHolds, MarkBars, PaidEarlier, MayPay
<1>5. PaidOnce'
  BY DEF ModelResponds, TypeOK, PaidEarlier, MayPay, PaidOnce
<1>6. PastIsPast'
  BY DEF ModelResponds, TypeOK, RunnerHolds, MarkBars, PaidEarlier, PastIsPast, NoBurst, MayPay
<1> QED
  BY <1>1, <1>2, <1>3, <1>4, <1>5, <1>6

\* The message is queued under the occurrence's own id.
LEMMA CreateOutboxKeeps ==
  ASSUME JobsInv, CreateOutbox
  PROVE  JobsInv'
<1> USE JobAssumption, TimeAssumption
    DEF JobsInv, table, runner, history, process, Working
<1>1. TypeOK'
  BY DEF CreateOutbox, TypeOK, JobStatus, RunnerHolds
<1>2. RunnerHolds'
  BY DEF CreateOutbox, TypeOK, RunnerHolds
<1>3. MarkBars'
  BY DEF CreateOutbox, TypeOK, RunnerHolds, MarkBars
<1>4. PaidEarlier'
  BY DEF CreateOutbox, TypeOK, RunnerHolds, MarkBars, PaidEarlier, MayPay
<1>5. PaidOnce'
  BY DEF CreateOutbox, TypeOK, PaidEarlier, MayPay, PaidOnce
<1>6. PastIsPast'
  BY DEF CreateOutbox, TypeOK, RunnerHolds, MarkBars, PaidEarlier, PastIsPast, NoBurst, MayPay
<1> QED
  BY <1>1, <1>2, <1>3, <1>4, <1>5, <1>6

\* The next occurrence is later than now.
LEMMA CompleteKeeps ==
  ASSUME JobsInv, CompleteOnce \/ CompleteRecurring
  PROVE  JobsInv'
<1> USE JobAssumption, TimeAssumption
    DEF JobsInv, table, runner, history, process, Working
<1>a. PICK to \in {"completed", "pending"}, at \in Nat :
        /\ Transition(to, at) /\ pc = "queued"
        /\ clock = "steady" /\ to = "pending" => at > now
        /\ runs' = [runs EXCEPT ![held] = @ + 1]
  <2>1. CASE CompleteOnce
    <3>1. held \in Job /\ due[held] \in Nat
      BY <2>1 DEF CompleteOnce, TypeOK
    <3> QED
      BY <2>1, <3>1 DEF CompleteOnce
  <2>2. CASE CompleteRecurring
    <3>1. held \in Job /\ due[held] \in Nat /\ now \in Nat /\ Period[held] \in Nat \ {0}
      BY <2>2 DEF CompleteRecurring, TypeOK
    <3>2. PICK next \in NextDue(due[held], Period[held]) : Transition("pending", next)
      BY <2>2 DEF CompleteRecurring
    <3>3. next \in Nat /\ (clock = "steady" => next > now)
      BY <2>2, <3>1, <3>2 DEF CompleteRecurring, NextDue, PastIsPast
    <3> QED
      BY <2>2, <3>2, <3>3 DEF CompleteRecurring
  <2> QED
    BY <2>1, <2>2
<1>1. TypeOK'
  BY <1>a DEF Transition, TypeOK, JobStatus
<1>2. RunnerHolds'
  BY <1>a DEF Transition, TypeOK, RunnerHolds
<1>3. MarkBars'
  BY <1>a DEF Transition, TypeOK, RunnerHolds, MarkBars
<1>4. PaidEarlier'
  <2> SUFFICES ASSUME NEW k \in Job
               PROVE  /\ status'[k] = "absent" => paid'[k] = {}
                      /\ \A x \in paid'[k] : x.run <= runs'[k] /\ (MayPay(k)' => x.run < runs'[k])
    BY DEF PaidEarlier
  <2>1. status'[k] = "absent" => paid'[k] = {}
    BY <1>a DEF Transition, TypeOK, PaidEarlier
  <2>2. ASSUME NEW x \in paid'[k]
        PROVE  x.run <= runs'[k] /\ (MayPay(k)' => x.run < runs'[k])
    <3>1. x \in paid[k] /\ x.run \in Nat /\ runs[k] \in Nat
      BY <1>a, <2>2 DEF Transition, TypeOK, PaymentRecord
    <3>2. CASE k = held
      BY <1>a, <3>1, <3>2 DEF Transition, TypeOK, PaidEarlier
    <3>3. CASE k # held
      BY <1>a, <3>1, <3>3 DEF Transition, TypeOK, PaidEarlier, MayPay
    <3> QED
      BY <3>2, <3>3
  <2> QED
    BY <2>1, <2>2
<1>5. PaidOnce'
  BY <1>a DEF Transition, PaidOnce
<1>6. PastIsPast'
  <2> SUFFICES ASSUME clock = "steady", clock' = "steady" PROVE PastIsPast'
    BY <1>a DEF Transition, PastIsPast
  <2>1. (pc \in Working => due[held] <= now)'
    BY <1>a DEF Transition, TypeOK, PastIsPast
  <2>2. \A k \in Job : \A x \in paid'[k] :
          x.at <= now' /\ (MayPay(k)' => x.at < due'[k])
    <3> SUFFICES ASSUME NEW k \in Job, NEW x \in paid'[k]
                 PROVE  x.at <= now' /\ (MayPay(k)' => x.at < due'[k])
      OBVIOUS
    <3>1. x \in paid[k] /\ x.at \in Nat /\ now \in Nat /\ x.at <= now
      BY <1>a DEF Transition, TypeOK, PaymentRecord, PastIsPast
    <3>2. x.at <= now'
      BY <1>a, <3>1 DEF Transition
    <3>3. ASSUME MayPay(k)' PROVE x.at < due'[k]
      BY <3>1, <1>a, <3>3 DEF Transition, TypeOK, RunnerHolds, MarkBars, PastIsPast, MayPay
    <3> QED
      BY <3>2, <3>3
  <2>3. \A q \in queued' :
          /\ q[2] <= now'
          /\ status'[q[1]] # "absent"
          /\ MayPay(q[1])' \/ (held' = q[1] /\ pc' \in {"provider", "generated"})
               => q[2] < due'[q[1]]
    <3> SUFFICES ASSUME NEW q \in queued'
                 PROVE  /\ q[2] <= now'
                        /\ status'[q[1]] # "absent"
                        /\ MayPay(q[1])' \/ (held' = q[1] /\ pc' \in {"provider", "generated"})
                             => q[2] < due'[q[1]]
      OBVIOUS
    <3>1. q \in queued /\ q[1] \in Job /\ q[2] \in Nat /\ now \in Nat /\ q[2] <= now
      BY <1>a DEF Transition, TypeOK, PastIsPast
    <3>2. q[2] <= now' /\ status'[q[1]] # "absent"
      BY <1>a, <3>1 DEF Transition, TypeOK, PastIsPast
    <3>3. ASSUME MayPay(q[1])' \/ (held' = q[1] /\ pc' \in {"provider", "generated"})
          PROVE  q[2] < due'[q[1]]
      BY <3>1, <1>a, <3>3 DEF Transition, TypeOK, RunnerHolds, MarkBars, PastIsPast, MayPay
    <3> QED
      BY <3>2, <3>3
  <2>4. NoBurst'
    BY <1>a DEF Transition, PastIsPast, NoBurst
  <2> QED
    BY <2>1, <2>2, <2>3, <2>4 DEF PastIsPast
<1> QED
  BY <1>1, <1>2, <1>3, <1>4, <1>5, <1>6

\* A cancelled job ends the process; its row stays as it is.
LEMMA RaiseKeeps ==
  ASSUME JobsInv, Raise
  PROVE  JobsInv'
<1> USE JobAssumption, TimeAssumption
    DEF JobsInv, table, runner, history, process, Working
<1>1. TypeOK'
  BY DEF Raise, Ends, TypeOK, JobStatus, RunnerHolds
<1>2. RunnerHolds'
  BY DEF Raise, Ends, TypeOK, RunnerHolds
<1>3. MarkBars'
  BY DEF Raise, Ends, TypeOK, RunnerHolds, MarkBars
<1>4. PaidEarlier'
  BY DEF Raise, Ends, TypeOK, RunnerHolds, MarkBars, PaidEarlier, MayPay
<1>5. PaidOnce'
  BY DEF Raise, Ends, TypeOK, PaidEarlier, MayPay, PaidOnce
<1>6. PastIsPast'
  BY DEF Raise, Ends, TypeOK, RunnerHolds, MarkBars, PaidEarlier, PastIsPast, NoBurst, MayPay
<1> QED
  BY <1>1, <1>2, <1>3, <1>4, <1>5, <1>6

\* The clock.
LEMMA ClockKeeps ==
  ASSUME JobsInv, Tick \/ ClockBack
  PROVE  JobsInv'
<1> USE JobAssumption, TimeAssumption
    DEF JobsInv, table, runner, history, process, Working
<1>1. TypeOK'
  BY DEF Tick, ClockBack, TypeOK, JobStatus, RunnerHolds
<1>2. RunnerHolds'
  BY DEF Tick, ClockBack, TypeOK, RunnerHolds
<1>3. MarkBars'
  BY DEF Tick, ClockBack, TypeOK, RunnerHolds, MarkBars
<1>4. PaidEarlier'
  BY DEF Tick, ClockBack, TypeOK, RunnerHolds, MarkBars, PaidEarlier, MayPay
<1>5. PaidOnce'
  BY DEF Tick, ClockBack, TypeOK, PaidEarlier, MayPay, PaidOnce
<1>6. PastIsPast'
  <2> SUFFICES ASSUME clock = "steady", clock' = "steady" PROVE PastIsPast'
    BY DEF Tick, ClockBack, PastIsPast
  <2>1. (pc \in Working => due[held] <= now)'
    BY DEF Tick, ClockBack, TypeOK, PastIsPast
  <2>2. \A k \in Job : \A x \in paid'[k] :
          x.at <= now' /\ (MayPay(k)' => x.at < due'[k])
    <3> SUFFICES ASSUME NEW k \in Job, NEW x \in paid'[k]
                 PROVE  x.at <= now' /\ (MayPay(k)' => x.at < due'[k])
      OBVIOUS
    <3>1. x \in paid[k] /\ x.at \in Nat /\ now \in Nat /\ x.at <= now
      BY DEF Tick, ClockBack, TypeOK, PaymentRecord, PastIsPast
    <3>2. x.at <= now'
      BY <3>1 DEF Tick, ClockBack
    <3>3. ASSUME MayPay(k)' PROVE x.at < due'[k]
      BY <3>1, <3>3 DEF Tick, ClockBack, TypeOK, RunnerHolds, MarkBars, PastIsPast, MayPay
    <3> QED
      BY <3>2, <3>3
  <2>3. \A q \in queued' :
          /\ q[2] <= now'
          /\ status'[q[1]] # "absent"
          /\ MayPay(q[1])' \/ (held' = q[1] /\ pc' \in {"provider", "generated"})
               => q[2] < due'[q[1]]
    <3> SUFFICES ASSUME NEW q \in queued'
                 PROVE  /\ q[2] <= now'
                        /\ status'[q[1]] # "absent"
                        /\ MayPay(q[1])' \/ (held' = q[1] /\ pc' \in {"provider", "generated"})
                             => q[2] < due'[q[1]]
      OBVIOUS
    <3>1. q \in queued /\ q[1] \in Job /\ q[2] \in Nat /\ now \in Nat /\ q[2] <= now
      BY DEF Tick, ClockBack, TypeOK, PastIsPast
    <3>2. q[2] <= now' /\ status'[q[1]] # "absent"
      BY <3>1 DEF Tick, ClockBack, TypeOK, PastIsPast
    <3>3. ASSUME MayPay(q[1])' \/ (held' = q[1] /\ pc' \in {"provider", "generated"})
          PROVE  q[2] < due'[q[1]]
      BY <3>1, <3>3 DEF Tick, ClockBack, TypeOK, RunnerHolds, MarkBars, PastIsPast, MayPay
    <3> QED
      BY <3>2, <3>3
  <2>4. NoBurst'
    BY DEF Tick, ClockBack, PastIsPast, NoBurst
  <2> QED
    BY <2>1, <2>2, <2>3, <2>4 DEF PastIsPast
<1> QED
  BY <1>1, <1>2, <1>3, <1>4, <1>5, <1>6

\* A stop at any step, and the recovery of running rows.
LEMMA RestartKeeps ==
  ASSUME JobsInv, Stop \/ Start
  PROVE  JobsInv'
<1> USE JobAssumption, TimeAssumption
    DEF JobsInv, table, runner, history, process, Working
<1>1. TypeOK'
  <2>1. status' \in [Job -> JobStatus] /\ attempts' \in [Job -> Nat]
    BY DEF Stop, Start, Recovered, TypeOK, JobStatus
  <2>2. pc' \in Working \cup {"idle"} /\ held' \in Job \cup {NoJob}
        /\ (pc' \in Working => held' \in Job) /\ claim' \in Nat
    BY DEF Stop, Start, Recovered, TypeOK
  <2>3. up' \in BOOLEAN /\ stops' \in Nat
    <3>1. up' \in BOOLEAN
      BY Zenon DEF Stop, Start, TypeOK
    <3>2. stops \in Nat /\ (stops' = stops + 1 \/ stops' = stops)
      BY Zenon DEF Stop, Start, TypeOK
    <3> QED
      BY <3>1, <3>2
  <2> QED
    BY <2>1, <2>2, <2>3 DEF Stop, Start, Recovered, TypeOK
<1>2. RunnerHolds'
  BY DEF Stop, Start, Recovered, TypeOK, RunnerHolds
<1>3. MarkBars'
  BY DEF Stop, Start, Recovered, TypeOK, RunnerHolds, MarkBars
<1>4. PaidEarlier'
  BY DEF Stop, Start, Recovered, TypeOK, RunnerHolds, MarkBars, PaidEarlier, MayPay
<1>5. PaidOnce'
  BY DEF Stop, Start, Recovered, TypeOK, PaidEarlier, MayPay, PaidOnce
<1>6. PastIsPast'
  BY DEF Stop, Start, Recovered, TypeOK, RunnerHolds, MarkBars, PaidEarlier, PastIsPast, NoBurst, MayPay
<1> QED
  BY <1>1, <1>2, <1>3, <1>4, <1>5, <1>6

\* JobsInv is an invariant of the specification.
THEOREM JobsInvariant == Spec => []JobsInv
<1>1. Init => JobsInv
  <2> SUFFICES ASSUME Init PROVE JobsInv
    OBVIOUS
  <2> USE JobAssumption DEF Init, Working
  <2>1. TypeOK
    BY DEF TypeOK, JobStatus
  <2>2. RunnerHolds /\ MarkBars /\ PaidEarlier /\ PaidOnce
    BY DEF RunnerHolds, MarkBars, PaidEarlier, PaidOnce
  <2>3. PastIsPast
    BY DEF PastIsPast, NoBurst
  <2> QED
    BY <2>1, <2>2, <2>3 DEF JobsInv
<1>2. JobsInv /\ [Next]_vars => JobsInv'
  <2> SUFFICES ASSUME JobsInv, [Next]_vars PROVE JobsInv'
    OBVIOUS
  <2>1. CASE RunOnce
    BY <2>1, ClaimDueKeeps, ClaimRaisesKeeps, PreflightKeeps, DeferKeeps, FailKeeps,
       MarkKeeps, GenerateKeeps, RespondKeeps, CreateOutboxKeeps, CompleteKeeps, RaiseKeeps
       DEF RunOnce
  <2>2. CASE \E j \in Job : Cancel(j) \/ \E at \in 0 .. MaxTime : Add(j, at)
    BY <2>2, CancelKeeps, AddKeeps
  <2>3. CASE Tick \/ ClockBack \/ Stop \/ Start
    BY <2>3, ClockKeeps, RestartKeeps
  <2>4. CASE UNCHANGED vars
    BY <2>4
       DEF vars, table, runner, history, process, JobsInv, TypeOK, RunnerHolds, MarkBars,
           PaidEarlier, PaidOnce, PastIsPast, NoBurst, MayPay
  <2> QED
    BY <2>1, <2>2, <2>3, <2>4 DEF Next
<1> QED
  BY <1>1, <1>2, PTL DEF Spec

\* PaidOnce for every instance: no failure, cancellation, deferral, restart or change
\* of the clock makes run_once pay twice for one occurrence.
THEOREM OccurrencePaidOnce == Spec => []PaidOnce
<1>1. JobsInv => PaidOnce
  BY DEF JobsInv
<1> QED
  BY <1>1, JobsInvariant, PTL

\* NoBurst for every instance: complete skips the
\* occurrences that were missed.
THEOREM LateJobsCatchUpOnce == Spec => []NoBurst
<1>1. JobsInv => NoBurst
  BY DEF JobsInv, PastIsPast, NoBurst
<1> QED
  BY <1>1, JobsInvariant, PTL

\* FreshMessageId for every instance: create_outbox
\* never meets an earlier message of the job under the same id.
THEOREM PaidTextIsQueued == Spec => []FreshMessageId
<1>1. JobsInv => FreshMessageId
  BY DEF JobsInv, TypeOK, PastIsPast, FreshMessageId, Working
<1> QED
  BY <1>1, JobsInvariant, PTL

\* FinalForever for every instance: a final status is never overwritten, because
\* every transition of the runner asks for a running row.
THEOREM FinalStatusIsFinal == Spec => FinalForever
<1>1. JobsInv /\ [Next]_vars =>
        [\A j \in Job :
           status[j] \in {"completed", "dead", "cancelled"} => status'[j] = status[j]]_vars
  BY DEF JobsInv, TypeOK, Next, RunOnce, vars, table, Add, ClaimDue, ClaimRaises, Claimed,
         FirstDue, Due, Cancel, Preflight, Defer, Fail, Transition, MarkModelStarted,
         Generate, ModelResponds, CreateOutbox, CompleteOnce, CompleteRecurring, Raise,
         Tick, ClockBack, Stop, Start, Recovered
<1> QED
  BY <1>1, JobsInvariant, PTL DEF Spec, FinalForever

\* EarlyCancelIsFree for every instance: a provider call is made for a row that carries the
\* durable mark, so a row that was cancelled without it stays free.
THEOREM CancelledEarlyIsFree == Spec => EarlyCancelIsFree
<1>1. ASSUME JobsInv, [Next]_vars, NEW j \in Job, status[j] = "cancelled", ~started[j]
      PROVE  paid'[j] = paid[j]
  <2>1. CASE Generate
    <3>1. held \in Job /\ started[held] /\ j # held
      BY <1>1, <2>1 DEF JobsInv, TypeOK, MarkBars, Generate, Working
    <3> QED
      BY <1>1, <2>1, <3>1 DEF JobsInv, TypeOK, Generate
  <2>2. CASE ~Generate
    <3>1. paid' = paid
      BY <1>1, <2>2
         DEF Next, RunOnce, vars, history, Add, ClaimDue, ClaimRaises, Cancel, Preflight, Defer,
             Fail, Transition, MarkModelStarted, ModelResponds, CreateOutbox, CompleteOnce,
             CompleteRecurring, Raise, Tick, ClockBack, Stop, Start
    <3> QED
      BY <3>1
  <2> QED
    BY <2>1, <2>2
<1>2. JobsInv /\ [Next]_vars =>
        [\A j \in Job : status[j] = "cancelled" /\ ~started[j] => paid'[j] = paid[j]]_vars
  BY <1>1
<1> QED
  BY <1>2, JobsInvariant, PTL DEF Spec, EarlyCancelIsFree
============================================================================
