------------------------- MODULE AgentRuntimeProofs -------------------------
(***************************************************************************)
(* A pause of the WeChat channel survives every crash and silences the     *)
(* dispatcher, for any conversations, messages, requests and stops, slow   *)
(* deliveries and failing starts included.                                 *)
(*                                                                         *)
(* The argument is mutual exclusion: whoever changes ready, paused.json or *)
(* the channel's row holds operation_lock, so that a resume under way owns *)
(* them from its baseline to ready (LockHeld, OnDisk), and the dispatcher  *)
(* owns them while it sends (SendsRunning).  The exceptions are start-up,  *)
(* when no other task runs (AtRest), and the row the administrator writes  *)
(* after the lock.                                                         *)
(* The last section follows a send in doubt up to its pause.                *)
(***************************************************************************)
EXTENDS AgentRuntime, TLAPS

\* The consumer changes the pauses only under the lock, when poll() raises.
LEMMA ConsumerKeeps == AgentInv /\ ConsumerStep => AgentInv'
<1> USE DEF AgentInv, LockHeld, AtRest, OnDisk, SendsRunning, Up, Take, Free,
            pauses, consumer, processor, dispatcher, admin, process, history
<1> SUFFICES ASSUME AgentInv, ConsumerStep PROVE AgentInv'
  OBVIOUS
<1>1. CASE AwaitIdle
  BY <1>1 DEF AwaitIdle
<1>2. CASE AwaitSettled
  BY <1>2 DEF AwaitSettled
<1>3. CASE CheckReady
  BY <1>3 DEF CheckReady
<1>4. CASE CheckInbox
  BY <1>4 DEF CheckInbox
<1>5. CASE CheckOutbox
  BY <1>5 DEF CheckOutbox
<1>6. CASE PollNothing
  BY <1>6 DEF PollNothing
<1>7. CASE Poll
  BY <1>7 DEF Poll
<1>8. CASE PollFails
  BY <1>8 DEF PollFails, MarkPaused
<1>9. CASE PollPauseRow
  BY <1>9 DEF PollPauseRow, MarkPausedRow
<1>10. ASSUME NEW e \in Event, Yield(e) PROVE AgentInv'
  BY <1>10 DEF Yield
<1>11. CASE Ingest
  BY <1>11 DEF Ingest
<1>12. CASE EndBatch
  BY <1>12 DEF EndBatch
<1> QED
  BY <1>1, <1>2, <1>3, <1>4, <1>5, <1>6, <1>7, <1>8, <1>9, <1>10, <1>11, <1>12 DEF
     ConsumerStep

\* The processor changes the pauses only under the lock, after a dead turn.
LEMMA ProcessorKeeps == AgentInv /\ ProcessorStep => AgentInv'
<1> USE DEF AgentInv, LockHeld, AtRest, OnDisk, SendsRunning, Up, Take, Free,
            pauses, consumer, processor, dispatcher, admin, process, history
<1> SUFFICES ASSUME AgentInv, ProcessorStep PROVE AgentInv'
  OBVIOUS
<1>1. CASE ProcessGate
  BY <1>1 DEF ProcessGate
<1>2. CASE ProcessEnter
  BY <1>2 DEF ProcessEnter
<1>3. ASSUME NEW e \in Event, ProcessClaim(e) PROVE AgentInv'
  BY <1>3 DEF ProcessClaim
<1>4. CASE ProcessNothing
  BY <1>4 DEF ProcessNothing
<1>5. CASE ProcessSettleInbox
  BY <1>5 DEF ProcessSettleInbox
<1>6. CASE ProcessSettleOutbox
  BY <1>6 DEF ProcessSettleOutbox
<1>7. CASE ProcessSkip
  BY <1>7 DEF ProcessSkip, EndTurn
<1>8. CASE ProcessStart
  BY <1>8 DEF ProcessStart
<1>9. CASE ProcessCommit
  BY <1>9 DEF ProcessCommit
<1>10. CASE ProcessRefused
  BY <1>10 DEF ProcessRefused, EndTurn
<1>11. CASE ProcessComplete
  BY <1>11 DEF ProcessComplete, EndTurn
<1>12. CASE ProcessDead
  BY <1>12 DEF ProcessDead, EndTurn
<1>13. CASE ProcessPause
  BY <1>13 DEF ProcessPause, MarkPaused
<1>14. CASE ProcessPauseRow
  BY <1>14 DEF ProcessPauseRow, MarkPausedRow
<1> QED
  BY <1>1, <1>2, <1>3, <1>4, <1>5, <1>6, <1>7, <1>8, <1>9, <1>10, <1>11, <1>12, <1>13,
     <1>14 DEF ProcessorStep

\* The dispatcher begins to send under the lock, on a channel that runs.
LEMMA DispatcherKeeps == AgentInv /\ DispatcherStep => AgentInv'
<1> USE DEF AgentInv, LockHeld, AtRest, OnDisk, SendsRunning, Up, Take, Free,
            pauses, consumer, processor, dispatcher, admin, process, history
<1> SUFFICES ASSUME AgentInv, DispatcherStep PROVE AgentInv'
  OBVIOUS
<1>1. ASSUME NEW e \in Event, Reserve(e) PROVE AgentInv'
  BY <1>1 DEF Reserve
<1>2. CASE Refused
  BY <1>2 DEF Refused, Settle
<1>3. CASE MarkDispatching
  BY <1>3 DEF MarkDispatching
<1>4. CASE DeliverLock
  BY <1>4 DEF DeliverLock
<1>5. CASE DeliverCheck
  BY <1>5 DEF DeliverCheck, Paused
<1>6. CASE NotSent
  BY <1>6 DEF NotSent
<1>7. CASE GuardPauses
  BY <1>7 DEF GuardPauses, MarkPaused
<1>8. CASE Post
  BY <1>8 DEF Post
<1>9. CASE Confirmed
  BY <1>9 DEF Confirmed
<1>10. CASE Unconfirmed
  BY <1>10 DEF Unconfirmed, MarkPaused
<1>11. CASE DeliverPauseRow
  BY <1>11 DEF DeliverPauseRow, MarkPausedRow
<1>12. CASE DeliverTimeout
  BY <1>12 DEF DeliverTimeout
<1>13. CASE Applied
  BY <1>13 DEF Applied, Settle
<1>14. CASE DispatchPause
  BY <1>14 DEF DispatchPause, MarkPaused
<1>15. CASE DispatchPauseRow
  BY <1>15 DEF DispatchPauseRow, MarkPausedRow
<1>16. CASE Derive
  BY <1>16 DEF Derive
<1>17. CASE Derived
  BY <1>17 DEF Derived
<1> QED
  BY <1>1, <1>2, <1>3, <1>4, <1>5, <1>6, <1>7, <1>8, <1>9, <1>10, <1>11, <1>12, <1>13,
     <1>14, <1>15, <1>16, <1>17 DEF DispatcherStep

\* The administrator removes the file and the row under the lock; what it does after the
\* lock concerns a row that no send and no pause in force depends on.
LEMMA AdminKeeps == AgentInv /\ AdminStep => AgentInv'
<1> USE DEF AgentInv, LockHeld, AtRest, OnDisk, SendsRunning, Up, Take, Free,
            pauses, consumer, processor, dispatcher, admin, process, history
<1> SUFFICES ASSUME AgentInv, AdminStep PROVE AgentInv'
  OBVIOUS
<1>1. CASE AskedPause
  BY <1>1 DEF AskedPause, MarkPaused
<1>2. CASE AskedPauseRow
  BY <1>2 DEF AskedPauseRow, MarkPausedRow
<1>3. CASE ResumeBusy
  BY <1>3 DEF ResumeBusy, Answer
<1>4. CASE Resume
  BY <1>4 DEF Resume
<1>5. CASE Baseline
  BY <1>5 DEF Baseline
<1>6. CASE BaselineFails
  BY <1>6 DEF BaselineFails, MarkPaused
<1>7. CASE BaselineFailsRow
  BY <1>7 DEF BaselineFailsRow, MarkPausedRow, Answer
<1>8. CASE Unlink
  BY <1>8 DEF Unlink
<1>9. CASE ClearRow
  BY <1>9 DEF ClearRow
<1>10. CASE Resumed
  BY <1>10 DEF Resumed
<1>11. CASE SetRow
  BY <1>11 DEF SetRow, Answer
<1> QED
  BY <1>1, <1>2, <1>3, <1>4, <1>5, <1>6, <1>7, <1>8, <1>9, <1>10, <1>11 DEF AdminStep

\* A start looks at the file and the row before it makes the channel ready.
LEMMA StartKeeps == AgentInv /\ StartStep => AgentInv'
<1> USE DEF AgentInv, LockHeld, AtRest, OnDisk, SendsRunning, Up, Take, Free,
            pauses, consumer, processor, dispatcher, admin, process, history
<1> SUFFICES ASSUME AgentInv, StartStep PROVE AgentInv'
  OBVIOUS
<1>1. CASE Recover
  BY <1>1 DEF Recover
<1>2. CASE BuildPaused
  BY <1>2 DEF BuildPaused, MarkPaused
<1>3. CASE BuildReady
  BY <1>3 DEF BuildReady, Paused
<1>4. CASE BuildUnready
  BY <1>4 DEF BuildUnready, MarkPaused
<1>5. CASE BuildRow
  BY <1>5 DEF BuildRow, MarkPausedRow
<1>6. CASE Serve
  BY <1>6 DEF Serve
<1>7. CASE PauseInterrupted
  BY <1>7 DEF PauseInterrupted, MarkPaused
<1> QED
  BY <1>1, <1>2, <1>3, <1>4, <1>5, <1>6, <1>7 DEF StartStep

\* Requests, arrivals and stops.
LEMMA OthersKeep ==
  ASSUME AgentInv,
         \/ \E r \in Request : Ask(r[1], r[2])
         \/ \E t \in Target : Arrive(t)
         \/ Stop \/ BuildFails \/ UNCHANGED vars
  PROVE  AgentInv'
<1> USE DEF AgentInv, LockHeld, AtRest, OnDisk, SendsRunning, Up, Take, Free,
            pauses, consumer, processor, dispatcher, admin, process, history
<1>1. ASSUME NEW r \in Request, Ask(r[1], r[2]) PROVE AgentInv'
  BY <1>1, AgentAssumption DEF Ask
<1>2. ASSUME NEW t \in Target, Arrive(t) PROVE AgentInv'
  BY <1>2 DEF Arrive
<1>3. CASE Stop
  BY <1>3 DEF Stop, Reset
<1>4. CASE BuildFails
  BY <1>4 DEF BuildFails, Reset
<1>5. CASE UNCHANGED vars
  BY <1>5 DEF vars
<1> QED
  BY <1>1, <1>2, <1>3, <1>4, <1>5

\* AgentInv holds in every reachable state: locks, file, row and ready stay in step
\* through pauses, resumes and stops of any task.
THEOREM AgentInvariant == Spec => []AgentInv
<1>1. Init => AgentInv
  BY DEF Init, AgentInv, LockHeld, AtRest, OnDisk, SendsRunning
<1>2. AgentInv /\ [Next]_vars => AgentInv'
  BY ConsumerKeeps, ProcessorKeeps, DispatcherKeeps, AdminKeeps, StartKeeps, OthersKeep
     DEF Next
<1> QED
  BY <1>1, <1>2, PTL DEF Spec

\* Once _pause has begun, no crash makes the channel ready again, only a resume does.
THEOREM PauseSurvivesCrashes == Spec => []PauseIsSticky
<1>1. AgentInv => PauseIsSticky
  BY DEF AgentInv, OnDisk, PauseIsSticky
<1> QED
  BY <1>1, AgentInvariant, PTL

\* deliver() posts only while ready is set and neither paused.json nor a row says paused.
THEOREM PausedChannelIsSilent == Spec => SilentWhilePaused
<1>1. AgentInv /\ [Next]_vars
        => [dpc # "posted" /\ dpc' = "posted" => ready /\ ~pauseFile /\ rows = {}]_vars
  <2> SUFFICES ASSUME AgentInv, Next, dpc # "posted", dpc' = "posted"
               PROVE  ready /\ ~pauseFile /\ rows = {}
    OBVIOUS
  <2>1. dpc = "sending"
    BY DEF Next, ConsumerStep, ProcessorStep, DispatcherStep, AdminStep, StartStep,
           dispatcher, EndTurn, Settle, Reset, Ask, Arrive, Stop, BuildFails, AwaitIdle,
           AwaitSettled, CheckReady, CheckInbox, CheckOutbox, PollNothing, Poll,
           PollFails, PollPauseRow, Yield, Ingest, EndBatch, ProcessGate, ProcessEnter,
           ProcessClaim, ProcessNothing, ProcessSettleInbox, ProcessSettleOutbox,
           ProcessSkip, ProcessStart, ProcessCommit, ProcessRefused, ProcessComplete,
           ProcessDead, ProcessPause, ProcessPauseRow, Reserve, Refused,
           MarkDispatching, DeliverLock, DeliverCheck, NotSent, GuardPauses, Post,
           Confirmed, Unconfirmed, DeliverPauseRow, DeliverTimeout, Applied,
           DispatchPause, DispatchPauseRow, Derive, Derived, AskedPause, AskedPauseRow,
           ResumeBusy, Resume, Baseline, BaselineFails, BaselineFailsRow, Unlink,
           ClearRow, Resumed, SetRow, Recover, BuildPaused, BuildReady, BuildUnready,
           BuildRow, Serve, PauseInterrupted
  <2> QED
    BY <2>1 DEF AgentInv, OnDisk, SendsRunning
<1> QED
  BY <1>1, AgentInvariant, PTL DEF Spec, SilentWhilePaused

---------------------------------------------------------------------------
(* A send in doubt.  Between the post and the pause for it the doubt is in  *)
(* the dispatcher's step, in the row's state and in the recovery's flag in  *)
(* turn; a process that ends between two of these loses it.                 *)

\* What every step but the dispatcher's, the administrator's and a start's leaves as it was.
DoubtUntouched ==
  /\ UNCHANGED <<dpc, dat, apc, phase, interrupted, doubt>>
  /\ stopped => stopped'
  /\ pauseFile => pauseFile'
  /\ "channel" \in rows => "channel" \in rows'
  /\ ~Up => outbox' = outbox

LEMMA UntouchedRemembers == DoubtRemembered /\ DoubtUntouched => DoubtRemembered'
  BY DEF DoubtRemembered, DoubtUntouched, Up

LEMMA ConsumerLeavesDoubt == ConsumerStep => DoubtUntouched
<1> USE DEF DoubtUntouched, pauses, tables, dispatcher, admin, process, history, MarkPaused,
            MarkPausedRow
<1> SUFFICES ASSUME ConsumerStep PROVE DoubtUntouched
  OBVIOUS
<1>1. CASE AwaitIdle \/ AwaitSettled \/ CheckReady \/ CheckInbox \/ CheckOutbox \/ PollNothing
  BY <1>1 DEF AwaitIdle, AwaitSettled, CheckReady, CheckInbox, CheckOutbox, PollNothing
<1>2. CASE Poll
  BY <1>2 DEF Poll
<1>3. CASE PollFails
  BY <1>3 DEF PollFails
<1>4. CASE PollPauseRow \/ (\E e \in Event : Yield(e)) \/ Ingest \/ EndBatch
  BY <1>4 DEF PollPauseRow, Yield, Ingest, EndBatch
<1> QED
  BY <1>1, <1>2, <1>3, <1>4 DEF ConsumerStep

LEMMA ProcessorLeavesDoubt == AgentInv /\ ProcessorStep => DoubtUntouched
<1> USE DEF DoubtUntouched, pauses, tables, dispatcher, admin, process, history, MarkPaused,
            MarkPausedRow
<1> SUFFICES ASSUME AgentInv, ProcessorStep PROVE DoubtUntouched
  OBVIOUS
<1>1. CASE \/ ProcessGate \/ ProcessEnter \/ \E e \in Event : ProcessClaim(e)
           \/ ProcessNothing \/ ProcessSettleInbox \/ ProcessSettleOutbox
  BY <1>1 DEF ProcessGate, ProcessEnter, ProcessClaim, ProcessNothing, ProcessSettleInbox,
              ProcessSettleOutbox, EndTurn
<1>2. CASE ProcessSkip \/ ProcessStart \/ ProcessRefused \/ ProcessComplete \/ ProcessDead
  BY <1>2 DEF ProcessSkip, ProcessStart, ProcessRefused, ProcessComplete, ProcessDead, EndTurn
<1>3. CASE ProcessCommit
  BY <1>3 DEF ProcessCommit, AgentInv, AtRest
<1>4. CASE ProcessPause \/ ProcessPauseRow
  BY <1>4 DEF ProcessPause, ProcessPauseRow
<1> QED
  BY <1>1, <1>2, <1>3, <1>4 DEF ProcessorStep

\* The dispatcher posts only when nothing is in doubt, and pauses before it goes on.
LEMMA DispatcherRemembers ==
  AgentInv /\ DoubtRemembered /\ DispatcherStep => DoubtRemembered'
<1> USE DEF DoubtRemembered, Up, pauses, tables, admin, process, history, MarkPaused,
            MarkPausedRow
<1> SUFFICES ASSUME AgentInv, DoubtRemembered, DispatcherStep PROVE DoubtRemembered'
  OBVIOUS
<1>1. CASE \E e \in Event : Reserve(e)
  BY <1>1 DEF Reserve
<1>2. CASE Refused \/ MarkDispatching \/ DeliverLock
  BY <1>2 DEF Refused, MarkDispatching, DeliverLock, Settle, AgentInv, AtRest
<1>3. CASE DeliverCheck \/ NotSent
  BY <1>3 DEF DeliverCheck, NotSent
<1>4. CASE GuardPauses \/ Unconfirmed
  BY <1>4 DEF GuardPauses, Unconfirmed, AgentInv, AtRest
<1>5. CASE Post
  BY <1>5 DEF Post, AgentInv, AtRest, LockHeld, OnDisk, SendsRunning
<1>6. CASE Confirmed
  BY <1>6 DEF Confirmed
<1>7. CASE DeliverPauseRow \/ DeliverTimeout
  BY <1>7 DEF DeliverPauseRow, DeliverTimeout
<1>8. CASE Applied
  BY <1>8 DEF Applied, Settle, AgentInv, AtRest
<1>9. CASE DispatchPause
  BY <1>9 DEF DispatchPause, AgentInv, AtRest
<1>10. CASE DispatchPauseRow \/ Derive \/ Derived
  BY <1>10 DEF DispatchPauseRow, Derive, Derived
<1> QED
  BY <1>1, <1>2, <1>3, <1>4, <1>5, <1>6, <1>7, <1>8, <1>9, <1>10 DEF DispatcherStep

\* A resume decides what was in doubt.
LEMMA AdminRemembers ==
  AgentInv /\ DoubtRemembered /\ AdminStep => DoubtRemembered'
<1> USE DEF DoubtRemembered, Up, pauses, tables, dispatcher, process, history, MarkPaused,
            MarkPausedRow, Answer
<1> SUFFICES ASSUME AgentInv, DoubtRemembered, AdminStep PROVE DoubtRemembered'
  OBVIOUS
<1>0. phase = "serving"
  <2>1. apc # "idle"
    BY DEF AdminStep, AskedPause, AskedPauseRow, ResumeBusy, Resume, Baseline, BaselineFails,
           BaselineFailsRow, Unlink, ClearRow, Resumed, SetRow
  <2> QED
    BY <2>1 DEF AgentInv, AtRest
<1>1. CASE AskedPause \/ AskedPauseRow
  BY <1>0, <1>1 DEF AskedPause, AskedPauseRow
<1>2. CASE ResumeBusy \/ Resume \/ Resumed
  BY <1>0, <1>2 DEF ResumeBusy, Resume, Resumed
<1>3. CASE Baseline
  BY <1>0, <1>3 DEF Baseline
<1>4. CASE BaselineFails
  BY <1>0, <1>4 DEF BaselineFails
<1>5. CASE BaselineFailsRow \/ SetRow
  BY <1>0, <1>5 DEF BaselineFailsRow, SetRow
<1>6. CASE Unlink
  BY <1>0, <1>6 DEF Unlink
<1>7. CASE ClearRow
  BY <1>0, <1>7 DEF ClearRow
<1> QED
  BY <1>1, <1>2, <1>3, <1>4, <1>5, <1>6, <1>7 DEF AdminStep

\* A start reads a pause, or the flag of the recovery.
LEMMA StartRemembers ==
  AgentInv /\ DoubtRemembered /\ StartStep => DoubtRemembered'
<1> USE DEF DoubtRemembered, Up, pauses, tables, dispatcher, admin, history, MarkPaused,
            MarkPausedRow, Paused
<1> SUFFICES ASSUME AgentInv, DoubtRemembered, StartStep PROVE DoubtRemembered'
  OBVIOUS
<1>1. CASE Recover
  BY <1>1 DEF Recover, AgentInv, AtRest
<1>2. CASE BuildPaused
  BY <1>2 DEF BuildPaused, AgentInv, AtRest
<1>3. CASE BuildReady
  BY <1>3 DEF BuildReady, AgentInv, AtRest
<1>4. CASE BuildUnready
  BY <1>4 DEF BuildUnready, AgentInv, AtRest
<1>5. CASE BuildRow
  BY <1>5 DEF BuildRow, AgentInv, AtRest
<1>6. CASE Serve
  BY <1>6 DEF Serve, AgentInv, AtRest
<1>7. CASE PauseInterrupted
  BY <1>7 DEF PauseInterrupted, AgentInv, AtRest
<1> QED
  BY <1>1, <1>2, <1>3, <1>4, <1>5, <1>6, <1>7 DEF StartStep

\* DoubtStopsSending, and what can break it: only a process that ends while the doubt is in
\* memory alone, after its row was recovered or marked UNKNOWN and before the channel is
\* paused for it.
THEOREM OnlyAnEndForgetsADoubt == Spec /\ NoEndForgetsADoubt => DoubtStopsSending
<1>1. Init => DoubtRemembered
  BY DEF Init, DoubtRemembered, Up
<1>2. AgentInv /\ DoubtRemembered /\ [Next]_vars
        /\ [Stop \/ BuildFails => ~OnlyInMemory]_vars => DoubtRemembered'
  <2> SUFFICES ASSUME AgentInv, DoubtRemembered, [Next]_vars,
                      [Stop \/ BuildFails => ~OnlyInMemory]_vars
               PROVE  DoubtRemembered'
    OBVIOUS
  <2>1. CASE ConsumerStep \/ ProcessorStep
    BY <2>1, ConsumerLeavesDoubt, ProcessorLeavesDoubt, UntouchedRemembers
  <2>2. CASE DispatcherStep
    BY <2>2, DispatcherRemembers
  <2>3. CASE AdminStep
    BY <2>3, AdminRemembers
  <2>4. CASE StartStep
    BY <2>4, StartRemembers
  <2>5. CASE \E r \in Request : Ask(r[1], r[2])
    BY <2>5 DEF Ask, DoubtRemembered, Up, pauses, tables, dispatcher, process, history
  <2>6. CASE \E t \in Target : Arrive(t)
    <3>1. DoubtUntouched
      BY <2>6 DEF Arrive, DoubtUntouched, pauses, tables, dispatcher, admin, process
    <3> QED
      BY <3>1, UntouchedRemembers
  <2>7. CASE Stop \/ BuildFails
    <3>1. phase' = "down" /\ dpc' = "loop" /\ UNCHANGED <<pauseFile, rows, outbox, doubt>>
      BY <2>7 DEF Stop, BuildFails, Reset, tables, history
    <3>2. ~OnlyInMemory \/ UNCHANGED vars
      BY <2>7
    <3>3. CASE ~OnlyInMemory
      BY <3>1, <3>3 DEF DoubtRemembered, OnlyInMemory, Up
    <3>4. CASE UNCHANGED vars
      BY <3>4 DEF vars, DoubtRemembered, Up, pauses, tables, dispatcher, admin, process, history
    <3> QED
      BY <3>2, <3>3, <3>4
  <2>8. CASE UNCHANGED vars
    BY <2>8 DEF vars, DoubtRemembered, Up, pauses, tables, dispatcher, admin, process, history
  <2> QED
    BY <2>1, <2>2, <2>3, <2>4, <2>5, <2>6, <2>7, <2>8 DEF Next
<1>3. AgentInv /\ DoubtRemembered /\ [Next]_vars
        => [dpc # "posted" /\ dpc' = "posted" => doubt = {}]_vars
  <2> SUFFICES ASSUME AgentInv, DoubtRemembered, Next, dpc # "posted", dpc' = "posted"
               PROVE  doubt = {}
    OBVIOUS
  <2>1. Post
    <3>1. DispatcherStep
      <4>1. dpc' # dpc /\ dpc' # "loop"
        OBVIOUS
      <4>2. ~ConsumerStep /\ ~ProcessorStep
        BY <4>1, ConsumerLeavesDoubt, ProcessorLeavesDoubt DEF DoubtUntouched
      <4>3. ~AdminStep
        BY <4>1 DEF AdminStep, dispatcher, AskedPause, AskedPauseRow, ResumeBusy, Resume,
               Baseline, BaselineFails, BaselineFailsRow, Unlink, ClearRow, Resumed, SetRow
      <4>4. ~StartStep
        BY <4>1 DEF StartStep, dispatcher, Recover, BuildPaused, BuildReady, BuildUnready,
               BuildRow, Serve, PauseInterrupted
      <4>5. ~(Stop \/ BuildFails) /\ ~(\E r \in Request : Ask(r[1], r[2]))
              /\ ~(\E t \in Target : Arrive(t))
        BY <4>1 DEF Stop, BuildFails, Reset, Ask, Arrive, dispatcher
      <4> QED
        BY <4>2, <4>3, <4>4, <4>5 DEF Next
    <3> QED
      BY <3>1 DEF DispatcherStep, dispatcher, Settle, Reserve, Refused, MarkDispatching,
             DeliverLock, DeliverCheck, NotSent, GuardPauses, Confirmed, Unconfirmed,
             DeliverPauseRow, DeliverTimeout, Applied, DispatchPause, DispatchPauseRow, Derive,
             Derived
  <2> QED
    BY <2>1 DEF Post, DoubtRemembered, AgentInv, AtRest, LockHeld, OnDisk, SendsRunning, Up
<1> QED
  BY <1>1, <1>2, <1>3, AgentInvariant, PTL DEF Spec, NoEndForgetsADoubt, DoubtStopsSending

---------------------------------------------------------------------------
(* Reception is quiet.  A turn holds an active event and a delivery an     *)
(* active reply, and only the consumer makes an event active that was not: *)
(* once the store has said no, the answer stays no while WeChat is read.   *)

\* The event of a turn and the reply of a delivery are active rows.
RowsHeld ==
  /\ inbox \in [Event -> {"none", "pending", "processing", "started", "done", "dead"}]
  /\ outbox \in [Event -> {"none", "pending", "reserved", "dispatching", "acked", "dead",
                           "unknown"}]
  /\ \A e \in Event : inbox[e] \in {"none", "pending", "processing"} => outbox[e] = "none"
  /\ ppc = "claimed" => pat \in Event /\ inbox[pat] = "processing"
  /\ ppc = "generating" => pat \in Event /\ inbox[pat] = "started" /\ outbox[pat] = "none"
  /\ ppc = "complete" => pat \in Event /\ inbox[pat] = "started"
  /\ dpc \in {"evaluate", "deliver", "locked", "sending", "posted", "pauseRow", "ack",
              "failed", "unknown"}
       => dat \in Event /\ outbox[dat] \in {"reserved", "dispatching"}
  /\ cpc = "ingest" => hand \in Event
  /\ batch \subseteq Event

QuietInv ==
  /\ AtRest /\ RowsHeld
  /\ cpc \in {"active2", "poll"} => ~ActiveInbox
  /\ cpc = "poll" => ~ActiveOutbox

\* The consumer makes an event active only when it is past the reading.
LEMMA ConsumerQuiet == QuietInv /\ ConsumerStep => QuietInv'
<1> USE DEF QuietInv, AtRest, RowsHeld, ActiveInbox, ActiveOutbox, Up,
            tables, consumer, processor, dispatcher, admin, process
<1> SUFFICES ASSUME QuietInv, ConsumerStep PROVE QuietInv'
  OBVIOUS
<1>1. CASE AwaitIdle
  BY <1>1 DEF AwaitIdle
<1>2. CASE AwaitSettled
  BY <1>2 DEF AwaitSettled
<1>3. CASE CheckReady
  BY <1>3 DEF CheckReady
<1>4. CASE CheckInbox
  BY <1>4 DEF CheckInbox
<1>5. CASE CheckOutbox
  BY <1>5 DEF CheckOutbox
<1>6. CASE PollNothing
  BY <1>6 DEF PollNothing
<1>7. CASE Poll
  BY <1>7 DEF Poll, Read
<1>8. CASE PollFails
  BY <1>8 DEF PollFails
<1>9. CASE PollPauseRow
  BY <1>9 DEF PollPauseRow
<1>10. ASSUME NEW e \in Event, Yield(e) PROVE QuietInv'
  BY <1>10 DEF Yield, FirstOf
<1>11. CASE Ingest
  BY <1>11 DEF Ingest
<1>12. CASE EndBatch
  BY <1>12 DEF EndBatch
<1> QED
  BY <1>1, <1>2, <1>3, <1>4, <1>5, <1>6, <1>7, <1>8, <1>9, <1>10, <1>11, <1>12 DEF
     ConsumerStep

\* A turn works on an event that is active, and a reply comes from such an event.
LEMMA ProcessorQuiet == QuietInv /\ ProcessorStep => QuietInv'
<1> USE DEF QuietInv, AtRest, RowsHeld, ActiveInbox, ActiveOutbox, Up,
            tables, consumer, processor, dispatcher, admin, process
<1> SUFFICES ASSUME QuietInv, ProcessorStep PROVE QuietInv'
  OBVIOUS
<1>1. CASE ProcessGate
  BY <1>1 DEF ProcessGate
<1>2. CASE ProcessEnter
  BY <1>2 DEF ProcessEnter
<1>3. ASSUME NEW e \in Event, ProcessClaim(e) PROVE QuietInv'
  BY <1>3 DEF ProcessClaim
<1>4. CASE ProcessNothing
  BY <1>4 DEF ProcessNothing
<1>5. CASE ProcessSettleInbox
  BY <1>5 DEF ProcessSettleInbox
<1>6. CASE ProcessSettleOutbox
  BY <1>6 DEF ProcessSettleOutbox
<1>7. CASE ProcessSkip
  BY <1>7 DEF ProcessSkip, EndTurn
<1>8. CASE ProcessStart
  BY <1>8 DEF ProcessStart
<1>9. CASE ProcessCommit
  BY <1>9 DEF ProcessCommit
<1>10. CASE ProcessRefused
  BY <1>10 DEF ProcessRefused, EndTurn
<1>11. CASE ProcessComplete
  BY <1>11 DEF ProcessComplete, EndTurn
<1>12. CASE ProcessDead
  BY <1>12 DEF ProcessDead, EndTurn
<1>13. CASE ProcessPause
  BY <1>13 DEF ProcessPause
<1>14. CASE ProcessPauseRow
  BY <1>14 DEF ProcessPauseRow
<1> QED
  BY <1>1, <1>2, <1>3, <1>4, <1>5, <1>6, <1>7, <1>8, <1>9, <1>10, <1>11, <1>12, <1>13,
     <1>14 DEF ProcessorStep

\* A delivery works on a reply that is active.
LEMMA DispatcherQuiet == QuietInv /\ DispatcherStep => QuietInv'
<1> USE DEF QuietInv, AtRest, RowsHeld, ActiveInbox, ActiveOutbox, Up,
            tables, consumer, processor, dispatcher, admin, process
<1> SUFFICES ASSUME QuietInv, DispatcherStep PROVE QuietInv'
  OBVIOUS
<1>1. ASSUME NEW e \in Event, Reserve(e) PROVE QuietInv'
  BY <1>1 DEF Reserve
<1>2. CASE Refused
  BY <1>2 DEF Refused, Settle
<1>3. CASE MarkDispatching
  BY <1>3 DEF MarkDispatching
<1>4. CASE DeliverLock
  BY <1>4 DEF DeliverLock
<1>5. CASE DeliverCheck
  BY <1>5 DEF DeliverCheck
<1>6. CASE NotSent
  BY <1>6 DEF NotSent
<1>7. CASE GuardPauses
  BY <1>7 DEF GuardPauses
<1>8. CASE Post
  BY <1>8 DEF Post
<1>9. CASE Confirmed
  BY <1>9 DEF Confirmed
<1>10. CASE Unconfirmed
  BY <1>10 DEF Unconfirmed
<1>11. CASE DeliverPauseRow
  BY <1>11 DEF DeliverPauseRow
<1>12. CASE DeliverTimeout
  BY <1>12 DEF DeliverTimeout
<1>13. CASE Applied
  BY <1>13 DEF Applied, Settle
<1>14. CASE DispatchPause
  BY <1>14 DEF DispatchPause
<1>15. CASE DispatchPauseRow
  BY <1>15 DEF DispatchPauseRow
<1>16. CASE Derive
  BY <1>16 DEF Derive
<1>17. CASE Derived
  BY <1>17 DEF Derived
<1> QED
  BY <1>1, <1>2, <1>3, <1>4, <1>5, <1>6, <1>7, <1>8, <1>9, <1>10, <1>11, <1>12, <1>13,
     <1>14, <1>15, <1>16, <1>17 DEF DispatcherStep

\* The administrator touches no row of the inbox or the outbox.
LEMMA AdminQuiet == QuietInv /\ AdminStep => QuietInv'
<1> USE DEF QuietInv, AtRest, RowsHeld, ActiveInbox, ActiveOutbox, Up,
            tables, consumer, processor, dispatcher, admin, process
<1> SUFFICES ASSUME QuietInv, AdminStep PROVE QuietInv'
  OBVIOUS
<1>1. CASE AskedPause
  BY <1>1 DEF AskedPause
<1>2. CASE AskedPauseRow
  BY <1>2 DEF AskedPauseRow
<1>3. CASE ResumeBusy
  BY <1>3 DEF ResumeBusy
<1>4. CASE Resume
  BY <1>4 DEF Resume
<1>5. CASE Baseline
  BY <1>5 DEF Baseline
<1>6. CASE BaselineFails
  BY <1>6 DEF BaselineFails
<1>7. CASE BaselineFailsRow
  BY <1>7 DEF BaselineFailsRow
<1>8. CASE Unlink
  BY <1>8 DEF Unlink
<1>9. CASE ClearRow
  BY <1>9 DEF ClearRow
<1>10. CASE Resumed
  BY <1>10 DEF Resumed
<1>11. CASE SetRow
  BY <1>11 DEF SetRow
<1> QED
  BY <1>1, <1>2, <1>3, <1>4, <1>5, <1>6, <1>7, <1>8, <1>9, <1>10, <1>11 DEF AdminStep

\* Nobody reads during start-up.
LEMMA StartQuiet == QuietInv /\ StartStep => QuietInv'
<1> USE DEF QuietInv, AtRest, RowsHeld, ActiveInbox, ActiveOutbox, Up,
            tables, consumer, processor, dispatcher, admin, process
<1> SUFFICES ASSUME QuietInv, StartStep PROVE QuietInv'
  OBVIOUS
<1>1. CASE Recover
  BY <1>1 DEF Recover
<1>2. CASE BuildPaused
  BY <1>2 DEF BuildPaused
<1>3. CASE BuildReady
  BY <1>3 DEF BuildReady
<1>4. CASE BuildUnready
  BY <1>4 DEF BuildUnready
<1>5. CASE BuildRow
  BY <1>5 DEF BuildRow
<1>6. CASE Serve
  BY <1>6 DEF Serve
<1>7. CASE PauseInterrupted
  BY <1>7 DEF PauseInterrupted
<1> QED
  BY <1>1, <1>2, <1>3, <1>4, <1>5, <1>6, <1>7 DEF StartStep

\* Requests, arrivals and stops.
LEMMA OthersQuiet ==
  ASSUME QuietInv,
         \/ \E r \in Request : Ask(r[1], r[2])
         \/ \E t \in Target : Arrive(t)
         \/ Stop \/ BuildFails \/ UNCHANGED vars
  PROVE  QuietInv'
<1> USE DEF QuietInv, AtRest, RowsHeld, ActiveInbox, ActiveOutbox, Up,
            tables, consumer, processor, dispatcher, admin, process
<1>1. ASSUME NEW r \in Request, Ask(r[1], r[2]) PROVE QuietInv'
  BY <1>1 DEF Ask
<1>2. ASSUME NEW t \in Target, Arrive(t) PROVE QuietInv'
  BY <1>2 DEF Arrive
<1>3. CASE Stop
  BY <1>3 DEF Stop, Reset
<1>4. CASE BuildFails
  BY <1>4 DEF BuildFails, Reset
<1>5. CASE UNCHANGED vars
  BY <1>5 DEF vars
<1> QED
  BY <1>1, <1>2, <1>3, <1>4, <1>5

\* QuietInv holds in every reachable state: turns and deliveries hold active rows, and a
\* negative answer of has_active_inbox or has_active_outbox is not out of date when used.
THEOREM QuietInvariant == Spec => []QuietInv
<1>1. Init => QuietInv
  BY DEF Init, QuietInv, AtRest, RowsHeld, ActiveInbox, ActiveOutbox
<1>2. QuietInv /\ [Next]_vars => QuietInv'
  BY ConsumerQuiet, ProcessorQuiet, DispatcherQuiet, AdminQuiet, StartQuiet, OthersQuiet
     DEF Next
<1> QED
  BY <1>1, <1>2, PTL DEF Spec

\* WeChat is never read while an event is pending or in a turn, or a reply on its way.
THEOREM ReceptionIsQuiet == Spec => []QuietWhilePolling
<1>1. QuietInv => QuietWhilePolling
  BY DEF QuietInv, QuietWhilePolling
<1> QED
  BY <1>1, QuietInvariant, PTL

---------------------------------------------------------------------------
(* What came during a downtime is skipped.  Whenever a conversation is     *)
(* received from, its anchor is at or past everything that came before;    *)
(* what is in hand, in the batch or recorded has come at another time.     *)

\* The event has been read.
Taken(e) == inbox[e] # "none" \/ e \in batch \/ (cpc = "ingest" /\ hand = e)

\* e came in a downtime, and is behind the anchor of a conversation received from.
Skipped(e) ==
  /\ e[2] <= log[e[1]] /\ ~Taken(e)
  /\ Receiving(e[1]) /\ apc # "baseline" => e[2] <= anchor[e[1]]

DownInv ==
  /\ log \in [Target -> Nat] /\ anchor \in [Target -> Nat]
  /\ cpc \in {"active", "active2", "poll"} => ready
  /\ \A e \in Event : Taken(e) => e[2] <= log[e[1]]
  /\ downtime \subseteq Event
  /\ \A e \in downtime : Skipped(e)

\* An event is a conversation and a number.
LEMMA EventShape == \A e \in Event : e[1] \in Target /\ e[2] \in Nat
  BY AgentAssumption DEF Event

\* A read goes from the anchor to the log of conversations received from.
LEMMA ConsumerSkips == AgentInv /\ QuietInv /\ DownInv /\ ConsumerStep => DownInv'
<1> USE EventShape DEF DownInv, Taken, Skipped, Receiving, AgentInv, LockHeld, AtRest, Up,
            Take, Free, QuietInv, RowsHeld, chats, pauses, tables, consumer, processor,
            dispatcher, admin, process, history
<1> SUFFICES ASSUME AgentInv, QuietInv, DownInv, ConsumerStep PROVE DownInv'
  OBVIOUS
<1>1. CASE AwaitIdle
  BY <1>1 DEF AwaitIdle
<1>2. CASE AwaitSettled
  BY <1>2 DEF AwaitSettled
<1>3. CASE CheckReady
  BY <1>3 DEF CheckReady, Paused
<1>4. CASE CheckInbox
  BY <1>4 DEF CheckInbox
<1>5. CASE CheckOutbox
  BY <1>5 DEF CheckOutbox
<1>6. CASE PollNothing
  BY <1>6 DEF PollNothing
<1>7. CASE Poll
  BY <1>7 DEF Poll, Read
<1>8. CASE PollFails
  BY <1>8 DEF PollFails, MarkPaused
<1>9. CASE PollPauseRow
  BY <1>9 DEF PollPauseRow, MarkPausedRow
<1>10. ASSUME NEW e \in Event, Yield(e) PROVE DownInv'
  BY <1>10 DEF Yield, FirstOf
<1>11. CASE Ingest
  BY <1>11 DEF Ingest
<1>12. CASE EndBatch
  BY <1>12 DEF EndBatch
<1> QED
  BY <1>1, <1>2, <1>3, <1>4, <1>5, <1>6, <1>7, <1>8, <1>9, <1>10, <1>11, <1>12 DEF
     ConsumerStep

\* A turn works on an event that was read.
LEMMA ProcessorSkips == AgentInv /\ QuietInv /\ DownInv /\ ProcessorStep => DownInv'
<1> USE EventShape DEF DownInv, Taken, Skipped, Receiving, AgentInv, LockHeld, AtRest, Up,
            Take, Free, QuietInv, RowsHeld, chats, pauses, tables, consumer, processor,
            dispatcher, admin, process, history
<1> SUFFICES ASSUME AgentInv, QuietInv, DownInv, ProcessorStep PROVE DownInv'
  OBVIOUS
<1>1. CASE ProcessGate
  BY <1>1 DEF ProcessGate
<1>2. CASE ProcessEnter
  BY <1>2 DEF ProcessEnter
<1>3. ASSUME NEW e \in Event, ProcessClaim(e) PROVE DownInv'
  BY <1>3 DEF ProcessClaim
<1>4. CASE ProcessNothing
  BY <1>4 DEF ProcessNothing
<1>5. CASE ProcessSettleInbox
  BY <1>5 DEF ProcessSettleInbox
<1>6. CASE ProcessSettleOutbox
  BY <1>6 DEF ProcessSettleOutbox
<1>7. CASE ProcessSkip
  BY <1>7 DEF ProcessSkip, EndTurn
<1>8. CASE ProcessStart
  BY <1>8 DEF ProcessStart
<1>9. CASE ProcessCommit
  BY <1>9 DEF ProcessCommit
<1>10. CASE ProcessRefused
  BY <1>10 DEF ProcessRefused, EndTurn
<1>11. CASE ProcessComplete
  BY <1>11 DEF ProcessComplete, EndTurn
<1>12. CASE ProcessDead
  BY <1>12 DEF ProcessDead, EndTurn
<1>13. CASE ProcessPause
  BY <1>13 DEF ProcessPause, MarkPaused
<1>14. CASE ProcessPauseRow
  BY <1>14 DEF ProcessPauseRow, MarkPausedRow
<1> QED
  BY <1>1, <1>2, <1>3, <1>4, <1>5, <1>6, <1>7, <1>8, <1>9, <1>10, <1>11, <1>12, <1>13,
     <1>14 DEF ProcessorStep

\* A delivery may pause a conversation, never receive from one.
LEMMA DispatcherSkips == AgentInv /\ QuietInv /\ DownInv /\ DispatcherStep => DownInv'
<1> USE EventShape DEF DownInv, Taken, Skipped, Receiving, AgentInv, LockHeld, AtRest, Up,
            Take, Free, QuietInv, RowsHeld, chats, pauses, tables, consumer, processor,
            dispatcher, admin, process, history
<1> SUFFICES ASSUME AgentInv, QuietInv, DownInv, DispatcherStep PROVE DownInv'
  OBVIOUS
<1>1. ASSUME NEW e \in Event, Reserve(e) PROVE DownInv'
  BY <1>1 DEF Reserve
<1>2. CASE Refused
  BY <1>2 DEF Refused, Settle
<1>3. CASE MarkDispatching
  BY <1>3 DEF MarkDispatching
<1>4. CASE DeliverLock
  BY <1>4 DEF DeliverLock
<1>5. CASE DeliverCheck
  BY <1>5 DEF DeliverCheck
<1>6. CASE NotSent
  BY <1>6 DEF NotSent
<1>7. CASE GuardPauses
  BY <1>7 DEF GuardPauses, MarkPaused
<1>8. CASE Post
  BY <1>8 DEF Post
<1>9. CASE Confirmed
  BY <1>9 DEF Confirmed
<1>10. CASE Unconfirmed
  BY <1>10 DEF Unconfirmed, MarkPaused
<1>11. CASE DeliverPauseRow
  BY <1>11 DEF DeliverPauseRow, MarkPausedRow
<1>12. CASE DeliverTimeout
  BY <1>12 DEF DeliverTimeout
<1>13. CASE Applied
  BY <1>13 DEF Applied, Settle
<1>14. CASE DispatchPause
  BY <1>14 DEF DispatchPause, MarkPaused
<1>15. CASE DispatchPauseRow
  BY <1>15 DEF DispatchPauseRow, MarkPausedRow
<1>16. CASE Derive
  BY <1>16 DEF Derive
<1>17. CASE Derived
  BY <1>17 DEF Derived
<1> QED
  BY <1>1, <1>2, <1>3, <1>4, <1>5, <1>6, <1>7, <1>8, <1>9, <1>10, <1>11, <1>12, <1>13,
     <1>14, <1>15, <1>16, <1>17 DEF DispatcherStep

\* A resume receives again only behind its new baseline.
LEMMA AdminSkips == AgentInv /\ QuietInv /\ DownInv /\ AdminStep => DownInv'
<1> USE EventShape DEF DownInv, Taken, Skipped, Receiving, AgentInv, LockHeld, AtRest, Up,
            Take, Free, QuietInv, RowsHeld, chats, pauses, tables, consumer, processor,
            dispatcher, admin, process, history
<1> SUFFICES ASSUME AgentInv, QuietInv, DownInv, AdminStep PROVE DownInv'
  OBVIOUS
<1>1. CASE AskedPause
  BY <1>1 DEF AskedPause, MarkPaused
<1>2. CASE AskedPauseRow
  BY <1>2 DEF AskedPauseRow, MarkPausedRow
<1>3. CASE ResumeBusy
  BY <1>3 DEF ResumeBusy, Answer
<1>4. CASE Resume
  BY <1>4 DEF Resume
<1>5. CASE Baseline
  BY <1>5 DEF Baseline
<1>6. CASE BaselineFails
  BY <1>6 DEF BaselineFails, MarkPaused
<1>7. CASE BaselineFailsRow
  BY <1>7 DEF BaselineFailsRow, MarkPausedRow, Answer
<1>8. CASE Unlink
  BY <1>8 DEF Unlink
<1>9. CASE ClearRow
  BY <1>9 DEF ClearRow
<1>10. CASE Resumed
  BY <1>10 DEF Resumed
<1>11. CASE SetRow
  BY <1>11 DEF SetRow, Answer
<1> QED
  BY <1>1, <1>2, <1>3, <1>4, <1>5, <1>6, <1>7, <1>8, <1>9, <1>10, <1>11 DEF AdminStep

\* So does a start.
LEMMA StartSkips == AgentInv /\ QuietInv /\ DownInv /\ StartStep => DownInv'
<1> USE EventShape DEF DownInv, Taken, Skipped, Receiving, AgentInv, LockHeld, AtRest, Up,
            Take, Free, QuietInv, RowsHeld, chats, pauses, tables, consumer, processor,
            dispatcher, admin, process, history
<1> SUFFICES ASSUME AgentInv, QuietInv, DownInv, StartStep PROVE DownInv'
  OBVIOUS
<1>1. CASE Recover
  BY <1>1 DEF Recover
<1>2. CASE BuildPaused
  BY <1>2 DEF BuildPaused, MarkPaused
<1>3. CASE BuildReady
  BY <1>3 DEF BuildReady
<1>4. CASE BuildUnready
  BY <1>4 DEF BuildUnready, MarkPaused
<1>5. CASE BuildRow
  BY <1>5 DEF BuildRow, MarkPausedRow
<1>6. CASE Serve
  BY <1>6 DEF Serve
<1>7. CASE PauseInterrupted
  BY <1>7 DEF PauseInterrupted, MarkPaused
<1> QED
  BY <1>1, <1>2, <1>3, <1>4, <1>5, <1>6, <1>7 DEF StartStep

\* Requests, arrivals and stops.
LEMMA OthersSkip ==
  ASSUME AgentInv, QuietInv, DownInv,
         \/ \E r \in Request : Ask(r[1], r[2])
         \/ \E t \in Target : Arrive(t)
         \/ Stop \/ BuildFails \/ UNCHANGED vars
  PROVE  DownInv'
<1> USE EventShape DEF DownInv, Taken, Skipped, Receiving, AgentInv, LockHeld, AtRest, Up,
            Take, Free, QuietInv, RowsHeld, chats, pauses, tables, consumer, processor,
            dispatcher, admin, process, history
<1>1. ASSUME NEW r \in Request, Ask(r[1], r[2]) PROVE DownInv'
  BY <1>1, AgentAssumption DEF Ask
<1>2. ASSUME NEW t \in Target, Arrive(t) PROVE DownInv'
  BY <1>2, AgentAssumption DEF Arrive, Event
<1>3. CASE Stop
  BY <1>3 DEF Stop, Reset
<1>4. CASE BuildFails
  BY <1>4 DEF BuildFails, Reset
<1>5. CASE UNCHANGED vars
  BY <1>5 DEF vars
<1> QED
  BY <1>1, <1>2, <1>3, <1>4, <1>5

\* No message that came while the channel or its conversation was paused or the process
\* down is ever recorded, whatever is paused, resumed, failing or stopped in between.
THEOREM DowntimeIsNeverReplayed == Spec => []DowntimeIsSkipped
<1>1. Init => DownInv
  BY EventShape DEF Init, DownInv, Taken, Skipped, Receiving
<1>2. AgentInv /\ QuietInv /\ DownInv /\ [Next]_vars => DownInv'
  BY ConsumerSkips, ProcessorSkips, DispatcherSkips, AdminSkips, StartSkips, OthersSkip
     DEF Next
<1>3. DownInv => DowntimeIsSkipped
  BY DEF DownInv, Skipped, Taken, DowntimeIsSkipped
<1> QED
  BY <1>1, <1>2, <1>3, AgentInvariant, QuietInvariant, PTL DEF Spec
=============================================================================
