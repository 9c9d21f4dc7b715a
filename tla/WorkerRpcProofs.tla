-------------------------- MODULE WorkerRpcProofs --------------------------
(***************************************************************************)
(* The proxy's accounts and its pipes, for any number of calls, any        *)
(* timeout, cancelled caller, failed ledger and crash of the worker.       *)
(*                                                                         *)
(* The proxy gives a worker up on every exchange that did not end with the *)
(* right answer, so that at most one request or answer is ever under way   *)
(* (OneUnderWay) and it belongs to the call that holds the lock, or to one *)
(* that has given the worker up (RequestOK, AnswerOK).  Money on the way   *)
(* back therefore belongs to a call whose answer was read, and that answer *)
(* said, truly, that the provider was not called (Owed).                   *)
(***************************************************************************)
EXTENDS WorkerRpc, TLAPS

\* A pipe with one frame in it.
LEMMA OneItem ==
  ASSUME NEW x
  PROVE  Append(<<>>, x) = <<x>> /\ Head(<<x>>) = x /\ Tail(<<x>>) = <<>> /\ <<x>> # <<>>
  OBVIOUS

\* The fields of an answer.
LEMMA AnswerFields ==
  ASSUME cur \in Frames, NEW t \in AnswerTypes, NEW s \in BOOLEAN,
         NEW a, a = Answer(cur, t, s) \/ a = LastAnswer(cur, t, s)
  PROVE  /\ a \in Answers
         /\ a.call = cur.call /\ a.to = cur.type /\ a.type = t /\ a.started = s
<1>1. Answer(cur, t, s) \in Answers
  BY DEF Answer, Answers, Frames, AnswerTypes
<1>2. LastAnswer(cur, t, s) \in Answers
  BY DEF LastAnswer, Answers, Frames, AnswerTypes
<1>3. a.call = cur.call /\ a.to = cur.type /\ a.type = t
  BY DEF Answer, LastAnswer
<1>4. a.started = s
  BY DEF Answer, LastAnswer
<1> QED
  BY <1>1, <1>2, <1>3, <1>4

\* What a worker answers: prepared only to analyze, and that the provider was not called only
\* before it is.
LEMMA AnswerForm ==
  ASSUME kind \in {"model", "vision", "browser"}, cur \in Frames, wst \in {"work", "called"},
         cur.type = "generate" => kind = "model", cur.type = "commit" => kind = "vision",
         NEW a \in WorkerAnswers
  PROVE  \E t \in AnswerTypes, s \in BOOLEAN :
           /\ a = Answer(cur, t, s) \/ a = LastAnswer(cur, t, s)
           /\ t = "prepared" => cur.type = "analyze"
           /\ cur.type \in Paid /\ s = FALSE => wst = "work"
<1>2. CASE kind = "model"
  <2>1. a \in ModelAnswers
    BY <1>2 DEF WorkerAnswers
  <2> QED
    BY <1>2, <2>1 DEF ModelAnswers, Frames, FrameTypes, AnswerTypes, Paid
<1>3. CASE kind = "vision"
  <2>1. a \in VisionAnswers
    BY <1>3 DEF WorkerAnswers
  <2>2. CASE cur.type = "analyze"
    BY <2>1, <2>2 DEF VisionAnswers, AnswerTypes, Paid
  <2>3. CASE cur.type = "commit"
    BY <2>1, <2>3 DEF VisionAnswers, AnswerTypes, Paid
  <2>4. CASE cur.type \notin {"analyze", "commit"}
    BY <1>3, <2>1, <2>4 DEF VisionAnswers, AnswerTypes, Paid
  <2> QED
    BY <2>2, <2>3, <2>4
<1>4. CASE kind = "browser"
  <2>1. a \in BrowserAnswers
    BY <1>4 DEF WorkerAnswers
  <2> QED
    BY <1>4, <2>1 DEF BrowserAnswers, AnswerTypes, Paid
<1> QED
  BY <1>2, <1>3, <1>4

\* The same in terms of the fields, for a worker with a request in hand.
LEMMA AnswerShape ==
  ASSUME WorkerInv, wst # "read", NEW a \in WorkerAnswers
  PROVE  /\ a \in Answers /\ a.call = cur.call /\ a.to = cur.type
         /\ a.type = "prepared" => cur.type = "analyze"
         /\ cur.type \in Paid /\ ~a.started => wst = "work"
<1>1. cur \in Frames /\ wst \in {"work", "called"} /\ kind \in {"model", "vision", "browser"}
  BY DEF WorkerInv, WorkerTypeOK, OneUnderWay
<1>2. (cur.type = "generate" => kind = "model") /\ (cur.type = "commit" => kind = "vision")
  BY DEF WorkerInv, RequestOK
<1>3. PICK t \in AnswerTypes, s \in BOOLEAN :
        /\ a = Answer(cur, t, s) \/ a = LastAnswer(cur, t, s)
        /\ t = "prepared" => cur.type = "analyze"
        /\ cur.type \in Paid /\ s = FALSE => wst = "work"
  BY <1>1, <1>2, AnswerForm
<1>4. a \in Answers /\ a.call = cur.call /\ a.to = cur.type /\ a.type = t /\ a.started = s
  BY <1>1, <1>3, AnswerFields
<1> QED
  BY <1>3, <1>4

\* However a call ends, the flag and the process keep their types.
LEMMA Terminates ==
  ASSUME WorkerTypeOK, TerminateWorker \/ (\E b : TerminateIf(b)) \/ UNCHANGED <<poisoned, proc>>
  PROVE  poisoned' \in BOOLEAN /\ proc' \in {"up", "stopping", "gone"}
<1>1. TerminateWorker \/ UNCHANGED <<poisoned, proc>>
  BY DEF TerminateIf
<1>2. poisoned' \in BOOLEAN
  BY <1>1 DEF TerminateWorker, WorkerTypeOK
<1>3. proc' \in {"up", "stopping", "gone"}
  BY <1>1 DEF TerminateWorker, WorkerTypeOK
<1> QED
  BY <1>2, <1>3

\* What an operation sends is a frame.
LEMMA FrameShape ==
  ASSUME WorkerInv, NEW c \in Caller
  PROVE  Frame(c, FrameType(c)) \in Frames
  BY DEF WorkerInv, WorkerTypeOK, Frame, FrameType, Frames, FrameTypes

\* What follows an answer is a verdict.
LEMMA VerdictShape ==
  ASSUME WorkerInv, NEW c \in Caller, NEW a \in Answers
  PROVE  /\ RemoteFailure(c, a) \in Verdict /\ Failed(c) \in Verdict /\ Accepted(c, a) \in Verdict
  BY DEF WorkerInv, WorkerTypeOK, RemoteFailure, Failed, Accepted, GiveUp, GoOn, Plain, Verdict,
     FrameType, Answers

\* The one frame of a pipe, and its call.
LEMMA UnderWay ==
  ASSUME WorkerInv
  PROVE  /\ toWorker # <<>> => Head(toWorker) \in Frames /\ toWorker = <<Head(toWorker)>>
                               /\ Head(toWorker).call \in Caller /\ Tail(toWorker) = <<>>
         /\ fromWorker # <<>> => Head(fromWorker) \in Answers /\ fromWorker = <<Head(fromWorker)>>
                               /\ Head(fromWorker).call \in Caller /\ Tail(fromWorker) = <<>>
         /\ wst # "read" => cur \in Frames /\ cur.call \in Caller
  BY OneItem DEF WorkerInv, OneUnderWay, AtMostOne, Frames, Answers

\* The steps of the proxy but the reading of an answer: the lock, the reservation, the frame
\* that is written into an empty pipe, and the ways out.
LEMMA ProxyKeeps ==
  ASSUME WorkerInv, NEW c \in Caller,
         \/ \E o \in Operations \cup {"init"} : Arrive(c, o)
         \/ Enter(c) \/ ReserveFor(c) \/ WriteRequest(c) \/ RpcFails(c) \/ SettleCall(c)
         \/ Leave(c) \/ CancelWaiting(c)
  PROVE  WorkerInv'
<1> USE WorkerAssumption, UnderWay DEF WorkerInv, WorkerTypeOK, OneHolder, ReservedFirst,
            OneUnderWay, Empty, Owed, RequestOK, AnswerOK, PendingOK, Paid, FrameType,
            proxy, calls, money, pipes, worker
<1>1. ASSUME NEW o \in Operations \cup {"init"}, Arrive(c, o) PROVE WorkerInv'
  BY <1>1 DEF Arrive, Operations
<1>2. CASE Enter(c)
  <2>1. WorkerTypeOK'
    <3>1. poisoned' \in BOOLEAN /\ proc' \in {"up", "stopping", "gone"}
      BY <1>2, Terminates DEF Enter
    <3> QED
      BY <1>2, <3>1 DEF Enter
  <2>2. OneHolder'
    BY <1>2 DEF Enter, TerminateWorker
  <2>3. PendingOK'
    BY <1>2 DEF Enter, TerminateWorker
  <2>4. \A d \in Caller : ReservedFirst(d)' /\ (d \in called' => Owed(d)')
    BY <1>2 DEF Enter, TerminateWorker
  <2>5. OneUnderWay'
    BY <1>2 DEF Enter, TerminateWorker
  <2>6. toWorker' # <<>> => RequestOK(Head(toWorker))'
    BY <1>2 DEF Enter, TerminateWorker
  <2>7. wst' # "read" => RequestOK(cur)'
    BY <1>2 DEF Enter, TerminateWorker
  <2>8. fromWorker' # <<>> => AnswerOK(Head(fromWorker))'
    BY <1>2 DEF Enter, TerminateWorker
  <2> QED
    BY <2>1, <2>2, <2>3, <2>4, <2>5, <2>6, <2>7, <2>8
<1>3. CASE ReserveFor(c)
  <2>1. WorkerTypeOK'
    <3>1. poisoned' \in BOOLEAN /\ proc' \in {"up", "stopping", "gone"}
      BY <1>3, Terminates DEF ReserveFor
    <3> QED
      BY <1>3, <3>1 DEF ReserveFor
  <2>2. OneHolder'
    BY <1>3 DEF ReserveFor, TerminateIf, TerminateWorker
  <2>3. PendingOK'
    BY <1>3 DEF ReserveFor, TerminateIf, TerminateWorker
  <2>4. \A d \in Caller : ReservedFirst(d)' /\ (d \in called' => Owed(d)')
    BY <1>3 DEF ReserveFor, TerminateIf, TerminateWorker
  <2>5. OneUnderWay'
    BY <1>3 DEF ReserveFor, TerminateIf, TerminateWorker
  <2>6. toWorker' # <<>> => RequestOK(Head(toWorker))'
    BY <1>3 DEF ReserveFor, TerminateIf, TerminateWorker
  <2>7. wst' # "read" => RequestOK(cur)'
    BY <1>3 DEF ReserveFor, TerminateIf, TerminateWorker
  <2>8. fromWorker' # <<>> => AnswerOK(Head(fromWorker))'
    BY <1>3 DEF ReserveFor, TerminateIf, TerminateWorker
  <2> QED
    BY <2>1, <2>2, <2>3, <2>4, <2>5, <2>6, <2>7, <2>8
<1>4. CASE WriteRequest(c)
  <2>1. WorkerTypeOK'
    BY <1>4, OneItem, FrameShape DEF WriteRequest, Frame
  <2>2. OneHolder'
    BY <1>4, OneItem, FrameShape DEF WriteRequest, Frame
  <2>3. PendingOK'
    BY <1>4, OneItem, FrameShape DEF WriteRequest, Frame
  <2>4. \A d \in Caller : ReservedFirst(d)' /\ (d \in called' => Owed(d)')
    BY <1>4, OneItem, FrameShape DEF WriteRequest, Frame
  <2>5. OneUnderWay'
    <3>1. Empty
      BY <1>4 DEF WriteRequest
    <3>2. toWorker' = <<Frame(c, FrameType(c))>>
      BY <1>4, <3>1, OneItem DEF WriteRequest
    <3>3. toWorker' \in AtMostOne(Frames)
      BY <3>2, FrameShape DEF AtMostOne
    <3> QED
      BY <1>4, <3>1, <3>2, <3>3 DEF WriteRequest
  <2>6. toWorker' # <<>> => RequestOK(Head(toWorker))'
    BY <1>4, OneItem, FrameShape DEF WriteRequest, Frame
  <2>7. wst' # "read" => RequestOK(cur)'
    BY <1>4, OneItem, FrameShape DEF WriteRequest, Frame
  <2>8. fromWorker' # <<>> => AnswerOK(Head(fromWorker))'
    BY <1>4, OneItem, FrameShape DEF WriteRequest, Frame
  <2> QED
    BY <2>1, <2>2, <2>3, <2>4, <2>5, <2>6, <2>7, <2>8
<1>5. CASE RpcFails(c)
  <2>1. WorkerTypeOK'
    <3>1. poisoned' \in BOOLEAN /\ proc' \in {"up", "stopping", "gone"}
      BY <1>5, Terminates DEF RpcFails
    <3>2. Failed(c) \in Verdict
      BY DEF Failed, GiveUp, Verdict
    <3> QED
      BY <1>5, <3>1, <3>2 DEF RpcFails
  <2>2. OneHolder'
    BY <1>5, VerdictShape DEF RpcFails, TerminateWorker, Failed, GiveUp
  <2>3. PendingOK'
    BY <1>5, VerdictShape DEF RpcFails, TerminateWorker, Failed, GiveUp
  <2>4. \A d \in Caller : ReservedFirst(d)' /\ (d \in called' => Owed(d)')
    BY <1>5, VerdictShape DEF RpcFails, TerminateWorker, Failed, GiveUp
  <2>5. OneUnderWay'
    BY <1>5, VerdictShape DEF RpcFails, TerminateWorker, Failed, GiveUp
  <2>6. toWorker' # <<>> => RequestOK(Head(toWorker))'
    BY <1>5, VerdictShape DEF RpcFails, TerminateWorker, Failed, GiveUp
  <2>7. wst' # "read" => RequestOK(cur)'
    BY <1>5, VerdictShape DEF RpcFails, TerminateWorker, Failed, GiveUp
  <2>8. fromWorker' # <<>> => AnswerOK(Head(fromWorker))'
    BY <1>5, VerdictShape DEF RpcFails, TerminateWorker, Failed, GiveUp
  <2> QED
    BY <2>1, <2>2, <2>3, <2>4, <2>5, <2>6, <2>7, <2>8
<1>6. CASE SettleCall(c)
  <2>1. WorkerTypeOK'
    <3>1. poisoned' \in BOOLEAN /\ proc' \in {"up", "stopping", "gone"}
      BY <1>6, Terminates DEF SettleCall
    <3>2. ledgerFailed' \in BOOLEAN
      BY <1>6 DEF SettleCall
    <3> QED
      BY <1>6, <3>1, <3>2 DEF SettleCall, Settled, Verdict
  <2>2. OneHolder'
    BY <1>6 DEF SettleCall, TerminateIf, TerminateWorker, Settled, Verdict
  <2>3. PendingOK'
    BY <1>6 DEF SettleCall, TerminateIf, TerminateWorker, Settled, Verdict
  <2>4. \A d \in Caller : ReservedFirst(d)' /\ (d \in called' => Owed(d)')
    BY <1>6 DEF SettleCall, TerminateIf, TerminateWorker, Settled, Verdict
  <2>5. OneUnderWay'
    BY <1>6 DEF SettleCall, TerminateIf, TerminateWorker, Settled, Verdict
  <2>6. toWorker' # <<>> => RequestOK(Head(toWorker))'
    BY <1>6 DEF SettleCall, TerminateIf, TerminateWorker, Settled, Verdict
  <2>7. wst' # "read" => RequestOK(cur)'
    BY <1>6 DEF SettleCall, TerminateIf, TerminateWorker, Settled, Verdict
  <2>8. fromWorker' # <<>> => AnswerOK(Head(fromWorker))'
    BY <1>6 DEF SettleCall, TerminateIf, TerminateWorker, Settled, Verdict
  <2> QED
    BY <2>1, <2>2, <2>3, <2>4, <2>5, <2>6, <2>7, <2>8
<1>7. CASE Leave(c)
  <2>1. WorkerTypeOK'
    BY <1>7 DEF Leave
  <2>2. OneHolder'
    BY <1>7 DEF Leave
  <2>3. PendingOK'
    BY <1>7 DEF Leave
  <2>4. \A d \in Caller : ReservedFirst(d)' /\ (d \in called' => Owed(d)')
    BY <1>7 DEF Leave
  <2>5. OneUnderWay'
    BY <1>7 DEF Leave
  <2>6. toWorker' # <<>> => RequestOK(Head(toWorker))'
    BY <1>7 DEF Leave
  <2>7. wst' # "read" => RequestOK(cur)'
    BY <1>7 DEF Leave
  <2>8. fromWorker' # <<>> => AnswerOK(Head(fromWorker))'
    BY <1>7 DEF Leave
  <2> QED
    BY <2>1, <2>2, <2>3, <2>4, <2>5, <2>6, <2>7, <2>8
<1>8. CASE CancelWaiting(c)
  <2>1. WorkerTypeOK'
    BY <1>8 DEF CancelWaiting
  <2>2. OneHolder'
    BY <1>8 DEF CancelWaiting
  <2>3. PendingOK'
    BY <1>8 DEF CancelWaiting
  <2>4. \A d \in Caller : ReservedFirst(d)' /\ (d \in called' => Owed(d)')
    BY <1>8 DEF CancelWaiting
  <2>5. OneUnderWay'
    BY <1>8 DEF CancelWaiting
  <2>6. toWorker' # <<>> => RequestOK(Head(toWorker))'
    BY <1>8 DEF CancelWaiting
  <2>7. wst' # "read" => RequestOK(cur)'
    BY <1>8 DEF CancelWaiting
  <2>8. fromWorker' # <<>> => AnswerOK(Head(fromWorker))'
    BY <1>8 DEF CancelWaiting
  <2> QED
    BY <2>1, <2>2, <2>3, <2>4, <2>5, <2>6, <2>7, <2>8
<1> QED
  BY <1>1, <1>2, <1>3, <1>4, <1>5, <1>6, <1>7, <1>8

\* The answer that is read is the one awaited; a call the provider has seen is not released.
LEMMA ReadKeeps == ASSUME WorkerInv, NEW c \in Caller, ReadAnswer(c) PROVE WorkerInv'
<1> USE WorkerAssumption, UnderWay DEF WorkerInv, WorkerTypeOK, OneHolder, ReservedFirst,
            OneUnderWay, Empty, Owed, RequestOK, AnswerOK, PendingOK, Paid, FrameType,
            proxy, calls, money, pipes, worker
<1> DEFINE a == Head(fromWorker)
           v == IF a.type \in {"error_soft", "error_hard"} THEN RemoteFailure(c, a)
                ELSE IF a.type = Expected(c) THEN Accepted(c, a) ELSE Failed(c)
<1>1. phase[c] = "recv" /\ ~poisoned /\ holder = c
  BY DEF ReadAnswer
<1>2. a \in Answers /\ a.call \in Caller /\ fromWorker' = <<>> /\ toWorker' = <<>> /\ wst' = "read"
  BY DEF ReadAnswer
<1>3. a.call = c /\ a.to = FrameType(c)
  BY <1>1, <1>2 DEF ReadAnswer
<1>4. PICK w \in Validated(c, v) :
        /\ verdict' = [verdict EXCEPT ![c] = w]
        /\ phase' = [phase EXCEPT ![c] =
                        IF a.type = "prepared" /\ w = v THEN "reserve" ELSE "settle"]
        /\ created' = IF op[c] # "init" THEN created ELSE IF w = Plain THEN "yes" ELSE "failed"
        /\ TerminateIf(w = Failed(c))
  BY <1>3 DEF ReadAnswer
<1>5. w \in Verdict
  <2>1. v \in Verdict /\ Failed(c) \in Verdict
    BY <1>2, VerdictShape
  <2> QED
    BY <2>1 DEF Validated
<1>6. c \in called => w.money # "release"
  <2> SUFFICES ASSUME c \in called PROVE w.money # "release"
    OBVIOUS
  <2>1. res[c] = "reserved" /\ FrameType(c) \in Paid /\ a.started
    BY <1>1, <1>2, <1>3 DEF ReadAnswer
  <2>2. RemoteFailure(c, a).money = "charge"
    BY <2>1 DEF RemoteFailure
  <2>3. Failed(c).money = "charge"
    BY <2>1 DEF Failed, GiveUp
  <2>4. a.type = Expected(c) => Accepted(c, a).money = "settle"
    BY <2>1 DEF Accepted, GoOn, Expected
  <2> QED
    BY <2>2, <2>3, <2>4 DEF Validated
<1>7. a.type = "prepared" => op[c] = "analyze" /\ res[c] = "none" /\ v # Failed(c)
  <2> SUFFICES ASSUME a.type = "prepared"
               PROVE  op[c] = "analyze" /\ res[c] = "none" /\ v # Failed(c)
    OBVIOUS
  <2>1. op[c] = "analyze" /\ res[c] = "none"
    BY <1>1, <1>3 DEF ReadAnswer
  <2>2. v.poison = FALSE
    BY <2>1 DEF Expected, Accepted, Plain
  <2>3. Failed(c).poison = TRUE
    BY DEF Failed, GiveUp
  <2> QED
    BY <2>1, <2>2, <2>3
<1>8. w = Failed(c) => poisoned'
  BY <1>4 DEF TerminateIf, TerminateWorker
<1>9. w # Failed(c) => ~poisoned' /\ w = v
  BY <1>1, <1>4 DEF TerminateIf, TerminateWorker, Validated
<1> HIDE DEF a, v
<1>10. WorkerTypeOK'
  <2>1. poisoned' \in BOOLEAN /\ proc' \in {"up", "stopping", "gone"}
    BY <1>4, Terminates
  <2> QED
    BY <1>4, <1>5, <2>1 DEF ReadAnswer
<1>11. OneHolder'
  BY <1>1, <1>4, <1>7, <1>8, <1>9 DEF ReadAnswer
<1>12. PendingOK'
  BY <1>1, <1>2, <1>4, <1>7, <1>8, <1>9 DEF ReadAnswer, a
<1>13. \A d \in Caller : ReservedFirst(d)' /\ (d \in called' => Owed(d)')
  BY <1>1, <1>4, <1>6, <1>7 DEF ReadAnswer
<1>14. OneUnderWay'
  <2>1. toWorker' \in AtMostOne(Frames) /\ fromWorker' \in AtMostOne(Answers)
    BY <1>2 DEF AtMostOne
  <2> QED
    BY <1>1, <1>2, <1>4, <2>1 DEF ReadAnswer
<1> QED
  BY <1>2, <1>10, <1>11, <1>12, <1>13, <1>14

\* The steps of the worker, which goes on after the proxy has given it up.
LEMMA WorkerKeeps ==
  ASSUME WorkerInv,
         WorkerReads \/ CallProvider \/ WorkerReplies \/ WorkerEnds \/ UNCHANGED workerVars
  PROVE  WorkerInv'
<1> USE WorkerAssumption, UnderWay DEF WorkerInv, WorkerTypeOK, OneHolder, ReservedFirst,
            OneUnderWay, Empty, Owed, RequestOK, AnswerOK, PendingOK, Paid, FrameType,
            proxy, calls, money, pipes, worker
<1>1. CASE WorkerReads
  <2>1. WorkerTypeOK'
    BY <1>1, OneItem DEF WorkerReads
  <2>2. OneHolder'
    BY <1>1, OneItem DEF WorkerReads
  <2>3. PendingOK'
    BY <1>1, OneItem DEF WorkerReads
  <2>4. \A d \in Caller : ReservedFirst(d)' /\ (d \in called' => Owed(d)')
    BY <1>1, OneItem DEF WorkerReads
  <2>5. OneUnderWay'
    <3>1. toWorker' = <<>> /\ cur' \in Frames /\ wst' = "work" /\ fromWorker' = <<>>
      BY <1>1 DEF WorkerReads
    <3>2. toWorker' \in AtMostOne(Frames)
      BY <3>1 DEF AtMostOne
    <3> QED
      BY <1>1, <3>1, <3>2 DEF WorkerReads
  <2>6. toWorker' # <<>> => RequestOK(Head(toWorker))'
    BY <1>1, OneItem DEF WorkerReads
  <2>7. wst' # "read" => RequestOK(cur)'
    BY <1>1, OneItem DEF WorkerReads
  <2>8. fromWorker' # <<>> => AnswerOK(Head(fromWorker))'
    BY <1>1, OneItem DEF WorkerReads
  <2> QED
    BY <2>1, <2>2, <2>3, <2>4, <2>5, <2>6, <2>7, <2>8
<1>2. CASE CallProvider
  BY <1>2 DEF CallProvider, Frames
<1>3. CASE WorkerReplies
  <2>1. WorkerTypeOK'
    BY <1>3, AnswerShape, OneItem DEF WorkerReplies
  <2>2. OneHolder'
    BY <1>3, AnswerShape, OneItem DEF WorkerReplies
  <2>3. PendingOK'
    BY <1>3, AnswerShape, OneItem DEF WorkerReplies
  <2>4. \A d \in Caller : ReservedFirst(d)' /\ (d \in called' => Owed(d)')
    BY <1>3, AnswerShape, OneItem DEF WorkerReplies
  <2>5. OneUnderWay'
    <3>1. PICK a \in WorkerAnswers : fromWorker' = Append(fromWorker, a)
      BY <1>3 DEF WorkerReplies
    <3>2. a \in Answers
      BY <1>3, <3>1, AnswerShape DEF WorkerReplies
    <3>4. fromWorker = <<>>
      BY <1>3 DEF WorkerReplies
    <3>5. fromWorker' = <<a>> /\ fromWorker' # <<>>
      BY <3>1, <3>4, OneItem
    <3>3. fromWorker' \in AtMostOne(Answers)
      BY <3>2, <3>5 DEF AtMostOne
    <3> QED
      BY <1>3, <3>5, <3>3 DEF WorkerReplies
  <2>6. toWorker' # <<>> => RequestOK(Head(toWorker))'
    BY <1>3, AnswerShape, OneItem DEF WorkerReplies
  <2>7. wst' # "read" => RequestOK(cur)'
    BY <1>3, AnswerShape, OneItem DEF WorkerReplies
  <2>8. fromWorker' # <<>> => AnswerOK(Head(fromWorker))'
    BY <1>3, AnswerShape, OneItem DEF WorkerReplies
  <2> QED
    BY <2>1, <2>2, <2>3, <2>4, <2>5, <2>6, <2>7, <2>8
<1>4. CASE WorkerEnds
  BY <1>4 DEF WorkerEnds
<1>5. CASE UNCHANGED workerVars
  BY <1>5 DEF workerVars
<1> QED
  BY <1>1, <1>2, <1>3, <1>4, <1>5

\* The specification without its fairness, which safety does not need.
WorkerSafety == WorkerInit /\ [][WorkerNext]_workerVars

\* WorkerInv holds in every reachable state: lock, pipes, worker and ledger agree through
\* every timeout, cancelled caller, failed ledger and crash of the worker.
THEOREM WorkerInvariant == WorkerSafety => []WorkerInv
<1>1. WorkerInit => WorkerInv
  <2> SUFFICES ASSUME WorkerInit PROVE WorkerInv
    OBVIOUS
  <2>1. Plain \in Verdict
    BY DEF Plain, Verdict
  <2>2. poisoned \in BOOLEAN /\ ledgerFailed \in BOOLEAN /\ ~poisoned
    BY DEF WorkerInit
  <2>3. WorkerTypeOK
    BY <2>1, <2>2, WorkerAssumption DEF WorkerInit, WorkerTypeOK
  <2>4. toWorker \in AtMostOne(Frames) /\ fromWorker \in AtMostOne(Answers)
    BY DEF WorkerInit, AtMostOne
  <2> QED
    BY <2>2, <2>3, <2>4, WorkerAssumption DEF WorkerInit, WorkerInv, OneHolder, ReservedFirst,
       OneUnderWay, Empty, PendingOK
<1>2. WorkerInv /\ [WorkerNext]_workerVars => WorkerInv'
  BY ProxyKeeps, ReadKeeps, WorkerKeeps DEF WorkerNext, CallerStep
<1> QED
  BY <1>1, <1>2, PTL DEF WorkerSafety

\* The proxies charge what the provider may charge: a reservation goes back only if the
\* provider was never called for it and never will be.
THEOREM ProviderCallsArePaid == WorkerSpec => []NoFreeCall
<1>1. WorkerInv => NoFreeCall
  BY DEF WorkerInv, Owed, NoFreeCall, WorkerTypeOK
<1> QED
  BY <1>1, WorkerInvariant, PTL DEF WorkerSpec, WorkerSafety

\* A worker that is handed from one call to the next has nothing left over from the last.
THEOREM WorkerIsHandedOverClean == WorkerSpec => []CleanWhenFree
<1>1. WorkerInv => CleanWhenFree
  BY WorkerAssumption DEF WorkerInv, OneHolder, OneUnderWay, Empty, PendingOK, CleanWhenFree
<1> QED
  BY <1>1, WorkerInvariant, PTL DEF WorkerSpec, WorkerSafety

\* No call reads the answer to another call's request, and none the answer to analyze where
\* it waits for the answer to commit.
THEOREM AnswersMatchRequests == WorkerSpec => []AnswerIsMine
<1>1. WorkerInv => AnswerIsMine
  BY UnderWay, WorkerAssumption DEF WorkerInv, OneHolder, AnswerOK, AnswerIsMine
<1> QED
  BY <1>1, WorkerInvariant, PTL DEF WorkerSpec, WorkerSafety
============================================================================
