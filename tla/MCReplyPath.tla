---------------------------- MODULE MCReplyPath ----------------------------
(* Progress of the reply path, as two instances of one run: `part` says     *)
(* which of them a behaviour is about, and the other one stands still.      *)
(*   "pipeline": one event through the inbox, the model turns and the       *)
(*               outbox;                                                    *)
(*   "worker":   the isolated worker process that a turn waits for, behind  *)
(*               its proxy.                                                 *)
EXTENDS EventPipeline, WorkerRpc

CONSTANTS e1, c1

VARIABLE part

SameChat == [e \in Event |-> c1]
InOrder == [e \in Event |-> 1]

pathVars == <<vars, workerVars, part>>

PathInit ==
  /\ part \in {"pipeline", "worker"}
  /\ Init
  /\ WorkerInit /\ (part # "worker" => kind = "model")

PipelineStep(A) == part = "pipeline" /\ A /\ UNCHANGED <<workerVars, part>>

WorkerStep(A) == part = "worker" /\ A /\ UNCHANGED <<vars, part>>

PathNext == PipelineStep(Next) \/ WorkerStep(WorkerNext)

\* The fairness of FairSpec and of WorkerSpec.
PathSpec ==
  /\ PathInit /\ [][PathNext]_pathVars
  /\ WF_vars(PipelineStep(RecordInbound)) /\ WF_vars(PipelineStep(Startup))
  /\ \A p \in Processor : WF_vars(PipelineStep(Process(p)))
  /\ \A d \in Dispatcher : WF_vars(PipelineStep(Dispatch(d)))
  /\ \A m \in Event :
       WF_vars(PipelineStep(RetryDue(m))) /\ WF_vars(PipelineStep(WindowPasses(m)))
  /\ \A c \in Caller : WF_workerVars(WorkerStep(CallerStep(c)))
  /\ WF_workerVars(WorkerStep(poisoned /\ WorkerEnds))
============================================================================
