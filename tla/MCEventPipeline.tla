-------------------------- MODULE MCEventPipeline --------------------------
(* Instances of EventPipeline for TLC: e1 and e2 share a chat and e2, which *)
(* happened later, may arrive first.                                       *)
EXTENDS EventPipeline, TLC

CONSTANTS e1, e2, c1

TwoEvents == {e1, e2}

SameChat == [e \in Event |-> c1]

InOrder == [e \in Event |-> IF e = e1 THEN 1 ELSE 2]

\* Nothing tells the callers of process_once apart.
Symmetry == Permutations(Processor)
============================================================================
