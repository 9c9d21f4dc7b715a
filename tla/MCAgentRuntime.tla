--------------------------- MODULE MCAgentRuntime ---------------------------
(* AgentRuntime on small instances. *)
EXTENDS AgentRuntime, TLC

CONSTANTS t1, t2

EveryRequest == {"pause", "resume"} \X {"channel", "global"}
PauseRequest == {<<"pause", "channel">>}

\* Nothing tells the conversations apart.
Symmetry == Permutations(Target)
============================================================================
