-------------------------- MODULE MCProactiveJobs --------------------------
(* An instance of ProactiveJobs for TLC: j1 recurs every two units, j2 is a *)
(* one-off job created after it, which exists only on the steady clock.     *)
EXTENDS ProactiveJobs

CONSTANTS j1, j2

Created == [j \in Job |-> IF j = j1 THEN 0 ELSE 1]
Every == [j \in Job |-> 2]

JobsNext == Next /\ (clock = "stepped" /\ j2 \in Job => status'[j2] = "absent")

\* The fairness of FairSpec.
JobsSpec == Init /\ [][JobsNext]_vars /\ WF_vars(RunOnce) /\ WF_vars(Start)
============================================================================
