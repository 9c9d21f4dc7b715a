-------------------------- MODULE MCAssistantData --------------------------
(* Three parts of the core that share nothing, in one run: `part` says      *)
(* which of them a behaviour is about, and the others stand still.          *)
(*   "tools":   a turn's tool calls and their approvals; `ask` is a tool    *)
(*              that needs approval, `act` one the policy lets through;     *)
(*   "memory":  the messages, records and contexts of two conversations;    *)
(*   "profile": two processes on the files of one profile.                  *)
EXTENDS ToolExecution, ConversationMemory, ProfileData, TLC

CONSTANTS Parts, ask, act, c1, c2, a1, a2, s1, s2

VARIABLE part

Kinds == (ask :> "approve") @@ (act :> "auto")

Symmetry == Permutations({s1, s2})

dataVars == <<toolVars, memoryVars, profileVars, part>>

DataInit == part \in Parts /\ ToolInit /\ MemoryInit /\ ProfileInit

DataNext ==
  \/ part = "tools" /\ ToolNext /\ UNCHANGED <<memoryVars, profileVars, part>>
  \/ part = "memory" /\ MemoryNext /\ UNCHANGED <<toolVars, profileVars, part>>
  \/ part = "profile" /\ ProfileNext /\ UNCHANGED <<toolVars, memoryVars, part>>

DataSpec == DataInit /\ [][DataNext]_dataVars
============================================================================
