--------------------------- MODULE ReplyDelivery ---------------------------
(***************************************************************************)
(* What the outbox promises about one reply, with no tables, workers or    *)
(* crashes: it is queued once, committed at most once, asked of WeChat at  *)
(* most once and only while committed, called delivered by the program     *)
(* only if WeChat shows it, and in every doubtful case left to a human.    *)
(***************************************************************************)
EXTENDS Naturals

CONSTANT Message

VARIABLES
  fate,    \* what the program believes of each message
  asked,   \* send requests issued per message
  shown    \* messages WeChat shows

vars == <<fate, asked, shown>>

Fate == {"none", "queued", "committed", "delivered", "unknown", "dropped"}

Init ==
  /\ fate = [m \in Message |-> "none"]
  /\ asked = [m \in Message |-> 0]
  /\ shown = {}

Move(m, from, to) ==
  /\ fate[m] = from
  /\ fate' = [fate EXCEPT ![m] = to]
  /\ UNCHANGED <<asked, shown>>

\* Only a committed message is asked for, and only once.
Ask(m) ==
  /\ fate[m] = "committed" /\ asked[m] = 0
  /\ asked' = [asked EXCEPT ![m] = 1]
  /\ UNCHANGED <<fate, shown>>

Show(m) ==
  /\ asked[m] = 1
  /\ shown' = shown \cup {m}
  /\ UNCHANGED <<fate, asked>>

\* A stop of the process may leave several messages in doubt at once.
Interrupt ==
  /\ fate' = [m \in Message |-> IF fate[m] = "committed" THEN "unknown" ELSE fate[m]]
  /\ UNCHANGED <<asked, shown>>

Step(m) ==
  \/ Move(m, "none", "queued")
  \/ Move(m, "queued", "dropped")
  \/ Move(m, "queued", "committed")
  \/ Ask(m)
  \/ Show(m)
  \/ m \in shown /\ Move(m, "committed", "delivered")
  \/ Move(m, "committed", "unknown")
  \/ asked[m] = 0 /\ Move(m, "committed", "dropped")
  \/ Move(m, "unknown", "delivered")
  \/ Move(m, "unknown", "dropped")

Next == Interrupt \/ \E m \in Message : Step(m)

Spec == Init /\ [][Next]_vars
============================================================================
