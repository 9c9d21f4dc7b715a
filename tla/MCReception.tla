---------------------------- MODULE MCReception ----------------------------
(* Three ways to the WeChat client that share nothing, in one run: `part`   *)
(* says which of them a behaviour is about, and the others stand still.     *)
(*   "observer": the transcript read from the accessibility tree;           *)
(*   "probe":    the desktop probe on four layouts of the client's window;  *)
(*   "feed":     the metadata bridge, its listener and the whitelist.       *)
EXTENDS AtspiObserver, DesktopProbe, MessageFeed, TLC

CONSTANTS a, b, m1

VARIABLE part

\* The client's window: nodes of the accessibility tree by path.
Node(p, w) == [path |-> p, what |-> w]
Plain ==
  {Node(<<1, 1>>, "title"), Node(<<1, 2, 1>>, "input"), Node(<<1, 2, 2>>, "label"),
   Node(<<1, 2, 2>>, "activate")}
FocusOnly ==
  {Node(<<1, 1>>, "title"), Node(<<1, 2, 1>>, "input"), Node(<<1, 2, 2>>, "label"),
   Node(<<1, 2, 2, 1>>, "focus_only"), Node(<<2>>, "title")}
Opaque ==
  {Node(<<1, 1>>, "title"), Node(<<1, 3>>, "input"), Node(<<1, 4>>, "label"),
   Node(<<1, 5>>, "focus_only")}
TwoInputs == FocusOnly \cup {Node(<<1, 2, 3>>, "input")}
Windows == {Plain, FocusOnly, Opaque, TwoInputs}
LegibleWindows == Windows \ {Opaque}

\* The message tables before the first start: two old messages, with a gap between them.
Old == {(a :> {1, 3}) @@ (b :> {1, 3})}

receptionVars == <<observerVars, probeVars, feedVars, part>>

\* A part that stands still has one state.
ReceptionInit ==
  /\ part \in {"observer", "probe", "feed"}
  /\ ObserverInit /\ ProbeInit /\ FeedInit
  /\ part # "probe" => layout = Plain /\ chat = "testing" /\ draft = [c \in ChatTitle |-> ""]
  /\ part # "feed" => config = {a}

ReceptionNext ==
  \/ part = "observer" /\ ObserverNext /\ UNCHANGED <<probeVars, feedVars, part>>
  \/ part = "probe" /\ ProbeNext /\ UNCHANGED <<observerVars, feedVars, part>>
  \/ part = "feed" /\ FeedNext /\ UNCHANGED <<observerVars, probeVars, part>>

ReceptionSpec == ReceptionInit /\ [][ReceptionNext]_receptionVars
============================================================================
