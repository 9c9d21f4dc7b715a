--------------------------- MODULE AtspiObserver ---------------------------
(***************************************************************************)
(* The observe-only connector for the official Linux client: the sandboxed *)
(* worker that reads the transcript of an enrolled chat from the           *)
(* accessibility tree (supervisor/linux_atspi.py, connectors/              *)
(* atspi_worker.py), its proxy (connectors/atspi_worker_proxy.py) and the  *)
(* connector that aligns a snapshot with its saved cursor and turns what   *)
(* is new into events (connectors/wechat_atspi.py).                        *)
(*                                                                         *)
(* An item of the transcript is its fingerprint.  A snapshot is the        *)
(* positions it shows, so that the properties can tell two items of one    *)
(* fingerprint apart; the code sees the fingerprints alone.  A chain hash  *)
(* is the sequence of the fingerprints hashed into it.                     *)
(***************************************************************************)
EXTENDS Integers, Sequences, FiniteSets

CONSTANTS
  Inbound,      \* fingerprints of messages of the peer
  Self,         \* fingerprint of an own message
  Unproven,     \* fingerprint of a group message whose sender has no identity
  Visible,      \* how many items the transcript shows
  TailItems,    \* how many fingerprints the cursor keeps
  MaxItems,     \* bound: items of the transcript
  MaxSnapshots, \* bound: snapshots in the pipe
  MaxCrashes,   \* bound: how often the core stops
  MaxDisturbed  \* bound: how often the user scrolls or an item cannot be read

Fingerprint == Inbound \cup {Self, Unproven}

ASSUME ObserverAssumption ==
  /\ Visible \in Nat \ {0} /\ TailItems \in Nat \ {0}
  /\ MaxItems \in Nat /\ MaxSnapshots \in Nat /\ MaxCrashes \in Nat /\ MaxDisturbed \in Nat
  /\ Self \notin Inbound /\ Unproven \notin Inbound /\ Self # Unproven

VARIABLES
  transcript, top,      \* the chat, and the first item shown
  sandbox,              \* "none", "proxy", "worker", "ready" or "failed"
  pipe,                 \* snapshots on their way
  tail, chain, upto,    \* the cursor, and (history) the position it stands for
  work, at, hash,       \* the snapshot in hand, its next item and the chain so far
  paused,               \* _paused_reason is set
  events,               \* recorded events: id and (history) position
  baseline,             \* history: last position of the first snapshot with items
  disturbed,            \* how often the user scrolled or an item was not read
  partial,              \* history: an item was left out of a snapshot
  strayed,              \* history: an overlap was found elsewhere than where the cursor stands
  crashes

view == <<transcript, top>>
saved == <<tail, chain, upto>>
handling == <<work, at, hash>>
marks == <<disturbed, partial, strayed>>
observerVars ==
  <<view, sandbox, pipe, saved, handling, paused, events, baseline, marks, crashes>>

Smaller(m, n) == IF m < n THEN m ELSE n
Fingerprints(s) == [i \in 1 .. Len(s) |-> transcript[s[i]]]
Shown == [i \in 1 .. Smaller(Visible, Len(transcript) - top + 1) |-> top + i - 1]
Idle == work = <<>> /\ at = 0

---------------------------------------------------------------------------
(* The alignment: _align_tail.                                             *)

\* Where the last n of the saved fingerprints stand in the snapshot.
Matches(prev, cur, n) ==
  {i \in 0 .. Len(cur) - n :
     SubSeq(cur, i + 1, i + n) = SubSeq(prev, Len(prev) - n + 1, Len(prev))}

\* The number of the last item already known where the longest overlap that there is
\* is found once, nothing (None) elsewhere; without a cursor all is known.
Aligned(prev, cur) ==
  IF prev = <<>> THEN {Len(cur)}
  ELSE {k \in 1 .. Len(cur) :
          \E n \in 1 .. Smaller(k, Len(prev)) :
            /\ Matches(prev, cur, n) = {k - n}
            /\ \A m \in n + 1 .. Smaller(Len(prev), Len(cur)) : Matches(prev, cur, m) = {}}

---------------------------------------------------------------------------
(* The sandbox: proxy of the bus, worker behind it, handshake.             *)

StartProxy ==
  /\ sandbox = "none"
  /\ sandbox' = "proxy"
  /\ UNCHANGED <<view, pipe, saved, handling, paused, events, baseline, marks, crashes>>

StartWorker ==
  /\ sandbox = "proxy"
  /\ sandbox' = "worker"
  /\ UNCHANGED <<view, pipe, saved, handling, paused, events, baseline, marks, crashes>>

\* init and ready: the listeners are registered and the processes are the expected ones.
Handshake ==
  /\ sandbox = "worker"
  /\ sandbox' = "ready"
  /\ UNCHANGED <<view, pipe, saved, handling, paused, events, baseline, marks, crashes>>

\* A step of the start fails, or the worker does: what runs is stopped, the stream ends.
SandboxFails ==
  /\ sandbox \in {"proxy", "worker", "ready"}
  /\ sandbox' = "failed"
  /\ UNCHANGED <<view, pipe, saved, handling, paused, events, baseline, marks, crashes>>

---------------------------------------------------------------------------
(* The worker.                                                             *)

\* _target_snapshot of an enrolled chat whose header is shown.
TakeSnapshot ==
  /\ sandbox = "ready" /\ Len(pipe) < MaxSnapshots
  /\ pipe' = Append(pipe, Shown)
  /\ UNCHANGED <<view, sandbox, saved, handling, paused, events, baseline, marks, crashes>>

\* An item that is gone, has another structure or no text is left out.
TakePartial(i) ==
  /\ sandbox = "ready" /\ Len(pipe) < MaxSnapshots /\ i <= Len(Shown)
  /\ pipe' = Append(pipe, SubSeq(Shown, 1, i - 1) \o SubSeq(Shown, i + 1, Len(Shown)))
  /\ disturbed < MaxDisturbed /\ disturbed' = disturbed + 1 /\ partial' = TRUE
  /\ UNCHANGED <<view, sandbox, saved, handling, paused, events, baseline, strayed, crashes>>

---------------------------------------------------------------------------
(* The connector: events() and what the core does with an event.           *)

\* Not enrolled, not allowed, another kind of chat or another header.
RejectSnapshot ==
  /\ Idle /\ pipe # <<>>
  /\ pipe' = Tail(pipe) /\ paused' = TRUE
  /\ UNCHANGED <<view, sandbox, saved, handling, events, baseline, marks, crashes>>

\* The next snapshot: aligned, it is gone through item by item.
Align ==
  /\ Idle /\ pipe # <<>>
  /\ LET s == Head(pipe)
     IN \E k \in Aligned(tail, Fingerprints(s)) :
          /\ work' = s /\ at' = k + 1 /\ hash' = chain
          /\ baseline' = IF tail = <<>> /\ s # <<>> THEN s[Len(s)] ELSE baseline
          /\ strayed' = (strayed \/ (tail # <<>> /\ s[k] # upto))
  /\ pipe' = Tail(pipe)
  /\ UNCHANGED <<view, sandbox, saved, paused, events, disturbed, partial, crashes>>

\* The overlap is ambiguous, or there is none: the channel waits for another snapshot.
Misaligned ==
  /\ Idle /\ pipe # <<>>
  /\ Aligned(tail, Fingerprints(Head(pipe))) = {}
  /\ pipe' = Tail(pipe) /\ paused' = TRUE
  /\ UNCHANGED <<view, sandbox, saved, handling, events, baseline, marks, crashes>>

\* Mutant: the id is made of the message and its place in this snapshot.
EventIdLocal(h) == <<h[Len(h)], at>>

\* The id of an event: the chain up to and with its fingerprint.
EventId(h) == h

\* One item: hashed into the chain, and recorded unless it is an own message; an id that is
\* there is not recorded again.  A sender without identity ends the pass.
Emit ==
  /\ at \in 1 .. Len(work)
  /\ LET p == work[at]
         h == Append(hash, transcript[p])
     IN /\ CASE transcript[p] = Self ->
                  hash' = h /\ at' = at + 1 /\ UNCHANGED <<work, events, paused>>
             [] transcript[p] = Unproven ->
                  /\ work' = <<>> /\ at' = 0 /\ hash' = <<>>
                  /\ paused' = TRUE /\ UNCHANGED events
             [] OTHER ->
                  /\ hash' = h
                  /\ events' = IF \E e \in events : e.id = EventId(h) THEN events
                               ELSE events \cup {[id |-> EventId(h), pos |-> p]}
                  /\ at' = at + 1 /\ UNCHANGED <<work, paused>>
  /\ UNCHANGED <<view, sandbox, pipe, saved, baseline, marks, crashes>>

\* The last n of a sequence.
LastOf(s, n) == SubSeq(s, Len(s) - Smaller(n, Len(s)) + 1, Len(s))

\* _save: the pass is over; the end of what the snapshot showed is the new tail.
Save ==
  /\ ~Idle /\ at > Len(work)
  /\ tail' = LastOf(Fingerprints(work), TailItems) /\ chain' = hash
  /\ upto' = IF work = <<>> THEN upto ELSE work[Len(work)]
  /\ work' = <<>> /\ at' = 0 /\ hash' = <<>> /\ paused' = FALSE
  /\ UNCHANGED <<view, sandbox, pipe, events, baseline, marks, crashes>>

---------------------------------------------------------------------------
(* The desktop, and the end of the process.                                *)

\* A message; a view that shows the end follows it.
Arrives(x) ==
  /\ Len(transcript) < MaxItems
  /\ transcript' = Append(transcript, x)
  /\ top' = IF top + Visible - 1 = Len(transcript) THEN top + 1 ELSE top
  /\ UNCHANGED <<sandbox, pipe, saved, handling, paused, events, baseline, marks, crashes>>

\* The user turns the transcript anywhere, back to its end too.
Scroll(n) ==
  /\ n # top /\ n + Visible - 1 <= Len(transcript)
  /\ top' = n
  /\ disturbed < MaxDisturbed /\ disturbed' = disturbed + 1
  /\ UNCHANGED <<transcript, sandbox, pipe, saved, handling, paused, events, baseline, partial,
                 strayed, crashes>>

\* The core or the worker stops at any step; close() gives up the sandbox.
ObserverStops ==
  /\ sandbox # "none" /\ crashes < MaxCrashes
  /\ crashes' = crashes + 1 /\ sandbox' = "none"
  /\ pipe' = <<>> /\ work' = <<>> /\ at' = 0 /\ hash' = <<>> /\ paused' = FALSE
  /\ UNCHANGED <<view, saved, events, baseline, marks>>

---------------------------------------------------------------------------
ObserverInit ==
  /\ transcript = <<>> /\ top = 1 /\ sandbox = "none" /\ pipe = <<>>
  /\ tail = <<>> /\ chain = <<>> /\ upto = 0
  /\ work = <<>> /\ at = 0 /\ hash = <<>>
  /\ paused = FALSE /\ events = {} /\ baseline = 0 /\ disturbed = 0
  /\ partial = FALSE /\ strayed = FALSE /\ crashes = 0

ObserverNext ==
  \/ StartProxy \/ StartWorker \/ Handshake \/ SandboxFails
  \/ TakeSnapshot \/ \E i \in 1 .. Visible : TakePartial(i)
  \/ RejectSnapshot \/ Align \/ Misaligned \/ Emit \/ Save
  \/ \E x \in Fingerprint : Arrives(x)
  \/ \E n \in 1 .. MaxItems : Scroll(n)
  \/ ObserverStops

ObserverSpec == ObserverInit /\ [][ObserverNext]_observerVars

---------------------------------------------------------------------------
(* Properties.                                                             *)

\* What is recorded is exact, however the process stops between an event and its cursor,
\* wherever the view is and however often texts repeat, as long as the overlaps are found
\* where the cursor stands: no message has two ids, since the chain gives what is read again
\* its old one, and every message from the first snapshot on was recorded, under an id of its
\* own, before the cursor went past it.  Only a text that repeats can mislead the search.
RecordIsExact ==
  /\ strayed => \E i, j \in 1 .. Len(transcript) : i # j /\ transcript[i] = transcript[j]
  /\ ~partial /\ ~strayed =>
       /\ \A e, f \in events : e.pos = f.pos => e.id = f.id
       /\ \A p \in baseline + 1 .. upto :
            transcript[p] \in Inbound => \E e \in events : e.pos = p

---------------------------------------------------------------------------
(* The inductive invariant behind it.                                      *)

Positions == 1 .. Len(transcript)

ObserverTypeOK ==
  /\ transcript \in Seq(Fingerprint) /\ top \in Nat \ {0}
  /\ sandbox \in {"none", "proxy", "worker", "ready", "failed"}
  /\ pipe \in Seq(Seq(Positions))
  /\ tail \in Seq(Fingerprint) /\ chain \in Seq(Fingerprint) /\ upto \in 0 .. Len(transcript)
  /\ work \in Seq(Positions) /\ at \in 0 .. Len(work) + 1 /\ hash \in Seq(Fingerprint)
  /\ paused \in BOOLEAN /\ partial \in BOOLEAN /\ strayed \in BOOLEAN
  /\ events \subseteq [id : Seq(Fingerprint), pos : Positions]
  /\ baseline \in 0 .. Len(transcript) /\ disturbed \in Nat /\ crashes \in Nat

\* The texts after position i, up to position j.
Texts(i, j) == [n \in 1 .. j - i |-> transcript[i + n]]

\* Positions that follow one another.
IsRun(s) == \A i \in 1 .. Len(s) : s[i] = s[1] + i - 1

\* Every message up to position n has its event.
RecordedTo(n) ==
  \A p \in baseline + 1 .. n : transcript[p] \in Inbound => \E e \in events : e.pos = p

\* The tail ends with the text at the cursor; before a first tail there is nothing to record.
CursorInv ==
  /\ at = 0 => work = <<>>
  /\ tail # <<>> => upto > 0 /\ tail[Len(tail)] = transcript[upto]
  /\ tail # <<>> /\ at > 0 => at > 1
  /\ tail = <<>> /\ at > 0 => at = Len(work) + 1

\* Chain, ids and record all count from the baseline.
CountsFromBaseline ==
  /\ \A i \in 1 .. Len(pipe) : IsRun(pipe[i])
  /\ IsRun(work)
  /\ \A e \in events : baseline < e.pos /\ e.id = Texts(baseline, e.pos)
  /\ RecordedTo(upto)
  /\ tail = <<>> =>
       /\ events = {} /\ chain = <<>> /\ hash = <<>> /\ upto = 0
       /\ work # <<>> => baseline = work[Len(work)]
  /\ tail # <<>> => baseline <= upto /\ chain = Texts(baseline, upto)
  /\ tail # <<>> /\ at > 0 =>
       /\ baseline <= work[at - 1] /\ hash = Texts(baseline, work[at - 1])
       /\ RecordedTo(work[at - 1])

ObserverInv ==
  /\ ObserverTypeOK
  /\ CursorInv
  /\ strayed => \E i, j \in Positions : i # j /\ transcript[i] = transcript[j]
  /\ ~partial /\ ~strayed => CountsFromBaseline
=============================================================================
