---------------------------- MODULE MessageFeed ----------------------------
(***************************************************************************)
(* How messages reach the core in conversation mode, and which chats:      *)
(* the bridge in WeChat's container (scripts/agent_wechat_metadata.py with *)
(* agent_wechat_wal_snapshot.py), the listener and the read cycle of       *)
(* ConversationMultiplexer (connectors/wechat_agent_conversation.py), and  *)
(* the synchronisation of the whitelist at a start                         *)
(* (connectors/wechat_agent_whitelist.py).                                 *)
(*                                                                         *)
(* A message is its place in the order of the table (create_time, then     *)
(* local_id); one that comes late takes a place between older ones.  What  *)
(* the runtime does with events and with a pause is in AgentRuntime.       *)
(***************************************************************************)
EXTENDS Naturals, FiniteSets

CONSTANTS
  Chat,          \* conversations of the account
  Whitelists,    \* what the operator may write in the whitelist: sets of chats
  Places,        \* bound: places in a chat's table, 1 .. Places
  OldTables,     \* what the tables may hold at first
  Window,        \* rows a cycle reads of a table (1000)
  Anchors,       \* rows it keeps as anchors (100)
  MaxWrites,     \* bound: messages that arrive
  MaxBroken,     \* bound: rows event() refuses
  MaxFailures,   \* failures of the listener in a row (3)
  MaxRestarts,   \* bound: restarts of the bridge
  MaxStops       \* bound: stops of the service

Place == 1 .. Places

ASSUME FeedAssumption ==
  /\ Whitelists \subseteq SUBSET Chat
  /\ Places \in Nat
  /\ OldTables \subseteq [Chat -> SUBSET Place]
  /\ Window \in Nat \ {0} /\ Anchors \in Nat \ {0}

VARIABLES
  table, broken,             \* rows of each chat; rows event() refuses
  bridge, epoch, sequence,   \* "up", "blind" (the watch is lost) or "down"; ChangeNotifications
  dirty,                     \* an inotify event waits to be read
  config, configFile,        \* chat_ids of the bridge, and lemonbot-conversation.json
  listening, cursor,         \* _listen: running; its epoch and sequence
  failures, lost,            \* its failures in a row; _notification_error
  notified,                  \* _notifications is set
  phase, wanted,             \* start and life of the service; the targets it was given
  metaFile, bindingFile,     \* metadata-binding.json, conversation-binding.json
  failing, failingFile,      \* target_pauses, targets-paused.json
  halted,                    \* the channel is paused
  anchors, cycle,            \* child.anchors; the cycle in progress and its answer
  got, owed, twice,          \* history: events yielded; messages to yield; yielded again
  writes, restarts, stops

tables == <<table, broken>>
notices == <<bridge, epoch, sequence, dirty>>
binding == <<config, configFile>>
listener == <<listening, cursor, failures, lost>>
start == <<phase, wanted, metaFile, bindingFile>>
targets == <<failing, failingFile, halted>>
reading == <<anchors, cycle>>
history == <<got, owed, twice>>
bounds == <<writes, restarts, stops>>
feedVars ==
  <<tables, notices, binding, listener, notified, start, targets, reading, history, bounds>>

NoEpoch == 0
NoCycle == [step |-> "none", baseline |-> FALSE]

Newest(S, k) == {x \in S : Cardinality({y \in S : y > x}) < k}
\* History: the anchors that will tell what is new of a chat.
NextAnchors(c) ==
  IF cycle.step = "answered" /\ c \in cycle.refs \ cycle.errors THEN cycle.anchors[c]
  ELSE anchors[c]
IsRead == (phase = "serving" /\ ~halted) \/ cycle.step = "answered"
IsNewer(c, p) == NextAnchors(c) = {} \/ \E a \in NextAnchors(c) : a < p

---------------------------------------------------------------------------
(* WeChat and the bridge.                                                  *)

\* WeChat writes a message: a row, and an event of the watched directory; what comes before the
\* first read of a chat, or while it is paused, is one of the old ones.  History: it is owed
\* to a chat that is read if it is newer than some anchor, for anchors tell old from new.
Write(c, p, bad) ==
  /\ cycle # NoCycle \/ (phase = "serving" /\ ~halted)
  /\ p \notin table[c] /\ writes < MaxWrites /\ writes' = writes + 1
  /\ (bad => Cardinality(UNION {broken[d] : d \in Chat}) < MaxBroken)
  /\ table' = [table EXCEPT ![c] = @ \cup {p}]
  /\ broken' = IF bad THEN [broken EXCEPT ![c] = @ \cup {p}] ELSE broken
  /\ dirty' = (bridge = "up" \/ dirty)
  /\ owed' = IF IsRead /\ IsNewer(c, p) THEN [owed EXCEPT ![c] = @ \cup {p}] ELSE owed
  /\ UNCHANGED <<bridge, epoch, sequence, binding, listener, notified, start, targets, reading,
                 got, twice, restarts, stops>>

\* _watch: whatever has queued up is one step of the sequence; other files do not count.
Watch ==
  /\ bridge = "up" /\ dirty
  /\ dirty' = FALSE /\ sequence' = sequence + 1
  /\ UNCHANGED <<tables, bridge, epoch, binding, listener, notified, start, targets, reading,
                 history, bounds>>

\* The watched directory is replaced: the bridge says so until it is started again.
WatchLost ==
  /\ bridge = "up" /\ restarts < MaxRestarts
  /\ bridge' = "blind" /\ dirty' = FALSE
  /\ UNCHANGED <<tables, epoch, sequence, binding, listener, notified, start, targets, reading,
                 history, bounds>>

\* The bridge ends; requests under way fail, a watch that is gone tells nothing.
BridgeEnds ==
  /\ bridge # "down" /\ restarts < MaxRestarts
  /\ bridge' = "down" /\ dirty' = FALSE /\ restarts' = restarts + 1
  /\ UNCHANGED <<tables, epoch, sequence, binding, listener, notified, start, targets, reading,
                 history, writes, stops>>

\* main and ChangeNotifications.__init__: its own file says which chats it serves.
BridgeStarts ==
  /\ bridge = "down"
  /\ bridge' = "up" /\ epoch' = epoch + 1 /\ sequence' = 0
  /\ config' = configFile
  /\ UNCHANGED <<tables, dirty, configFile, listener, notified, start, targets, reading, history,
                 bounds>>

\* Mutant: a new binding is served at once and not written.
ConfigureInMemory(chats) == config' = chats /\ UNCHANGED configFile

\* configure_targets: verified, written, then served.
Configure(chats) == configFile' = chats /\ config' = chats

---------------------------------------------------------------------------
(* The listener.                                                           *)

\* wait: the bridge answers at once when the cursor is not its own, else at a change or at the
\* timeout, with its epoch and its sequence.
News == cursor # <<epoch, sequence>>

\* Mutant: a bridge that was started again is taken for one where nothing has changed.
HearSequence == notified' = (notified \/ sequence > cursor[2])

Hear == notified' = (notified \/ News)

\* An answer is heard; a change that overtakes it counts as one that comes after it.
Listen ==
  /\ listening /\ bridge = "up"
  /\ Hear
  /\ cursor' = <<epoch, sequence>> /\ failures' = 0
  /\ UNCHANGED <<tables, notices, binding, listening, lost, start, targets, reading, history,
                 bounds>>

\* No answer, or an error, from a bridge that is gone or blind; after so many in a row the
\* listener ends.  (An answer that got lost is asked for again.)
ListenFails ==
  /\ listening /\ bridge # "up"
  /\ failures' = failures + 1
  /\ IF failures + 1 >= MaxFailures
     THEN lost' = TRUE /\ notified' = TRUE /\ listening' = FALSE
     ELSE UNCHANGED <<lost, notified, listening>>
  /\ UNCHANGED <<tables, notices, binding, cursor, start, targets, reading, history, bounds>>

---------------------------------------------------------------------------
(* The read cycle.                                                         *)

Halt == halted' = TRUE /\ cycle' = NoCycle /\ owed' = [c \in Chat |-> {}]
Readable == wanted \ failing
Ask(refs, guarded, resumed) ==
  [step |-> "asked", baseline |-> phase # "serving" \/ resumed, refs |-> refs,
   guarded |-> guarded, resumed |-> resumed]

\* poll up to the request, at a notice or after a minute, which may have passed: the notice
\* is taken back before anything is read.
Poll ==
  /\ phase = "serving" /\ ~halted /\ cycle = NoCycle /\ ~lost
  /\ notified' = FALSE
  /\ cycle' = Ask(Readable, {}, FALSE)
  /\ UNCHANGED <<tables, notices, binding, listener, start, targets, anchors, history, bounds>>

PollLost ==
  /\ phase = "serving" /\ ~halted /\ cycle = NoCycle /\ lost
  /\ Halt
  /\ UNCHANGED <<tables, notices, binding, listener, notified, start, failing, failingFile, anchors,
                 got, twice, bounds>>

\* Mutant: what is new ends at the first row that is known.
SelectedToFirst(c) ==
  LET rows == Newest(table[c], Window)
  IN {p \in rows : \A a \in rows \cap anchors[c] : a < p}

\* read_cycle: the rows down to the oldest anchor in the window, without the anchors.
Selected(c) ==
  LET rows == Newest(table[c], Window)
      overlap == rows \cap anchors[c]
  IN {p \in rows \ anchors[c] : overlap = {} \/ \E a \in overlap : a < p}

AnchorLost(c) ==
  LET rows == Newest(table[c], Window)
  IN /\ rows \cap anchors[c] = {}
     /\ anchors[c] # {} \/ Cardinality(rows) >= Anchors

\* read_cycle on one snapshot of the database: per chat the new rows and the next anchors, or
\* an error.  A chat without messages may have no table yet.
Snapshot ==
  /\ cycle.step = "asked" /\ bridge # "down" /\ cycle.refs \subseteq config
  /\ \E missing \in SUBSET {c \in cycle.refs : table[c] = {}} :
       LET errors == missing \cup {c \in cycle.refs : ~cycle.baseline /\ AnchorLost(c)}
       IN cycle' =
            [step |-> "answered", baseline |-> cycle.baseline, refs |-> cycle.refs,
             guarded |-> cycle.guarded, resumed |-> cycle.resumed, errors |-> errors,
             rows |-> [c \in cycle.refs |->
                         IF cycle.baseline \/ c \in errors THEN {} ELSE Selected(c)],
             anchors |-> [c \in cycle.refs |-> Newest(table[c], Anchors)]]
  /\ owed' = IF cycle.baseline THEN [c \in Chat |-> {}] ELSE owed
  /\ UNCHANGED <<tables, notices, binding, listener, notified, start, targets, anchors, got, twice,
                 bounds>>

\* The request fails (a chat that is not bound, another account, a source that keeps changing,
\* no bridge), or its answer does: the channel is paused and no anchor has moved.
CycleFails ==
  /\ cycle.step \in {"asked", "answered"}
  /\ Halt
  /\ phase' = "serving"
  /\ UNCHANGED <<tables, notices, binding, listener, notified, wanted, metaFile, bindingFile,
                 failing, failingFile, anchors, got, twice, bounds>>

\* The rows of a chat are turned into events oldest first, up to one that is refused.
Yielded(c) == {p \in cycle.rows[c] : \A q \in cycle.rows[c] \cap broken[c] : p < q}
Refused == {c \in cycle.refs : cycle.rows[c] \cap broken[c] # {}} \cup cycle.errors

\* _cycle after the answer, and the rest of poll or baseline: a chat that is refused is paused
\* and keeps its anchors; anchors are moved at the end.
Apply ==
  /\ cycle.step = "answered"
  /\ failing' = failing \cup Refused
  /\ failingFile' = IF Refused # {} \/ cycle.baseline THEN failing' ELSE failingFile
  /\ anchors' = [c \in Chat |-> IF c \in cycle.refs \ Refused THEN cycle.anchors[c]
                                ELSE anchors[c]]
  /\ got' = [c \in Chat |-> IF c \in cycle.refs THEN got[c] \cup Yielded(c) ELSE got[c]]
  /\ twice' = (twice \/ \E c \in cycle.refs : Yielded(c) \cap got[c] # {})
  /\ owed' = [c \in Chat |-> IF c \in cycle.refs THEN owed[c] \ Yielded(c) ELSE owed[c]]
  /\ halted' = (failing' = wanted \/ (cycle.resumed /\ cycle.guarded # {}))
  /\ cycle' = NoCycle /\ phase' = "serving"
  /\ UNCHANGED <<tables, notices, binding, listener, notified, wanted, metaFile, bindingFile,
                 bounds>>

---------------------------------------------------------------------------
(* Start, baseline and resume.                                             *)

\* sync_whitelist: the names are resolved and verified before anything is changed.
Start(w) ==
  /\ phase = "down"
  /\ phase' = "sync" /\ wanted' = w
  /\ UNCHANGED <<tables, notices, binding, listener, notified, metaFile, bindingFile, targets,
                 reading, history, bounds>>

\* The bridge takes the new binding; its answer may get lost, which fails the start.
Bind ==
  /\ phase = "sync" /\ bridge # "down"
  /\ Configure(wanted)
  /\ phase' \in {"bound", "down"}
  /\ UNCHANGED <<tables, notices, listener, notified, wanted, metaFile, bindingFile, targets,
                 reading, history, bounds>>

\* Three files, each replaced as a whole, in this order.
WriteMeta ==
  /\ phase = "bound"
  /\ metaFile' = wanted /\ phase' = "meta"
  /\ UNCHANGED <<tables, notices, binding, listener, notified, wanted, bindingFile, targets,
                 reading, history, bounds>>

WriteBinding ==
  /\ phase = "meta"
  /\ bindingFile' = wanted /\ phase' = "written"
  /\ UNCHANGED <<tables, notices, binding, listener, notified, wanted, metaFile, targets, reading,
                 history, bounds>>

\* Only pauses of wanted chats stay.
PausesLeft == failingFile \cap wanted

\* The last file, and the connector that reads it: it refuses a pause of a chat it has not.
Build ==
  /\ phase = "written"
  /\ failingFile' = PausesLeft /\ failing' = PausesLeft
  /\ phase' = IF PausesLeft \subseteq wanted THEN "built" ELSE "down"
  /\ UNCHANGED <<tables, notices, binding, listener, notified, wanted, metaFile, bindingFile,
                 halted, reading, history, bounds>>

\* A channel that was paused stays so until it is resumed.
ServePaused ==
  /\ phase = "built" /\ halted
  /\ phase' = "serving"
  /\ UNCHANGED <<tables, notices, binding, listener, notified, wanted, metaFile, bindingFile,
                 targets, reading, history, bounds>>

\* baseline up to the request, at a start or a resume: a listener that has ended is started
\* again, a resume forgets the pauses of the chats, and each chat is verified.
Baseline(guarded) ==
  LET resumed == phase = "serving"
      left == IF resumed THEN {} ELSE failing
      refs == wanted \ (left \cup guarded)
  IN /\ phase \in {"built", "serving"} /\ halted = resumed /\ cycle = NoCycle
     /\ guarded \subseteq wanted \ left
     /\ IF listening THEN UNCHANGED listener
        ELSE listening' = TRUE /\ cursor' = <<NoEpoch, 0>>
             /\ failures' = 0 /\ lost' = FALSE
     /\ failing' = left \cup guarded
     /\ failingFile' = IF guarded # {} THEN failing' ELSE failingFile
     /\ halted' = (refs = {})
     /\ cycle' = IF refs = {} THEN NoCycle ELSE Ask(refs, guarded, resumed)
     /\ phase' = IF refs = {} THEN "serving" ELSE phase
     /\ UNCHANGED <<tables, notices, binding, notified, wanted, metaFile, bindingFile, anchors,
                    history, bounds>>

\* The service stops at any point; what is in memory is gone.
Stop ==
  /\ phase # "down" /\ stops < MaxStops
  /\ stops' = stops + 1 /\ phase' = "down"
  /\ listening' = FALSE /\ cursor' = <<NoEpoch, 0>>
  /\ failures' = 0 /\ lost' = FALSE
  /\ notified' = FALSE
  /\ cycle' = NoCycle /\ anchors' = [c \in Chat |-> {}]
  /\ failing' = {} /\ owed' = [c \in Chat |-> {}]
  /\ UNCHANGED <<tables, notices, binding, wanted, metaFile, bindingFile, failingFile, halted,
                 got, twice, writes, restarts>>

---------------------------------------------------------------------------
FeedInit ==
  /\ table \in OldTables /\ broken = [c \in Chat |-> {}]
  /\ bridge = "up" /\ epoch = 1 /\ sequence = 0 /\ dirty = FALSE
  /\ config \in Whitelists /\ configFile = config
  /\ listening = FALSE /\ cursor = <<NoEpoch, 0>>
  /\ failures = 0 /\ lost = FALSE /\ notified = FALSE
  /\ phase = "down" /\ wanted = config /\ metaFile = config /\ bindingFile = config
  /\ failing = {} /\ failingFile = {} /\ halted = FALSE
  /\ anchors = [c \in Chat |-> {}] /\ cycle = NoCycle
  /\ got = [c \in Chat |-> {}] /\ owed = [c \in Chat |-> {}] /\ twice = FALSE
  /\ writes = 0 /\ restarts = 0 /\ stops = 0

FeedNext ==
  \/ \E c \in Chat, p \in Place, bad \in BOOLEAN : Write(c, p, bad)
  \/ Watch \/ WatchLost \/ BridgeEnds \/ BridgeStarts
  \/ Listen \/ ListenFails
  \/ Poll \/ PollLost \/ Snapshot \/ CycleFails \/ Apply
  \/ \E w \in Whitelists : Start(w)
  \/ Bind \/ WriteMeta \/ WriteBinding \/ Build \/ ServePaused
  \/ \E guarded \in SUBSET Chat : Baseline(guarded)
  \/ Stop

FeedSpec == FeedInit /\ [][FeedNext]_feedVars

---------------------------------------------------------------------------
(* Properties.                                                             *)

\* Chats that are being read, and messages of them that are still to be yielded.
Served ==
  IF phase # "serving" \/ halted \/ cycle.baseline THEN {}
  ELSE IF cycle.step = "answered" THEN Readable \ cycle.errors ELSE Readable
Waiting(c) ==
  IF cycle.step = "answered" /\ c \in cycle.refs THEN owed[c] \ cycle.rows[c]
  ELSE owed[c]

\* No wakeup is lost: as long as a read would yield what waits and none is under way, a
\* notice is set or on its way to the listener, through lost watches, a bridge that was
\* started again, bursts that become one notice and notices that come during a read.  (The
\* read of every minute is a second net, not the first.)
NoLostWakeup ==
  \A c \in Served :
    (\E p \in Waiting(c) \ NextAnchors(c) : IsNewer(c, p)) /\ cycle.step # "asked" =>
      \/ notified \/ lost \/ dirty \/ bridge # "up"
      \/ cursor # <<epoch, sequence>>

\* No message is passed over and none is read twice: what waits is still told from what is
\* known by the anchors, unless it came late into a table larger than the window.
FeedIsExact ==
  /\ ~twice
  /\ \A c \in Served : \A p \in Waiting(c) :
       \/ p \notin NextAnchors(c) /\ IsNewer(c, p)
       \/ Cardinality(table[c]) > Window /\ \E a \in NextAnchors(c) : p < a

\* A service that reads does so for the chats of the last whitelist it was started with, and
\* the bridge serves the same ones, also after a restart of its own; a start is never refused
\* for what an earlier one that stopped half way has left.
ServedIsBound ==
  /\ phase \in {"built", "serving"} =>
       /\ bindingFile = wanted /\ metaFile = wanted /\ configFile = wanted
       /\ bridge # "down" => config = wanted
  /\ phase = "written" => PausesLeft \subseteq wanted

---------------------------------------------------------------------------
(* The inductive invariant of the proofs.                                  *)

\* Bridge, listener, service and cycle keep their shape.
FeedTypeOK ==
  /\ table \in [Chat -> SUBSET Place] /\ broken \in [Chat -> SUBSET Place]
  /\ bridge \in {"up", "blind", "down"} /\ dirty \in BOOLEAN
  /\ epoch \in Nat \ {0} /\ sequence \in Nat
  /\ config \subseteq Chat /\ configFile \subseteq Chat
  /\ listening \in BOOLEAN /\ cursor \in Nat \X Nat
  /\ failures \in Nat /\ lost \in BOOLEAN /\ notified \in BOOLEAN
  /\ phase \in {"down", "sync", "bound", "meta", "written", "built", "serving"}
  /\ wanted \subseteq Chat /\ metaFile \subseteq Chat /\ bindingFile \subseteq Chat
  /\ failing \subseteq Chat /\ failingFile \subseteq Chat /\ halted \in BOOLEAN
  /\ anchors \in [Chat -> SUBSET Place]
  /\ cycle.step \in {"none", "asked", "answered"} /\ cycle.baseline \in BOOLEAN
  /\ got \in [Chat -> SUBSET Place] /\ owed \in [Chat -> SUBSET Place] /\ twice \in BOOLEAN
  /\ writes \in Nat /\ restarts \in Nat /\ stops \in Nat

\* The files follow the whitelist in the order in which they are written.
StartFollows ==
  /\ phase \in {"bound", "meta", "written", "built", "serving"} =>
       configFile = wanted /\ (bridge # "down" => config = wanted)
  /\ phase \in {"meta", "written", "built", "serving"} => metaFile = wanted
  /\ phase \in {"written", "built", "serving"} => bindingFile = wanted

\* A cycle asks for the wanted chats that are not paused; the first one is a baseline.
CycleFollows ==
  /\ cycle.step = "none" => cycle = NoCycle
  /\ cycle.step # "none" =>
       /\ ~halted /\ cycle.refs = wanted \ failing
       /\ phase = "serving" \/ (phase = "built" /\ cycle.baseline)

\* The listener is behind the bridge, not ahead of it.
CursorFollows ==
  cursor[1] <= epoch /\ (cursor[1] = epoch => cursor[2] <= sequence)

\* Whatever is known of a table is in it; an answer holds rows that were not yielded yet.
TablesHold ==
  /\ \A c \in Chat : anchors[c] \cup got[c] \cup owed[c] \subseteq table[c]
  /\ cycle.step = "answered" =>
       /\ cycle.errors \subseteq cycle.refs
       /\ \A c \in cycle.refs :
            cycle.rows[c] \subseteq table[c] \ got[c] /\ cycle.anchors[c] \subseteq table[c]

\* The chats whose anchors tell old from new.
Live ==
  IF cycle.step = "answered" THEN cycle.refs \ cycle.errors
  ELSE IF phase = "serving" /\ ~halted /\ ~cycle.baseline THEN Readable
  ELSE {}

\* What was yielded, or is about to be, is never taken for new.
KnownStaysKnown ==
  \A c \in Live :
    \A p \in got[c] \cup (IF cycle.step = "answered" THEN cycle.rows[c] ELSE {}) :
      p \in NextAnchors(c) \/ ~IsNewer(c, p)

\* What waits is told from what is known, or came late into a table larger than the window.
WaitingIsTold ==
  \A c \in Live : \A p \in Waiting(c) :
    \/ p \notin NextAnchors(c) /\ IsNewer(c, p)
    \/ Cardinality(table[c]) > Window /\ \E a \in NextAnchors(c) : p < a

Alarm ==
  \/ notified \/ lost \/ dirty \/ bridge # "up"
  \/ cursor # <<epoch, sequence>>

WaitingAlarms ==
  \A c \in Live :
    (\E p \in Waiting(c) \ NextAnchors(c) : IsNewer(c, p)) /\ cycle.step # "asked" => Alarm

FeedInv ==
  /\ FeedTypeOK /\ StartFollows /\ CycleFollows /\ CursorFollows /\ TablesHold
  /\ KnownStaysKnown /\ WaitingIsTold /\ WaitingAlarms /\ ~twice
============================================================================
