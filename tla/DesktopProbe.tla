---------------------------- MODULE DesktopProbe ----------------------------
(***************************************************************************)
(* The standalone probe of the official Linux client's window              *)
(* (connectors/linux_atspi_probe.py): one process, one mode, run while the *)
(* user may type, open another chat or change the window.  The modes that  *)
(* look, the modes that move the focus, and the three that press the send  *)
(* control once in the chat titled "testing".                              *)
(*                                                                         *)
(* A layout is the set of nodes shown, each with its path in the           *)
(* accessibility tree and what it is: the title, an editable text, a send  *)
(* label, or a control with one action.  A node that is two things is two  *)
(* records of one path.  The hash of a surface is the surface.             *)
(***************************************************************************)
EXTENDS Naturals, Sequences, FiniteSets

CONSTANTS
  Layouts,     \* layouts of the window: sets of [path, what]
  Legible,     \* the layouts whose editor exposes its text, not a placeholder
  MaxUser,     \* bound: what the user does while the probe runs
  MaxFlags     \* bound: flags on the command line

Mode == {"semantic", "surface", "focus", "input_focus", "canary", "existing", "submit",
         "draft_state"}
Option == {"precommit", "operator_empty", "focus_input", "space", "alt_s"}
Diagnostic == {"semantic", "surface", "focus", "input_focus", "draft_state", "precommit"}
CommandLines == {f \in SUBSET (Mode \cup Option) : Cardinality(f) <= MaxFlags}
ChatTitle == {"testing", "other"}

ASSUME ProbeAssumption == MaxFlags \in Nat

VARIABLES
  layout, chat, draft, sent,   \* the client: window, open chat, drafts, messages sent
  posts,                       \* canaries of an enrolment that are shown
  alt,                         \* the Alt modifier is locked
  flags, pc, surface,          \* command line, next step, the surface first found
  canary, wrote, confirmed,    \* the text, whether the setter returned, how it is known
  commits, report,             \* send attempts, and what is printed
  since, used                  \* history: what the user did since the last proof; how much in all

clientVars == <<layout, chat, draft, sent, posts, alt>>
runVars == <<surface, canary, wrote, confirmed>>
probeVars == <<clientVars, runVars, flags, pc, commits, report, since, used>>

---------------------------------------------------------------------------
(* The surface: _testing_action_surface.                                   *)

Lesser(m, n) == IF m < n THEN m ELSE n
CommonPrefix(p, q) ==
  Cardinality({n \in 1 .. Lesser(Len(p), Len(q)) : SubSeq(p, 1, n) = SubSeq(q, 1, n)})
PathDistance(p, q) == Len(p) + Len(q) - 2 * CommonPrefix(p, q)
Of(l, what) == {n \in l : n.what \in what}

\* The controls named by a send label: the single closest one, at most two edges away.
Controls(l, k) ==
  LET near == {a \in Of(l, {"activate", "focus_only", "unknown"}) :
                 PathDistance(k.path, a.path) <= 2}
  IN {a \in near : \A b \in near : PathDistance(k.path, a.path) <= PathDistance(k.path, b.path)}
Sends(l) ==
  UNION {Controls(l, k) : k \in {j \in Of(l, {"label"}) : Cardinality(Controls(l, j)) = 1}}

\* The closest pairs of input and send control.
Pairs(l) == {[input |-> i.path, send |-> s.path, kind |-> s.what] :
               i \in Of(l, {"input"}), s \in Sends(l)}
ClosestPairs(l) ==
  {p \in Pairs(l) :
     \A q \in Pairs(l) : PathDistance(p.input, p.send) <= PathDistance(q.input, q.send)}

\* The titles outside an input, and those of them that are closest to it.
TitlesOf(l, input) ==
  {t \in Of(l, {"title"}) : SubSeq(t.path, 1, Lesser(Len(t.path), Len(input))) # input}
ClosestTitles(l, input) ==
  {t \in TitlesOf(l, input) :
     \A u \in TitlesOf(l, input) : CommonPrefix(u.path, input) <= CommonPrefix(t.path, input)}

\* The candidate of a layout: the one closest pair of input and send control, with the one
\* title closest to the input.  The empty set if there is none.
Candidate ==
  [l \in Layouts |->
    {[title |-> t.path, input |-> p.input, send |-> p.send, kind |-> p.kind] :
       p \in {q \in ClosestPairs(l) : /\ Cardinality(ClosestPairs(l)) = 1
                                      /\ Cardinality(ClosestTitles(l, q.input)) = 1},
       t \in UNION {ClosestTitles(l, q.input) : q \in ClosestPairs(l)}}]

\* A title is one only while it says "testing".
Surface == IF chat = "testing" THEN Candidate[layout] ELSE {}

\* What is seen of a node found earlier.
TitleProven(s) == chat = "testing" /\ [path |-> s.title, what |-> "title"] \in layout
InputShown(s) == [path |-> s.input, what |-> "input"] \in layout
SendShown(s) == [path |-> s.send, what |-> s.kind] \in layout

---------------------------------------------------------------------------
(* The draft: what is read of it, and the setter.                          *)

Exposed == IF layout \in Legible THEN draft[chat] ELSE "placeholder"
KnownDraftEquals(v) == Exposed = v
GeneratedCanary == Exposed \in {"old", "new"}
DraftIsEmpty == Exposed = ""

\* set_text_contents writes, or does not, and says whether it did; it may write and fail.
Set(s, v, ok) ==
  \/ InputShown(s) /\ draft' = [draft EXCEPT ![chat] = v]
  \/ ~ok /\ UNCHANGED draft

---------------------------------------------------------------------------
(* The command line: main and _validate_probe_mode.                        *)

\* One mode, and only with the options that belong to it.
ValidMode(f) ==
  /\ Cardinality(f \cap Mode) <= 1
  /\ f \cap {"precommit", "operator_empty"} # {} => "canary" \in f
  /\ f \cap {"focus_input", "space", "alt_s"} # {} => "submit" \in f
  /\ ~({"space", "alt_s"} \subseteq f)

\* The first branch of main that applies; without a flag the tree is counted.
SelectedMode(f) ==
  LET order == <<"draft_state", "submit", "existing", "canary", "surface", "focus",
                 "input_focus", "semantic">>
      hits == {i \in 1 .. Len(order) : order[i] \in f}
  IN IF hits = {} THEN "structure"
     ELSE order[CHOOSE i \in hits : \A j \in hits : i <= j]

\* Every step up to the commit ends a proof's window; the draft is not read at the focus.
Stepped ==
  /\ since' = CASE pc \in {"ready", "key"} -> since
               [] pc \in {"focus", "focused"} -> since \cap {"text"}
               [] OTHER -> {}
  /\ UNCHANGED <<used, flags, layout, chat, posts>>

StartProbe(f) ==
  /\ pc = "idle"
  /\ flags' = f
  /\ IF ValidMode(f) THEN pc' = "scan" /\ UNCHANGED report
     ELSE pc' = "done" /\ report' = "error"
  /\ since' = {}
  /\ UNCHANGED <<clientVars, runVars, commits, used>>

\* An exception before anything was written.
Raises(pre) ==
  /\ pc \in pre
  /\ pc' = "done" /\ report' = "error" /\ Stepped
  /\ UNCHANGED <<draft, sent, alt, runVars, commits>>

---------------------------------------------------------------------------
(* The modes that only look.                                               *)

\* probe: the tree is counted and hashed, up to its bounds.
Inspect ==
  /\ pc = "scan" /\ SelectedMode(flags) = "structure"
  /\ pc' = "done" /\ report' = "counted" /\ Stepped
  /\ UNCHANGED <<draft, sent, alt, runVars, commits>>

SurfaceReport ==
  /\ pc = "scan" /\ SelectedMode(flags) = "surface"
  /\ pc' = "done" /\ report' = IF Surface # {} THEN "passed" ELSE "failed"
  /\ Stepped /\ UNCHANGED <<draft, sent, alt, runVars, commits>>

DraftState ==
  /\ pc = "scan" /\ SelectedMode(flags) = "draft_state" /\ Surface # {}
  /\ pc' = "done" /\ Stepped
  /\ report' = IF DraftIsEmpty THEN "empty"
               ELSE IF GeneratedCanary THEN "canary" ELSE "unclassified"
  /\ UNCHANGED <<draft, sent, alt, runVars, commits>>

\* _canary_matches: each direction's canary is found in one item.
CanariesMatched == \A k \in {"self", "peer"} : posts[k] = 1

\* One header with the title of the chat is closest to the list.
HeaderProven == Cardinality(Of(layout, {"title"})) = 1

\* semantic_probe: polls until every canary is shown once, or the time is over; enrolled if
\* the two directions are told apart by their structure (for a group, with one identity of
\* the sender).
SemanticReport(distinct) ==
  /\ pc = "scan" /\ SelectedMode(flags) = "semantic"
  /\ pc' = "done" /\ Stepped
  /\ report' = IF CanariesMatched /\ distinct /\ HeaderProven THEN "passed" ELSE "failed"
  /\ UNCHANGED <<draft, sent, alt, runVars, commits>>

---------------------------------------------------------------------------
(* The modes that act.                                                     *)

\* The surface of a mode that acts; a mode that moves the focus wants a focus-only control.
Scan(s) ==
  /\ pc = "scan" /\ s \in Surface
  /\ SelectedMode(flags) \in {"focus", "input_focus", "canary", "existing", "submit"}
  /\ SelectedMode(flags) \in {"focus", "submit"} => s.kind = "focus_only"
  /\ SelectedMode(flags) \in {"canary", "existing"} => s.kind \in {"activate", "focus_only"}
  /\ surface' = s /\ Stepped
  /\ pc' = IF SelectedMode(flags) \in {"canary", "existing"} THEN "prepare" ELSE "focus"
  /\ UNCHANGED <<draft, sent, alt, canary, wrote, confirmed, commits, report>>

\* The draft is to be empty, or said to be, or a canary of an earlier run.
Prepare ==
  /\ pc = "prepare"
  /\ TitleProven(surface) /\ InputShown(surface) /\ SendShown(surface)
  /\ \/ /\ SelectedMode(flags) = "existing" /\ GeneratedCanary
        /\ canary' = Exposed /\ confirmed' = "exact" /\ pc' = "revalidate"
     \/ /\ SelectedMode(flags) = "canary" /\ (DraftIsEmpty \/ "operator_empty" \in flags)
        /\ canary' = "new" /\ UNCHANGED confirmed /\ pc' = "write"
  /\ wrote' = (SelectedMode(flags) = "existing")
  /\ Stepped /\ UNCHANGED <<draft, sent, alt, surface, commits, report>>

\* The setter, and how its effect is known.
WriteDraft(ok) ==
  /\ pc = "write"
  /\ Set(surface, canary, ok) /\ wrote' = ok
  /\ pc' = "confirm" /\ Stepped
  /\ UNCHANGED <<sent, alt, surface, canary, confirmed, commits, report>>

Confirm ==
  /\ pc = "confirm"
  /\ confirmed' = IF KnownDraftEquals(canary) THEN "exact"
                  ELSE IF "operator_empty" \in flags /\ wrote THEN "operator" ELSE "no"
  /\ pc' = IF wrote /\ confirmed' # "no" THEN "revalidate" ELSE "cleanup"
  /\ Stepped /\ UNCHANGED <<draft, sent, alt, surface, canary, wrote, commits, report>>

\* Mutant: the draft is not read again.
RevalidateSurfaceOnly ==
  /\ pc = "revalidate"
  /\ pc' = IF surface \in Surface
           THEN IF surface.kind = "focus_only" THEN "focus" ELSE "ready"
           ELSE "cleanup"
  /\ Stepped /\ UNCHANGED <<draft, sent, alt, runVars, commits, report>>

\* The same surface, title and draft as before; anything else gives up.
Revalidate ==
  /\ pc = "revalidate"
  /\ pc' = IF /\ surface \in Surface /\ TitleProven(surface)
              /\ confirmed = "exact" => KnownDraftEquals(canary)
           THEN IF surface.kind = "focus_only" THEN "focus" ELSE "ready"
           ELSE "cleanup"
  /\ Stepped /\ UNCHANGED <<draft, sent, alt, runVars, commits, report>>

\* The focus action: the control takes the focus, or does not, and it may not say so.
Focus(ok) ==
  /\ pc = "focus"
  /\ SelectedMode(flags) \in {"focus", "input_focus", "submit"} => TitleProven(surface)
  /\ pc' = IF ok THEN "focused"
           ELSE IF SelectedMode(flags) \in {"canary", "existing"} THEN "cleanup" ELSE "done"
  /\ report' = IF pc' # "done" THEN report
               ELSE IF SelectedMode(flags) = "submit" THEN "error" ELSE "failed"
  /\ Stepped /\ UNCHANGED <<draft, sent, alt, runVars, commits>>

\* Mutant: the surface is not looked at again once the focus is there.
FocusedBlind ==
  /\ pc = "focused"
  /\ IF SelectedMode(flags) \in {"focus", "input_focus"}
     THEN pc' = "done" /\ report' = "passed"
     ELSE pc' = "ready" /\ UNCHANGED report
  /\ Stepped /\ UNCHANGED <<draft, sent, alt, runVars, commits>>

\* Title and surface once more, with the focus where it is wanted.
Focused ==
  /\ pc = "focused"
  /\ IF SelectedMode(flags) \in {"focus", "input_focus"}
     THEN pc' = "done" /\ report' = IF TitleProven(surface) THEN "passed" ELSE "failed"
     ELSE IF surface \in Surface /\ TitleProven(surface)
     THEN pc' = "ready" /\ UNCHANGED report
     ELSE IF SelectedMode(flags) = "submit" THEN pc' = "done" /\ report' = "error"
     ELSE pc' = "cleanup" /\ UNCHANGED report
  /\ Stepped /\ UNCHANGED <<draft, sent, alt, runVars, commits>>

\* The failure path: an own draft is cleared while the title says "testing".
Cleanup(ok) ==
  /\ pc = "cleanup"
  /\ IF canary = "new" /\ wrote /\ chat = "testing"
     THEN Set(surface, "", ok) /\ wrote' = ok
     ELSE UNCHANGED <<draft, wrote>>
  /\ pc' = "done" /\ report' = IF "precommit" \in flags THEN "failed" ELSE "error"
  /\ Stepped /\ UNCHANGED <<sent, alt, surface, canary, confirmed, commits>>

\* The rehearsal ends here: an own draft is cleared whatever the title says.
PrecommitEnds(ok) ==
  /\ pc = "ready" /\ "precommit" \in flags
  /\ IF canary = "new" THEN Set(surface, "", ok) /\ wrote' = ok ELSE UNCHANGED <<draft, wrote>>
  /\ pc' = "done" /\ report' = "passed" /\ Stepped
  /\ UNCHANGED <<sent, alt, surface, canary, confirmed, commits>>

\* The client gets the commit and sends what its editor holds, or nothing happens.
Pressed(hit) ==
  IF hit /\ draft[chat] # ""
  THEN /\ sent' = sent \cup {[chat |-> chat, text |-> draft[chat], since |-> since]}
       /\ draft' = [draft EXCEPT ![chat] = ""]
  ELSE UNCHANGED <<sent, draft>>

\* The single commit: the control's action, or one key; Alt+S locks the modifier first.
Commit(hit) ==
  /\ pc = "ready" /\ ~("precommit" \in flags)
  /\ commits' = commits + 1
  /\ IF "alt_s" \in flags
     THEN \/ alt' = TRUE /\ pc' = "key" /\ UNCHANGED <<sent, draft>>
          \/ pc' = "unlock" /\ UNCHANGED <<alt, sent, draft>>
     ELSE /\ Pressed(hit) /\ UNCHANGED alt
          /\ pc' = IF SelectedMode(flags) = "submit" THEN "done" ELSE "readback"
  /\ report' = IF pc' = "done" THEN "unknown" ELSE report
  /\ Stepped /\ UNCHANGED runVars

AltKey(hit) ==
  /\ pc = "key"
  /\ Pressed(hit) /\ pc' = "unlock"
  /\ Stepped /\ UNCHANGED <<alt, runVars, commits, report>>

\* The finally: the modifier is released whatever happened to the key; the call may fail.
AltUnlock(ok) ==
  /\ pc = "unlock"
  /\ alt' = IF ok THEN FALSE ELSE alt
  /\ pc' = "done" /\ report' = "unknown" /\ Stepped
  /\ UNCHANGED <<draft, sent, runVars, commits>>

\* One item with the canary and an empty editor, before the time is over; never acknowledged.
Readback ==
  /\ pc = "readback"
  /\ pc' = "done" /\ Stepped
  /\ report' = IF DraftIsEmpty /\ \E m \in sent : m.chat = chat /\ m.text = canary
               THEN "readback" ELSE "unknown"
  /\ UNCHANGED <<draft, sent, alt, runVars, commits>>

---------------------------------------------------------------------------
(* The user.                                                               *)

Acts(what) ==
  /\ pc \notin {"idle", "done"} /\ used < MaxUser
  /\ used' = used + 1 /\ since' = since \cup {what}
  /\ UNCHANGED <<sent, alt, runVars, flags, pc, commits, report>>

OpensChat == Acts("chat") /\ chat' \in ChatTitle \ {chat} /\ UNCHANGED <<layout, draft, posts>>
Types ==
  Acts("text") /\ draft' = [draft EXCEPT ![chat] = "user"] /\ UNCHANGED <<layout, chat, posts>>
Rearranges(l) == Acts("layout") /\ layout' = l /\ UNCHANGED <<chat, draft, posts>>
Posts(k) ==
  /\ SelectedMode(flags) = "semantic" /\ posts[k] < 2 /\ Acts("post")
  /\ posts' = [posts EXCEPT ![k] = @ + 1] /\ UNCHANGED <<layout, chat, draft>>

---------------------------------------------------------------------------
ProbeInit ==
  /\ layout \in Layouts /\ chat \in ChatTitle
  /\ draft \in [ChatTitle -> {"", "old", "user"}] /\ draft["other"] # "old"
  /\ sent = {} /\ posts = [k \in {"self", "peer"} |-> 0] /\ alt = FALSE
  /\ flags = {} /\ pc = "idle" /\ surface = {} /\ canary = "" /\ wrote = FALSE
  /\ confirmed = "no" /\ commits = 0 /\ report = "none" /\ since = {} /\ used = 0

ProbeNext ==
  \/ pc = "idle" /\ \E f \in CommandLines : StartProbe(f)
  \/ Raises({"scan", "prepare", "focus"} \ (IF SelectedMode(flags) \in {"canary", "existing"}
                                             THEN {"focus"} ELSE {}))
  \/ Inspect \/ SurfaceReport \/ DraftState
  \/ \E s \in Surface : Scan(s)
  \/ Prepare \/ Confirm \/ Revalidate \/ Focused \/ Readback
  \/ \E ok \in BOOLEAN :
       \/ WriteDraft(ok) \/ Focus(ok) \/ Cleanup(ok) \/ PrecommitEnds(ok) \/ Commit(ok)
       \/ AltKey(ok) \/ AltUnlock(ok) \/ SemanticReport(ok)
  \/ OpensChat \/ Types \/ \E l \in Layouts : Rearranges(l)
  \/ \E k \in {"self", "peer"} : Posts(k)

ProbeSpec == ProbeInit /\ [][ProbeNext]_probeVars

---------------------------------------------------------------------------
(* Properties.                                                             *)

\* What is sent goes to the chat titled "testing" unless the user opened another one in the
\* window between the last look and the key; and where the editor can be read it is the
\* canary, unless the user typed or opened a chat after the draft was last read.  A command
\* line that asks for a look or a rehearsal sends nothing, whatever stands beside it.
SentIsProven ==
  /\ flags \cap Diagnostic # {} => commits = 0
  /\ \A m \in sent :
       /\ m.chat # "testing" => "chat" \in m.since
       /\ m.text # canary => confirmed # "exact" \/ m.since \cap {"text", "chat"} # {}

---------------------------------------------------------------------------
(* The inductive invariant of the proof of SentIsProven.                   *)

DraftText == {"", "old", "new", "user"}
UserAct == {"chat", "text", "layout", "post"}
ProbeStep ==
  {"idle", "scan", "prepare", "write", "confirm", "revalidate", "focus", "focused", "ready",
   "key", "unlock", "readback", "cleanup", "done"}

\* The client's window and the run keep their shape.
ProbeTypeOK ==
  /\ layout \in Layouts /\ chat \in ChatTitle
  /\ draft \in [ChatTitle -> DraftText]
  /\ sent \subseteq [chat : ChatTitle, text : DraftText, since : SUBSET UserAct]
  /\ posts \in [{"self", "peer"} -> Nat]
  /\ alt \in BOOLEAN /\ wrote \in BOOLEAN
  /\ flags \in CommandLines
  /\ pc \in ProbeStep
  /\ canary \in DraftText
  /\ confirmed \in {"no", "operator", "exact"}
  /\ commits \in Nat /\ used \in Nat
  /\ since \subseteq UserAct

\* Each step belongs to the mode that was asked for.
ModeFollowed ==
  /\ pc \notin {"idle", "done"} => ValidMode(flags)
  /\ pc \in {"prepare", "write", "confirm", "revalidate", "cleanup"} =>
       SelectedMode(flags) \in {"canary", "existing"}
  /\ pc \in {"focus", "focused"} =>
       SelectedMode(flags) \in {"focus", "input_focus", "canary", "existing", "submit"}
  /\ pc = "ready" => SelectedMode(flags) \in {"canary", "existing", "submit"}

\* There is one attempt to send, and it is the last thing that touches the client.
SingleCommit ==
  /\ commits <= 1
  /\ \A m, n \in sent : m = n
  /\ pc \notin {"key", "unlock", "readback", "done"} => commits = 0
  /\ pc \notin {"unlock", "readback", "done"} => sent = {}

\* What the last look has established still holds, but for what the user did since.
LookHolds ==
  /\ pc \in {"idle", "scan"} => confirmed = "no"
  /\ pc \in {"ready", "key"} => chat = "testing" \/ "chat" \in since
  /\ pc \in {"focus", "focused", "ready", "key"} /\ confirmed = "exact" =>
       draft["testing"] = canary \/ "text" \in since

ProbeInv == ProbeTypeOK /\ ModeFollowed /\ SingleCommit /\ LookHolds /\ SentIsProven
=============================================================================
