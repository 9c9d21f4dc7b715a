-------------------------- MODULE AssistantProofs --------------------------
(***************************************************************************)
(* Theorems about what the assistant does and keeps beside its replies:    *)
(* tool calls with their approvals, and memory.                            *)
(*                                                                         *)
(* Tools.  The argument is ownership.  The turn owns the row of its call,  *)
(* and an administrator the approval it has claimed with that approval's   *)
(* row (Claimed): each knows how far the row has come (TurnRow, AdminRow). *)
(* A tool may act only behind a row that was marked executing first, and   *)
(* only Answers and the exceptions that know the tool has no side effect   *)
(* call such a row failed (EffectsMarked).  side_effect_lock makes the     *)
(* policy's answer last until the call (LockHeld).                         *)
(*                                                                         *)
(* Memory.  Nothing is replaced that the replacing record does not cover   *)
(* (WellMade), and while no insert outlives its derivation, a roll         *)
(* replaces just the summary in force (RollsAll).                          *)
(***************************************************************************)
EXTENDS ToolExecution, ConversationMemory, FiniteSetTheorems, SequenceTheorems, TLAPS

\* The turn touches the row of its call, a call id, and so no approval's row.
LEMMA TurnKeeps == ToolInv /\ TurnStep => ToolInv'
<1> USE ToolAssumption DEF ToolInv, ToolTypeOK, StoppedIsStill, TurnRow, EffectsMarked,
            NoSilentEffect, SideEffect, ApprovalIsTrue, Claimed, AdminRow, LockHeld,
            ApprovalRow, Row, Approval, ExecState, ApprovalState, Up, Permits,
            rows, policy, turn, admin, process, outside
<1> SUFFICES ASSUME ToolInv, TurnStep PROVE ToolInv'
  OBVIOUS
<1>1. ASSUME NEW n \in 0 .. MaxToolCalls + 1, ModelAnswers(n) PROVE ToolInv'
  BY <1>1 DEF ModelAnswers, EndTurn
<1>2. ASSUME NEW c \in CallId, NEW r \in Request, Begin(c, r) PROVE ToolInv'
  BY <1>2 DEF Begin
<1>3. ASSUME NEW c \in CallId, Duplicate(c) PROVE ToolInv'
  BY <1>3 DEF Duplicate, NextCall
<1>4. CASE Rebound
  BY <1>4 DEF Rebound, EndTurn
<1>5. CASE Reject
  BY <1>5 DEF Reject, Resolved, NextCall
<1>6. CASE RequestApproval
  BY <1>6 DEF RequestApproval
<1>7. CASE ApprovalPending
  BY <1>7 DEF ApprovalPending, Resolved, NextCall
<1>8. CASE Preflight
  BY <1>8 DEF Preflight
<1>9. CASE MarkExecuting
  BY <1>9 DEF MarkExecuting
<1>10. CASE InvokeInTurn
  BY <1>10 DEF InvokeInTurn, Invoke
<1>11. CASE InTurnResult
  BY <1>11 DEF InTurnResult, Answers, Outcome, Resolved, NextCall
<1>12. CASE InTurnRaises
  BY <1>12 DEF InTurnRaises, Resolved, NextCall
<1>13. CASE Cancelled
  BY <1>13 DEF Cancelled, Resolved, EndTurn
<1> QED
  BY <1>1, <1>2, <1>3, <1>4, <1>5, <1>6, <1>7, <1>8, <1>9, <1>10, <1>11, <1>12, <1>13 DEF TurnStep

\* An administrator touches the approval it has claimed, which nobody else has.
LEMMA AdminKeeps == ASSUME ToolInv, NEW a \in Admin, AdminStep(a) PROVE ToolInv'
<1> USE ToolAssumption DEF ToolInv, ToolTypeOK, StoppedIsStill, TurnRow, EffectsMarked,
            NoSilentEffect, SideEffect, ApprovalIsTrue, Claimed, AdminRow, LockHeld,
            ApprovalRow, Row, Approval, ExecState, ApprovalState, Up, Permits,
            rows, policy, turn, admin, process, outside
<1>1. CASE ListPending(a)
  BY <1>1 DEF ListPending, Expired
<1>2. ASSUME NEW b \in Approval, Deny(a, b) PROVE ToolInv'
  BY <1>2 DEF Deny, Expired
<1>3. ASSUME NEW b \in Approval, Claim(a, b) PROVE ToolInv'
  BY <1>3 DEF Claim, Expired
<1>4. CASE TakeLock(a)
  BY <1>4 DEF TakeLock
<1>5. CASE Revalidate(a)
  BY <1>5 DEF Revalidate, Leave
<1>6. CASE BeginApproved(a)
  BY <1>6 DEF BeginApproved, Leave
<1>7. CASE InvokeApproved(a)
  BY <1>7 DEF InvokeApproved, Invoke
<1>8. CASE ApprovedResult(a)
  BY <1>8 DEF ApprovedResult, Answers, Resolved, Leave
<1>9. CASE Raised(a)
  BY <1>9 DEF Raised, Leave
<1>10. CASE SettleRow(a)
  BY <1>10 DEF SettleRow, Resolved
<1>11. CASE ResolveApproval(a)
  BY <1>11 DEF ResolveApproval, Idle
<1> QED
  BY <1>1, <1>2, <1>3, <1>4, <1>5, <1>6, <1>7, <1>8, <1>9, <1>10, <1>11 DEF AdminStep

\* The tool that acts, time, the pause, and a stop with the recovery after it.
LEMMA OthersKeep ==
  ASSUME ToolInv,
         \/ \E x \in Row : Act(x)
         \/ \E b \in Approval : Expire(b)
         \/ SetPause \/ Disallow \/ Stop \/ RecoverRows \/ RecoverApprovals
         \/ UNCHANGED toolVars
  PROVE  ToolInv'
<1> USE ToolAssumption DEF ToolInv, ToolTypeOK, StoppedIsStill, TurnRow, EffectsMarked,
            NoSilentEffect, SideEffect, ApprovalIsTrue, Claimed, AdminRow, LockHeld,
            ApprovalRow, Row, Approval, ExecState, ApprovalState, Up, Permits,
            rows, policy, turn, admin, process, outside
<1>1. ASSUME NEW x \in Row, Act(x) PROVE ToolInv'
  BY <1>1 DEF Act
<1>2. ASSUME NEW b \in Approval, Expire(b) PROVE ToolInv'
  BY <1>2 DEF Expire
<1>3. CASE SetPause
  BY <1>3 DEF SetPause
<1>4. CASE Disallow
  <2>1. ToolTypeOK' /\ UNCHANGED <<rows, late, paused, lock, turn, admin, process, outside>>
    BY <1>4 DEF Disallow
  <2> QED
    BY <2>1
<1>5. CASE Stop
  BY <1>5 DEF Stop
<1>6. CASE RecoverRows
  BY <1>6 DEF RecoverRows
<1>7. CASE RecoverApprovals
  BY <1>7 DEF RecoverApprovals
<1>8. CASE UNCHANGED toolVars
  BY <1>8 DEF toolVars
<1> QED
  BY <1>1, <1>2, <1>3, <1>4, <1>5, <1>6, <1>7, <1>8

\* ToolInv holds in every reachable state: turn, administrators, rows and lock agree
\* through every refusal, exception, cancellation and stop.
THEOREM ToolInvariant == ToolSpec => []ToolInv
<1>1. ToolInit => ToolInv
  <2> SUFFICES ASSUME ToolInit PROVE ToolInv
    OBVIOUS
  <2>1. ToolTypeOK
    BY ToolAssumption DEF ToolInit, ToolTypeOK, ExecState, ApprovalState
  <2>2. StoppedIsStill /\ TurnRow /\ EffectsMarked
    BY DEF ToolInit, StoppedIsStill, TurnRow, EffectsMarked, NoSilentEffect
  <2>3. \A a \in Admin : apc[a] = "idle"
    BY DEF ToolInit
  <2>4. \A b \in Approval : approval[b] = "none" /\ exec[b] = "none" /\ invoked[b] = 0
    BY DEF ToolInit, Row
  <2> QED
    BY <2>1, <2>2, <2>3, <2>4 DEF ToolInv, ApprovalIsTrue, LockHeld, ApprovalRow
<1>2. ToolInv /\ [ToolNext]_toolVars => ToolInv'
  BY TurnKeeps, AdminKeeps, OthersKeep DEF ToolNext
<1> QED
  BY <1>1, <1>2, PTL DEF ToolSpec

\* The rows, counters and tasks keep their types.
THEOREM ToolTypes == ToolSpec => []ToolTypeOK
  BY ToolInvariant, PTL DEF ToolInv

\* A row that says failed or denied never had an effect and never will, whatever exception,
\* cancellation or crash came between the mark and the answer.
THEOREM EffectsAreRecorded == ToolSpec => []NoSilentEffect
  BY ToolInvariant, PTL DEF ToolInv, EffectsMarked

\* An approval called approved was carried out, one called denied never is, and no approval
\* is carried out twice, with any number of administrators deciding at once.
THEOREM ApprovalsAreTrue == ToolSpec => []ApprovalIsTrue
  BY ToolInvariant, PTL DEF ToolInv

\* Only an administrator invokes an approved request, in the step after the mark.
LEMMA InvokedByAdmin ==
  ASSUME ToolInv, ToolNext, NEW b \in Approval, invoked'[b] # invoked[b]
  PROVE  \E a \in Admin : InvokeApproved(a)
<1> USE DEF rows, policy, turn, admin, process, outside
<1>1. ASSUME TurnStep PROVE FALSE
  <2>1. tpc = "invoke" => call \in CallId /\ call # b
    BY ToolAssumption DEF ToolInv, TurnRow, Approval
  <2>2. tpc = "invoke" => invoked' # [invoked EXCEPT ![call] = @ + 1]
    BY <2>1 DEF ToolInv, ToolTypeOK, Row
  <2> QED
    BY <1>1, <2>2 DEF TurnStep, ModelAnswers, Begin, Duplicate, Rebound, Reject,
       RequestApproval, ApprovalPending, Preflight, MarkExecuting, InvokeInTurn, Invoke,
       InTurnResult, Answers, InTurnRaises, Cancelled
<1>2. ASSUME NEW a \in Admin, AdminStep(a) PROVE InvokeApproved(a)
  BY <1>2 DEF AdminStep, ListPending, Deny, Claim, TakeLock, Revalidate, BeginApproved,
     ApprovedResult, Answers, Raised, SettleRow, ResolveApproval
<1>3. ~ \/ \E x \in Row : Act(x)
        \/ \E c \in Approval : Expire(c)
        \/ SetPause \/ Disallow \/ Stop \/ RecoverRows \/ RecoverApprovals
  BY DEF Act, Expire, SetPause, Disallow, Stop, RecoverRows, RecoverApprovals
<1> QED
  BY <1>1, <1>2, <1>3 DEF ToolNext

\* set_pause, which waits for side_effect_lock, never slips between the policy's answer and
\* the call it allowed.
THEOREM ApprovedCallsHeedPause == ToolSpec => PauseHoldsApproved
<1>1. ToolInv /\ [ToolNext]_toolVars
        => [\A b \in Approval : invoked'[b] # invoked[b] => ~paused]_toolVars
  <2> SUFFICES ASSUME ToolInv, ToolNext, NEW b \in Approval, invoked'[b] # invoked[b]
               PROVE  ~paused
    OBVIOUS
  <2>1. PICK a \in Admin : InvokeApproved(a)
    BY InvokedByAdmin
  <2> QED
    BY <2>1 DEF InvokeApproved, ToolInv, LockHeld
<1> QED
  BY <1>1, ToolInvariant, PTL DEF ToolSpec, PauseHoldsApproved

---------------------------------------------------------------------------
(* Memory: what a derivation inserts.                                      *)

\* Two versions of one record, in force or not.
Versions(q, p) == SameId(q, p) /\ q.sup = p.sup

\* An insertion adds its record and puts out of force those it names, which stay.
LEMMA AddedRecords ==
  ASSUME MemoryTypeOK, NEW r, WellMade(r)
  PROVE  /\ r \in Added(r) /\ r.active
         /\ \A p \in records : \E q \in Added(r) : Versions(q, p)
         /\ \A q \in Added(r) : q = r \/ \E p \in records :
              /\ Versions(q, p)
              /\ IF \E o \in r.sup : SameId(p, o) THEN ~q.active ELSE q = p
<1> DEFINE Off(q) == [q EXCEPT !.active = FALSE]
           New(q) == IF \E o \in r.sup : SameId(q, o) THEN Off(q) ELSE q
<1>1. Added(r) = {New(q) : q \in records} \cup {r}
  BY DEF Added
<1>2. \A q \in records : Versions(Off(q), q) /\ Off(q).active = FALSE /\ Versions(q, q)
  BY DEF MemoryTypeOK, Versions, SameId
<1>3. r.active
  BY DEF WellMade, Record
<1> HIDE DEF Off
<1>4. \A q \in records : /\ Versions(New(q), q)
                         /\ IF \E o \in r.sup : SameId(q, o) THEN ~New(q).active ELSE New(q) = q
  BY <1>2
<1> HIDE DEF New
<1> QED
  BY <1>1, <1>3, <1>4

\* A record with given fields.
LEMMA RecordOf ==
  ASSUME NEW s, NEW k, NEW t, NEW x, NEW u, NEW b,
         NEW q \in [scope : {s}, kind : {k}, text : {t}, src : {x}, sup : {u}, active : {b}]
  PROVE  q = [scope |-> s, kind |-> k, text |-> t, src |-> x, sup |-> u, active |-> b]
OBVIOUS

\* Records stay records, and finitely many.
LEMMA AddedKeepsType ==
  ASSUME MemoryTypeOK, NEW r, WellMade(r), records' = Added(r)
  PROVE  /\ IsFiniteSet(records')
         /\ \A q \in records' :
              /\ q = [scope |-> q.scope, kind |-> q.kind, text |-> q.text, src |-> q.src,
                      sup |-> q.sup, active |-> q.active]
              /\ q.active \in BOOLEAN
<1> DEFINE Off(q) == [q EXCEPT !.active = FALSE]
           New(q) == IF \E o \in r.sup : SameId(q, o) THEN Off(q) ELSE q
           Shaped(q) == /\ q = [scope |-> q.scope, kind |-> q.kind, text |-> q.text,
                                src |-> q.src, sup |-> q.sup, active |-> q.active]
                        /\ q.active \in BOOLEAN
<1>1. records' = {New(q) : q \in records} \cup {r}
  BY DEF Added
<1>2. IsFiniteSet({New(q) : q \in records})
  <2> DEFINE Made == {New(q) : q \in records}
             f == [q \in records |-> New(q)]
  <2> HIDE DEF New
  <2>1. f \in Surjection(records, Made)
    BY DEF Surjection
  <2> HIDE DEF f, Made
  <2>2. IsFiniteSet(Made)
    BY <2>1, FS_Surjection DEF MemoryTypeOK
  <2> QED
    BY <2>2 DEF Made
<1>3. IsFiniteSet(records')
  <2> HIDE DEF New
  <2> QED
    BY <1>1, <1>2, FS_AddElement
<1>4. ASSUME NEW q \in records PROVE Shaped(q) /\ Shaped(Off(q))
  <2>1. Shaped(q)
    BY DEF MemoryTypeOK
  <2>2. q = [scope |-> q.scope, kind |-> q.kind, text |-> q.text, src |-> q.src,
             sup |-> q.sup, active |-> q.active]
    BY <2>1
  <2>3. /\ Off(q) \in [scope : {q.scope}, kind : {q.kind}, text : {q.text}, src : {q.src},
                      sup : {q.sup}, active : {FALSE}]
        /\ Off(q).scope = q.scope /\ Off(q).kind = q.kind /\ Off(q).text = q.text
        /\ Off(q).src = q.src /\ Off(q).sup = q.sup /\ Off(q).active = FALSE
    <3> HIDE DEF Shaped
    <3> QED
      BY <2>2
  <2>4. Shaped(Off(q))
    <3> HIDE DEF Off
    <3>1. Off(q) = [scope |-> q.scope, kind |-> q.kind, text |-> q.text, src |-> q.src,
                    sup |-> q.sup, active |-> FALSE]
      BY <2>3, RecordOf
    <3>2. Off(q).active \in BOOLEAN
      BY <2>3
    <3> QED
      BY <2>3, <3>1, <3>2
  <2> QED
    BY <2>1, <2>4
<1>5. Shaped(r)
  <2>1. r = [scope |-> r.scope, kind |-> r.kind, text |-> r.text, src |-> r.src, sup |-> r.sup,
             active |-> TRUE]
    BY DEF WellMade, Record
  <2>2. r.active = TRUE
    BY <2>1
  <2> QED
    BY <2>1, <2>2
<1> HIDE DEF Shaped, Off
<1>6. \A q \in records' : Shaped(q)
  BY <1>1, <1>4, <1>5
<1> QED
  BY <1>3, <1>6 DEF Shaped

\* Sources belong to the conversation, and what was replaced is covered.
Covered ==
  \A r \in records :
    /\ \A x \in r.src : x[1] = r.scope
    /\ r.active \/ \E q \in records :
         /\ q.kind = "summary" /\ q.scope = r.scope /\ r.src \subseteq q.src
         /\ \E o \in q.sup : SameId(o, r)

LEMMA AddCovers ==
  ASSUME MemoryTypeOK, Covered, NEW r, WellMade(r), records' = Added(r)
  PROVE  Covered'
<1> SUFFICES ASSUME NEW q \in Added(r)
             PROVE  /\ \A x \in q.src : x[1] = q.scope
                    /\ q.active \/ \E w \in Added(r) :
                         /\ w.kind = "summary" /\ w.scope = q.scope /\ q.src \subseteq w.src
                         /\ \E o \in w.sup : SameId(o, q)
  BY DEF Covered
<1>1. CASE q = r
  BY <1>1, AddedRecords DEF WellMade
<1>2. CASE q # r
  <2>1. PICK p \in records :
          /\ Versions(q, p)
          /\ IF \E o \in r.sup : SameId(p, o) THEN ~q.active ELSE q = p
    BY <1>2, AddedRecords
  <2>2. \A x \in q.src : x[1] = q.scope
    BY <2>1 DEF Covered, Versions, SameId
  <2>3. CASE \E o \in r.sup : SameId(p, o)
    <3>1. PICK o \in r.sup : SameId(p, o)
      BY <2>3
    <3>2. /\ r.kind = "summary" /\ r.scope = q.scope /\ q.src \subseteq r.src /\ SameId(o, q)
      BY <2>1, <3>1 DEF WellMade, Versions, SameId
    <3> QED
      BY <2>2, <3>2, AddedRecords
  <2>4. CASE ~q.active /\ q = p
    <3>1. PICK w \in records : /\ w.kind = "summary" /\ w.scope = q.scope /\ q.src \subseteq w.src
                               /\ \E o \in w.sup : SameId(o, q)
      BY <2>4 DEF Covered
    <3>2. PICK v \in Added(r) : Versions(v, w)
      BY AddedRecords
    <3> QED
      BY <2>2, <3>1, <3>2 DEF Versions, SameId
  <2> QED
    BY <2>1, <2>2, <2>3, <2>4
<1> QED
  BY <1>1, <1>2

\* A roll replaces all summaries in force; other records replace none.
OneInForce ==
  \A r, q \in records :
    /\ r.kind = "summary" /\ q.kind = "summary" /\ r.active /\ q.active /\ r.scope = q.scope
    => r = q

LEMMA AddKeepsOne ==
  ASSUME MemoryTypeOK, OneInForce, NEW r, WellMade(r), records' = Added(r),
         r.kind = "summary" => r.sup = InForce(r.scope)
  PROVE  OneInForce'
<1>1. ASSUME NEW q \in Added(r), q # r, q.active
      PROVE  q \in records /\ \A o \in r.sup : ~SameId(q, o)
  BY <1>1, AddedRecords
<1>2. ASSUME NEW q \in Added(r), q # r, q.active, q.kind = "summary", r.kind = "summary",
             q.scope = r.scope
      PROVE  FALSE
  <2>1. q \in r.sup
    BY <1>1, <1>2 DEF InForce
  <2> QED
    BY <1>1, <1>2, <2>1 DEF SameId
<1> QED
  BY <1>1, <1>2 DEF OneInForce

\* What is not a summary leaves the summaries in force alone.
LEMMA ItemKeepsForce ==
  ASSUME MemoryTypeOK, NEW r, WellMade(r), r.kind # "summary", records' = Added(r)
  PROVE  \A s : InForce(s)' = InForce(s)
<1>1. r.sup = {}
  BY DEF WellMade
<1>2. \A q \in Added(r) : q = r \/ q \in records
  BY <1>1, AddedRecords
<1>3. records \subseteq Added(r)
  BY <1>1 DEF Added
<1> QED
  BY <1>2, <1>3 DEF InForce

---------------------------------------------------------------------------
(* Memory: the steps.                                                      *)

LEMMA SearchFindsAll ==
  ASSUME MemoryTypeOK, OneInForce, NEW s, NEW h \in Found(s, {"summary"}, 1)
  PROVE  h = InForce(s)
<1>1. Found(s, {"summary"}, 1)
        = {g \in SUBSET InForce(s) : Cardinality(g) = Least(1, Cardinality(InForce(s)))}
  <2>1. {r \in records : r.scope = s /\ r.active /\ r.kind \in {"summary"}} = InForce(s)
    BY DEF InForce
  <2> QED
    BY <2>1 DEF Found
<1>2. h \subseteq InForce(s) /\ Cardinality(h) = Least(1, Cardinality(InForce(s)))
  BY <1>1
<1>3. CASE InForce(s) = {}
  BY <1>2, <1>3
<1>4. ASSUME NEW x \in InForce(s) PROVE h = InForce(s)
  <2>1. InForce(s) = {x}
    BY <1>4 DEF OneInForce, InForce
  <2>2. Cardinality(InForce(s)) = 1
    BY <2>1, FS_Singleton
  <2>3. Cardinality(h) = 1
    BY <1>2, <2>2 DEF Least
  <2>4. h # {}
    BY <2>3, FS_EmptySet
  <2> QED
    BY <1>2, <2>1, <2>4
<1> QED
  BY <1>3, <1>4
\* What a derivation still has to insert, and what remains behind the first of it.
LEMMA PlanShape ==
  ASSUME MemoryTypeOK, derivation.pc = "add", derivation.todo # <<>>
  PROVE  LET todo == derivation.todo
         IN /\ Head(todo) = todo[1]
            /\ \/ Len(todo) = 1 /\ Tail(todo) = <<>>
               \/ Len(todo) = 2 /\ Tail(todo) = <<todo[2]>>
<1> DEFINE todo == derivation.todo
<1>1. todo = <<todo[1]>> \/ todo = <<todo[1], todo[2]>>
  BY DEF MemoryTypeOK
<1>2. \A x : Head(<<x>>) = x /\ Len(<<x>>) = 1 /\ Tail(<<x>>) = <<>>
  OBVIOUS
<1>3. \A x, y : Head(<<x, y>>) = x /\ Len(<<x, y>>) = 2 /\ Tail(<<x, y>>) = <<y>>
  OBVIOUS
<1> HIDE DEF todo
<1>4. CASE todo = <<todo[1]>>
  <2>1. Head(todo) = todo[1] /\ Len(todo) = 1 /\ Tail(todo) = <<>>
    BY <1>2, <1>4, Zenon
  <2> QED
    BY <2>1 DEF todo
<1>5. CASE todo = <<todo[1], todo[2]>>
  <2>1. Head(todo) = todo[1] /\ Len(todo) = 2 /\ Tail(todo) = <<todo[2]>>
    BY <1>3, <1>5, Zenon
  <2> QED
    BY <2>1 DEF todo
<1> QED
  BY <1>1, <1>4, <1>5

\* Plans of at most one record each, one behind the other.
LEMMA PlansJoined ==
  ASSUME NEW x, NEW y
  PROVE  /\ <<>> \o <<>> = <<>> /\ <<x>> \o <<>> = <<x>>
         /\ <<>> \o <<y>> = <<y>> /\ <<x>> \o <<y>> = <<x, y>>
<1> DEFINE S == {x, y}
<1>1. <<>> \in Seq(S) /\ <<x>> \in Seq(S) /\ <<y>> \in Seq(S) /\ <<x, y>> \in Seq(S)
  OBVIOUS
<1>2. <<>> \o <<>> = <<>> /\ <<x>> \o <<>> = <<x>> /\ <<>> \o <<y>> = <<y>>
  BY <1>1, ConcatEmptySeq
<1>3. <<x>> \o <<y>> \in Seq(S) /\ Len(<<x>> \o <<y>>) = 2
      /\ (<<x>> \o <<y>>)[1] = x /\ (<<x>> \o <<y>>)[2] = y
  BY <1>1
<1>4. <<x>> \o <<y>> = <<x, y>>
  <2> DEFINE s == <<x>> \o <<y>>
             t == <<x, y>>
  <2>1. s \in Seq(S) /\ t \in Seq(S) /\ Len(s) = 2 /\ Len(t) = 2
        /\ s[1] = t[1] /\ s[2] = t[2]
    BY <1>1, <1>3
  <2> HIDE DEF s, t
  <2>2. \A i \in 1 .. Len(s) : i = 1 \/ i = 2
    BY <2>1
  <2>3. s = t
    BY <2>1, <2>2, SeqEqual
  <2> QED
    BY <2>3 DEF s, t
<1> QED
  BY <1>2, <1>4

\* An answer yields at most an item and a rolled summary, in this order.
LEMMA PlanMade ==
  ASSUME NEW k, NEW t, NEW src, NEW sum, ModelDerives(k, t, src, sum)
  PROVE  LET item == Record(derivation.scope, k, t, Sources(src), {})
             roll == Record(derivation.scope, "summary", t, Merged(derivation.prev),
                            derivation.prev)
         IN /\ derivation.pc = "model" /\ derivation'.pc = "add"
            /\ derivation' = [pc |-> "add", todo |-> derivation'.todo]
            /\ UNCHANGED <<said, records, stragglers, context, derived, overtaken>>
            /\ \/ derivation'.todo = <<>>
               \/ derivation'.todo = <<item>>
               \/ Rolls /\ derivation'.todo = <<roll>>
               \/ Rolls /\ derivation'.todo = <<item, roll>>
<1> DEFINE item == Record(derivation.scope, k, t, Sources(src), {})
           roll == Record(derivation.scope, "summary", t, Merged(derivation.prev), derivation.prev)
<1>1. \A x, y : /\ <<>> \o <<>> = <<>> /\ <<x>> \o <<>> = <<x>>
               /\ <<>> \o <<y>> = <<y>> /\ <<x>> \o <<y>> = <<x, y>>
  BY PlansJoined
<1> HIDE DEF item, roll
<1>2. /\ derivation.pc = "model"
      /\ derivation' = [pc |-> "add",
                        todo |-> (IF Sources(src) = {} THEN <<>> ELSE <<item>>)
                                   \o (IF sum /\ Rolls THEN <<roll>> ELSE <<>>)]
      /\ UNCHANGED <<said, records, stragglers, context, derived, overtaken>>
  BY DEF ModelDerives, item, roll
<1>3. derivation'.pc = "add" /\ derivation' = [pc |-> "add", todo |-> derivation'.todo]
  BY <1>2
<1>4. \/ derivation'.todo = <<>>
      \/ derivation'.todo = <<item>>
      \/ Rolls /\ derivation'.todo = <<roll>>
      \/ Rolls /\ derivation'.todo = <<item, roll>>
  <2>1. derivation'.todo = (IF Sources(src) = {} THEN <<>> ELSE <<item>>)
                             \o (IF sum /\ Rolls THEN <<roll>> ELSE <<>>)
    BY <1>2
  <2>2. CASE Sources(src) = {} /\ ~(sum /\ Rolls)
    <3>1. derivation'.todo = <<>> \o <<>>
      BY <2>1, <2>2
    <3>2. derivation'.todo = <<>>
      BY <1>1, <3>1
    <3> QED
      BY <2>2, <3>2
  <2>3. CASE Sources(src) = {} /\ sum /\ Rolls
    <3>1. derivation'.todo = <<>> \o <<roll>>
      BY <2>1, <2>3
    <3>2. derivation'.todo = <<roll>>
      BY <1>1, <3>1
    <3> QED
      BY <2>3, <3>2
  <2>4. CASE Sources(src) # {} /\ ~(sum /\ Rolls)
    <3>1. derivation'.todo = <<item>> \o <<>>
      BY <2>1, <2>4
    <3>2. derivation'.todo = <<item>>
      BY <1>1, <3>1
    <3> QED
      BY <2>4, <3>2
  <2>5. CASE Sources(src) # {} /\ sum /\ Rolls
    <3>1. derivation'.todo = <<item>> \o <<roll>>
      BY <2>1, <2>5
    <3>2. derivation'.todo = <<item, roll>>
      BY <1>1, <3>1
    <3> QED
      BY <2>5, <3>2
  <2> QED
    BY <2>2, <2>3, <2>4, <2>5
<1> QED
  BY <1>2, <1>3, <1>4 DEF item, roll

LEMMA MemoryTypeStep ==
  ASSUME MemoryTypeOK, MadeWell, [MemoryNext]_memoryVars
  PROVE  MemoryTypeOK'
<1>1. ASSUME NEW s \in Scope, Say(s)
      PROVE  MemoryTypeOK'
  BY <1>1 DEF MemoryTypeOK, Say, NoJob
<1>2. ASSUME NEW s \in Scope, NEW cut \in BOOLEAN, NEW b \in Budgets, StartDerive(s, cut, b)
      PROVE  MemoryTypeOK'
  <2>1. derivation'.pc = "model" /\ UNCHANGED <<records, overtaken>>
    BY <1>2 DEF StartDerive
  <2> QED
    BY <2>1 DEF MemoryTypeOK
<1>3. ASSUME NEW k \in {"fact", "commitment"}, NEW t \in Text, NEW src \in Citable,
             NEW sum \in BOOLEAN, ModelDerives(k, t, src, sum)
      PROVE  MemoryTypeOK'
  <2>1. /\ derivation' = [pc |-> "add", todo |-> derivation'.todo]
        /\ derivation'.pc = "add" /\ UNCHANGED <<records, overtaken>>
        /\ \/ derivation'.todo = <<>> \/ \E x : derivation'.todo = <<x>>
           \/ \E x, y : derivation'.todo = <<x, y>>
    BY <1>3, PlanMade
  <2>2. LET todo == derivation'.todo
        IN /\ derivation' = [pc |-> "add", todo |-> todo]
           /\ todo = <<>> \/ todo = <<todo[1]>> \/ todo = <<todo[1], todo[2]>>
    BY <2>1
  <2> QED
    BY <2>1, <2>2 DEF MemoryTypeOK
<1>4. CASE AddRecord
  <2>1. /\ derivation.pc = "add" /\ derivation.todo # <<>> /\ UNCHANGED overtaken
        /\ \/ derivation' = [derivation EXCEPT !.todo = Tail(@)]
           \/ derivation' = NoJob
        /\ records' = records \/ records' = Added(Head(derivation.todo))
    BY <1>4 DEF AddRecord
  <2> DEFINE plan == derivation.todo
  <2>2. WellMade(Head(plan)) /\ (Tail(plan) = <<>> \/ Tail(plan) = <<plan[2]>>)
    <3>1. /\ Head(plan) = plan[1] /\ (Len(plan) = 1 \/ Len(plan) = 2)
          /\ Tail(plan) = <<>> \/ Tail(plan) = <<plan[2]>>
      BY <2>1, PlanShape
    <3>2. WellMade(plan[1])
      BY <2>1, <3>1 DEF MadeWell
    <3> QED
      BY <3>1, <3>2, Zenon
  <2>3. derivation'.pc \in {"idle", "add"} /\ (derivation'.pc = "add" =>
          LET todo == derivation'.todo
          IN /\ derivation' = [pc |-> "add", todo |-> todo]
             /\ todo = <<>> \/ todo = <<todo[1]>> \/ todo = <<todo[1], todo[2]>>)
    <3>1. CASE derivation' = NoJob
      BY <3>1 DEF NoJob
    <3>2. CASE derivation' = [derivation EXCEPT !.todo = Tail(@)]
      <4>1. /\ derivation' = [pc |-> "add", todo |-> Tail(derivation.todo)]
            /\ derivation'.pc = "add" /\ derivation'.todo = Tail(derivation.todo)
        BY <2>1, <3>2 DEF MemoryTypeOK
      <4>2. derivation'.todo = <<>> \/ derivation'.todo = <<plan[2]>>
        BY <2>2, <4>1
      <4>3. derivation'.todo = <<>> \/ derivation'.todo = <<derivation'.todo[1]>>
        BY <4>2
      <4> QED
        BY <4>1, <4>3
    <3> QED
      BY <2>1, <3>1, <3>2
  <2> QED
    BY <2>1, <2>2, <2>3, AddedKeepsType DEF MemoryTypeOK
<1>5. CASE DeriveEnds
  BY <1>5 DEF MemoryTypeOK, DeriveEnds, NoJob
<1>6. CASE DeriveFails
  BY <1>6 DEF MemoryTypeOK, DeriveFails, NoJob
<1>7. CASE DeriveTimesOut
  BY <1>7 DEF MemoryTypeOK, DeriveTimesOut, NoJob
<1>8. CASE MemoryCrash
  BY <1>8 DEF MemoryTypeOK, MemoryCrash, NoJob
<1>9. ASSUME NEW r \in stragglers, LateInsert(r)
      PROVE  MemoryTypeOK'
  <2>1. WellMade(r) /\ (records' = records \/ records' = Added(r))
        /\ UNCHANGED <<derivation, overtaken>>
    BY <1>9 DEF LateInsert, MadeWell
  <2> QED
    BY <2>1, AddedKeepsType DEF MemoryTypeOK
<1>10. ASSUME NEW s \in Scope, NEW b \in Budgets, BuildContext(s, b)
      PROVE  MemoryTypeOK'
  BY <1>10 DEF MemoryTypeOK, BuildContext, NoJob
<1>11. CASE UNCHANGED memoryVars
  BY <1>11 DEF MemoryTypeOK, memoryVars
<1> QED
  BY <1>1, <1>2, <1>3, <1>4, <1>5, <1>6, <1>7, <1>8, <1>9, <1>10, <1>11 DEF MemoryNext

\* The bounded input of a derivation is of its conversation.
LEMMA BoundedIsOwn ==
  ASSUME NEW s, NEW sum, NEW prev, NEW budget
  PROVE  /\ \A x \in Bounded(s, sum, prev, budget).turns : x[1] = s
         /\ Bounded(s, sum, prev, budget).prev \in {{}, prev}
<1>1. \A x \in Latest(s) \cup {Newest(s)} : x[1] = s
  BY DEF Latest, Newest
<1>2. \A S, n : Oldest(S, n) \subseteq S /\ Last(S, n) \subseteq S
  BY DEF Oldest, Last
<1> QED
  BY <1>1, <1>2 DEF Bounded

LEMMA ItemIsWellMade ==
  ASSUME MadeWell, derivation.pc = "model", NEW k, NEW t, NEW src
  PROVE  WellMade(Record(derivation.scope, k, t, Sources(src), {}))
<1>1. \A x \in Sources(src) : x[1] = derivation.scope
  BY DEF MadeWell, Sources
<1> QED
  BY <1>1 DEF WellMade, Record

\* The sources of a merged summary cover those of the one it replaces.
LEMMA RollIsWellMade ==
  ASSUME MadeWell, derivation.pc = "model", NEW t
  PROVE  WellMade(Record(derivation.scope, "summary", t, Merged(derivation.prev),
                         derivation.prev))
<1>1. \A o \in derivation.prev :
        /\ o.scope = derivation.scope
        /\ \A x \in o.src : x[1] = derivation.scope
  BY DEF MadeWell
<1>2. /\ \A x \in Merged(derivation.prev) : x[1] = derivation.scope
      /\ \A o \in derivation.prev : o.src \subseteq Merged(derivation.prev)
  BY <1>1 DEF MadeWell, Merged
<1> QED
  BY <1>1, <1>2 DEF WellMade, Record

\* What is to be inserted stays well made.
LEMMA MadeStep ==
  ASSUME MemoryTypeOK, MadeWell, Covered, [MemoryNext]_memoryVars
  PROVE  MadeWell'
<1>1. ASSUME NEW s \in Scope, Say(s)
      PROVE  MadeWell'
  BY <1>1 DEF MadeWell, Say, NoJob
<1>2. ASSUME NEW s \in Scope, NEW cut \in BOOLEAN, NEW b \in Budgets, StartDerive(s, cut, b)
      PROVE  MadeWell'
  <2>1. PICK sum \in BOOLEAN, found \in SUBSET records :
          /\ \A o \in found : o.scope = s
          /\ derivation' = [pc |-> "model", scope |-> s, sum |-> sum, found |-> found,
                            turns |-> Bounded(s, sum, found, b).turns,
                            prev |-> Bounded(s, sum, found, b).prev]
          /\ UNCHANGED stragglers
    BY <1>2 DEF StartDerive, Found
  <2>2. /\ derivation'.pc = "model" /\ derivation'.scope = s /\ derivation'.found = found
        /\ derivation'.turns = Bounded(s, sum, found, b).turns
        /\ derivation'.prev = Bounded(s, sum, found, b).prev
    BY <2>1
  <2>3. \A o \in found : \A x \in o.src : x[1] = o.scope
    BY DEF Covered
  <2>4. /\ \A x \in derivation'.turns : x[1] = s
        /\ derivation'.prev = {} \/ derivation'.prev = found
    BY <2>2, BoundedIsOwn
  <2> QED
    BY <2>1, <2>2, <2>3, <2>4 DEF MadeWell
<1>3. ASSUME NEW k \in {"fact", "commitment"}, NEW t \in Text, NEW src \in Citable,
             NEW sum \in BOOLEAN, ModelDerives(k, t, src, sum)
      PROVE  MadeWell'
  <2> DEFINE item == Record(derivation.scope, k, t, Sources(src), {})
             roll == Record(derivation.scope, "summary", t, Merged(derivation.prev),
                            derivation.prev)
  <2>1. /\ derivation.pc = "model" /\ derivation'.pc = "add" /\ UNCHANGED stragglers
        /\ \/ derivation'.todo = <<>>
           \/ derivation'.todo = <<item>>
           \/ derivation'.todo = <<roll>>
           \/ derivation'.todo = <<item, roll>>
    BY <1>3, PlanMade
  <2>2. WellMade(item) /\ WellMade(roll)
    BY <2>1, ItemIsWellMade, RollIsWellMade
  <2> HIDE DEF item, roll
  <2>3. \A i \in 1 .. Len(derivation'.todo) : derivation'.todo[i] \in {item, roll}
    BY <2>1
  <2> QED
    BY <2>1, <2>2, <2>3 DEF MadeWell
<1>4. CASE AddRecord
  <2>1. /\ derivation.pc = "add" /\ derivation.todo # <<>> /\ UNCHANGED stragglers
        /\ \/ derivation' = [derivation EXCEPT !.todo = Tail(@)]
           \/ derivation' = NoJob
    BY <1>4 DEF AddRecord
  <2>2. CASE derivation' = NoJob
    BY <2>1, <2>2 DEF NoJob, MadeWell
  <2>3. CASE derivation' = [derivation EXCEPT !.todo = Tail(@)]
    <3>1. derivation'.pc = "add" /\ derivation'.todo = Tail(derivation.todo)
      BY <2>1, <2>3 DEF MemoryTypeOK
    <3>2. \/ derivation'.todo = <<>>
          \/ derivation'.todo = <<derivation.todo[2]>> /\ 2 \in 1 .. Len(derivation.todo)
      BY <2>1, <3>1, PlanShape
    <3>3. \A i \in 1 .. Len(derivation'.todo) : WellMade(derivation'.todo[i])
      <4>1. CASE derivation'.todo = <<>>
        BY <4>1
      <4>2. CASE derivation'.todo = <<derivation.todo[2]>> /\ 2 \in 1 .. Len(derivation.todo)
        BY <2>1, <4>2 DEF MadeWell
      <4> QED
        BY <3>2, <4>1, <4>2
    <3> QED
      BY <2>1, <3>1, <3>3 DEF MadeWell
  <2> QED
    BY <2>1, <2>2, <2>3
<1>5. CASE DeriveEnds
  BY <1>5 DEF MadeWell, DeriveEnds, NoJob
<1>6. CASE DeriveFails
  BY <1>6 DEF MadeWell, DeriveFails, NoJob
<1>7. CASE DeriveTimesOut
  <2>1. /\ derivation.pc = "add" /\ derivation.todo # <<>> /\ derivation' = NoJob
        /\ stragglers' = stragglers \cup {Head(derivation.todo)}
    BY <1>7 DEF DeriveTimesOut
  <2>2. WellMade(Head(derivation.todo))
    BY <2>1, PlanShape DEF MadeWell
  <2> QED
    BY <2>1, <2>2 DEF MadeWell, NoJob
<1>8. CASE MemoryCrash
  BY <1>8 DEF MadeWell, MemoryCrash, NoJob
<1>9. ASSUME NEW r \in stragglers, LateInsert(r)
      PROVE  MadeWell'
  BY <1>9 DEF MadeWell, LateInsert, NoJob
<1>10. ASSUME NEW s \in Scope, NEW b \in Budgets, BuildContext(s, b)
      PROVE  MadeWell'
  BY <1>10 DEF MadeWell, BuildContext, NoJob
<1>11. CASE UNCHANGED memoryVars
  BY <1>11 DEF MadeWell, memoryVars
<1> QED
  BY <1>1, <1>2, <1>3, <1>4, <1>5, <1>6, <1>7, <1>8, <1>9, <1>10, <1>11 DEF MemoryNext

\* As long as no timed-out insert is about, a roll replaces the one summary in force.
LEMMA RollsStep ==
  ASSUME MemoryTypeOK, MadeWell, RollsAll, ~overtaken => OneInForce, [MemoryNext]_memoryVars
  PROVE  RollsAll'
<1>1. ASSUME NEW s \in Scope, Say(s)
      PROVE  RollsAll'
  BY <1>1 DEF RollsAll, InForce, Say, NoJob
<1>2. ASSUME NEW s \in Scope, NEW cut \in BOOLEAN, NEW b \in Budgets, StartDerive(s, cut, b)
      PROVE  RollsAll'
  <2>1. PICK sum \in BOOLEAN :
          \E found \in IF sum THEN Found(s, {"summary"}, 1) ELSE {{}} :
            derivation' = [pc |-> "model", scope |-> s, sum |-> sum, found |-> found,
                           turns |-> Bounded(s, sum, found, b).turns,
                           prev |-> Bounded(s, sum, found, b).prev]
    BY <1>2 DEF StartDerive
  <2>2. /\ derivation'.pc = "model" /\ derivation'.scope = s /\ derivation'.sum = sum
        /\ sum => derivation'.found \in Found(s, {"summary"}, 1)
    BY <2>1
  <2>3. UNCHANGED <<records, stragglers, overtaken>>
    BY <1>2 DEF StartDerive
  <2>4. ~overtaken /\ sum => derivation'.found = InForce(s)
    BY <2>2, SearchFindsAll
  <2> QED
    BY <2>2, <2>3, <2>4 DEF RollsAll, InForce
<1>3. ASSUME NEW k \in {"fact", "commitment"}, NEW t \in Text, NEW src \in Citable,
             NEW sum \in BOOLEAN, ModelDerives(k, t, src, sum)
      PROVE  RollsAll'
  <2> DEFINE item == Record(derivation.scope, k, t, Sources(src), {})
             roll == Record(derivation.scope, "summary", t, Merged(derivation.prev),
                            derivation.prev)
  <2>1. /\ derivation.pc = "model" /\ derivation'.pc = "add"
        /\ UNCHANGED <<records, stragglers, overtaken>>
        /\ \/ derivation'.todo = <<>>
           \/ derivation'.todo = <<item>>
           \/ Rolls /\ derivation'.todo = <<roll>>
           \/ Rolls /\ derivation'.todo = <<item, roll>>
    BY <1>3, PlanMade
  <2>2. item.kind # "summary" /\ roll.scope = derivation.scope /\ roll.sup = derivation.prev
    BY DEF Record
  <2>3. ~overtaken /\ Rolls => derivation.prev = InForce(derivation.scope)
    BY <2>1 DEF Rolls, RollsAll, MadeWell
  <2> HIDE DEF item, roll
  <2>4. ASSUME ~overtaken, NEW i \in 1 .. Len(derivation'.todo),
               derivation'.todo[i].kind = "summary"
        PROVE  /\ i = Len(derivation'.todo)
               /\ derivation'.todo[i].sup = InForce(derivation'.todo[i].scope)
    <3>1. CASE derivation'.todo = <<>>
      BY <2>4, <3>1
    <3>2. CASE derivation'.todo = <<item>>
      BY <2>2, <2>4, <3>2
    <3>3. CASE Rolls /\ derivation'.todo = <<roll>>
      BY <2>2, <2>3, <2>4, <3>3
    <3>4. CASE Rolls /\ derivation'.todo = <<item, roll>>
      BY <2>2, <2>3, <2>4, <3>4
    <3> QED
      BY <2>1, <3>1, <3>2, <3>3, <3>4
  <2>5. \A x : InForce(x)' = InForce(x)
    BY <2>1 DEF InForce
  <2> QED
    BY <2>1, <2>4, <2>5 DEF RollsAll
<1>4. CASE AddRecord
  <2> DEFINE plan == derivation.todo
  <2>1. /\ derivation.pc = "add" /\ plan # <<>> /\ UNCHANGED <<stragglers, overtaken>>
        /\ \/ derivation' = [derivation EXCEPT !.todo = Tail(@)]
           \/ derivation' = NoJob
        /\ records' = records \/ records' = Added(Head(plan))
    BY <1>4 DEF AddRecord
  <2>2. CASE derivation' = NoJob
    BY <2>1, <2>2 DEF NoJob, RollsAll
  <2>3. CASE derivation' = [derivation EXCEPT !.todo = Tail(@)]
    <3>1. derivation'.pc = "add" /\ derivation'.todo = Tail(plan)
      BY <2>1, <2>3 DEF MemoryTypeOK
    <3>2. /\ Head(plan) = plan[1]
          /\ \/ Len(plan) = 1 /\ derivation'.todo = <<>>
             \/ Len(plan) = 2 /\ derivation'.todo = <<plan[2]>>
      BY <2>1, <3>1, PlanShape
    <3>3. CASE derivation'.todo = <<>>
      <4>1. \A i \in 1 .. Len(derivation'.todo) : FALSE
        BY <3>3
      <4> QED
        BY <2>1, <3>1, <4>1 DEF RollsAll
    <3>4. CASE Len(plan) = 2 /\ derivation'.todo = <<plan[2]>>
      <4>1. /\ WellMade(plan[1])
            /\ ~overtaken => plan[1].kind # "summary"
            /\ ~overtaken /\ plan[2].kind = "summary" => plan[2].sup = InForce(plan[2].scope)
        <5>1. 1 \in 1 .. Len(plan) /\ 2 \in 1 .. Len(plan) /\ 1 # Len(plan)
          BY <3>4
        <5> QED
          BY <2>1, <5>1 DEF MadeWell, RollsAll
      <4>2. ~overtaken => \A x : InForce(x)' = InForce(x)
        <5>1. CASE records' = records
          BY <5>1 DEF InForce
        <5>2. CASE records' = Added(plan[1])
          BY <4>1, <5>2, ItemKeepsForce
        <5> QED
          BY <2>1, <3>2, <5>1, <5>2
      <4>3. /\ Len(derivation'.todo) = 1 /\ derivation'.todo[1] = plan[2]
            /\ \A i \in 1 .. Len(derivation'.todo) : i = 1
        BY <3>4
      <4>4. stragglers' = stragglers /\ overtaken' = overtaken
        BY <2>1
      <4> HIDE DEF plan
      <4> QED
        BY <3>1, <4>1, <4>2, <4>3, <4>4 DEF RollsAll
    <3> QED
      BY <3>2, <3>3, <3>4
  <2> QED
    BY <2>1, <2>2, <2>3
<1>5. CASE DeriveEnds
  BY <1>5 DEF RollsAll, InForce, DeriveEnds, NoJob
<1>6. CASE DeriveFails
  BY <1>6 DEF RollsAll, InForce, DeriveFails, NoJob
<1>7. CASE DeriveTimesOut
  BY <1>7 DEF RollsAll, InForce, DeriveTimesOut, NoJob
<1>8. CASE MemoryCrash
  BY <1>8 DEF RollsAll, InForce, MemoryCrash, NoJob
<1>9. ASSUME NEW r \in stragglers, LateInsert(r)
      PROVE  RollsAll'
  <2>1. stragglers # {} /\ overtaken' = overtaken
    BY <1>9 DEF LateInsert
  <2> QED
    BY <2>1 DEF RollsAll
<1>10. ASSUME NEW s \in Scope, NEW b \in Budgets, BuildContext(s, b)
      PROVE  RollsAll'
  BY <1>10 DEF RollsAll, InForce, BuildContext, NoJob
<1>11. CASE UNCHANGED memoryVars
  BY <1>11 DEF RollsAll, InForce, memoryVars
<1> QED
  BY <1>1, <1>2, <1>3, <1>4, <1>5, <1>6, <1>7, <1>8, <1>9, <1>10, <1>11 DEF MemoryNext

\* What is in the memory stays covered, and one summary is in force.
LEMMA RecordsStay ==
  ASSUME Covered, ~overtaken => OneInForce, records' = records, ~overtaken' => ~overtaken
  PROVE  Covered' /\ (~overtaken' => OneInForce')
BY DEF Covered, OneInForce

LEMMA RecordsStep ==
  ASSUME MemoryTypeOK, MadeWell, RollsAll, Covered, ~overtaken => OneInForce,
         [MemoryNext]_memoryVars
  PROVE  Covered' /\ (~overtaken' => OneInForce')
<1>1. ASSUME NEW s \in Scope, Say(s)
      PROVE  Covered' /\ (~overtaken' => OneInForce')
  BY <1>1, RecordsStay DEF Say
<1>2. ASSUME NEW s \in Scope, NEW cut \in BOOLEAN, NEW b \in Budgets, StartDerive(s, cut, b)
      PROVE  Covered' /\ (~overtaken' => OneInForce')
  BY <1>2, RecordsStay DEF StartDerive
<1>3. ASSUME NEW k \in {"fact", "commitment"}, NEW t \in Text, NEW src \in Citable,
             NEW sum \in BOOLEAN, ModelDerives(k, t, src, sum)
      PROVE  Covered' /\ (~overtaken' => OneInForce')
  BY <1>3, RecordsStay DEF ModelDerives
<1>4. CASE AddRecord
  <2> DEFINE r == Head(derivation.todo)
  <2>1. /\ derivation.pc = "add" /\ derivation.todo # <<>> /\ UNCHANGED overtaken
        /\ records' = records \/ records' = Added(r)
    BY <1>4 DEF AddRecord
  <2>2. WellMade(r) /\ (~overtaken /\ r.kind = "summary" => r.sup = InForce(r.scope))
    <3>1. r = derivation.todo[1] /\ 1 \in 1 .. Len(derivation.todo)
      BY <2>1, PlanShape
    <3> HIDE DEF r
    <3> QED
      BY <2>1, <3>1 DEF MadeWell, RollsAll
  <2> HIDE DEF r
  <2>3. CASE records' = records
    BY <2>1, <2>3, RecordsStay
  <2>4. CASE records' = Added(r)
    BY <2>1, <2>2, <2>4, AddCovers, AddKeepsOne
  <2> QED
    BY <2>1, <2>3, <2>4
<1>5. CASE DeriveEnds
  BY <1>5, RecordsStay DEF DeriveEnds
<1>6. CASE DeriveFails
  BY <1>6, RecordsStay DEF DeriveFails
<1>7. CASE DeriveTimesOut
  BY <1>7, RecordsStay DEF DeriveTimesOut
<1>8. CASE MemoryCrash
  BY <1>8, RecordsStay DEF MemoryCrash
<1>9. ASSUME NEW r \in stragglers, LateInsert(r)
      PROVE  Covered' /\ (~overtaken' => OneInForce')
  <2>1. /\ WellMade(r) /\ overtaken /\ overtaken' = overtaken
        /\ records' = records \/ records' = Added(r)
    BY <1>9 DEF LateInsert, MadeWell, RollsAll
  <2> QED
    BY <2>1, RecordsStay, AddCovers
<1>10. ASSUME NEW s \in Scope, NEW b \in Budgets, BuildContext(s, b)
      PROVE  Covered' /\ (~overtaken' => OneInForce')
  BY <1>10, RecordsStay DEF BuildContext
<1>11. CASE UNCHANGED memoryVars
  BY <1>11, RecordsStay DEF memoryVars
<1> QED
  BY <1>1, <1>2, <1>3, <1>4, <1>5, <1>6, <1>7, <1>8, <1>9, <1>10, <1>11 DEF MemoryNext

---------------------------------------------------------------------------
(* Memory: the context of a turn.                                          *)

\* What is selected of the commitments: all of them, or as many as there is room for.
LEMMA ContextStep ==
  ASSUME MemoryTypeOK, CommitmentsKept, [MemoryNext]_memoryVars
  PROVE  CommitmentsKept'
<1>1. CASE context' = context
  BY <1>1 DEF CommitmentsKept
<1>2. CASE context' = NoContext
  BY <1>2 DEF CommitmentsKept, NoContext
<1>3. ASSUME NEW s \in Scope, NEW b \in Budgets, BuildContext(s, b)
      PROVE  CommitmentsKept'
  <2> DEFINE Built(c, o, t) ==
               \/ context' = [chosen |-> Select(c, o, t, b - 1), offered |-> Cardinality(c),
                              room |-> b - 1]
               \/ context' = [chosen |-> Select({}, {}, t, b - 1), offered |-> 0,
                              room |-> b - 1]
  <2>0. PICK c \in SUBSET records : \E o, t : Built(c, o, t)
    BY <1>3 DEF BuildContext, Found
  <2>1. PICK o, t : Built(c, o, t)
    BY <2>0
  <2>2. b - 1 \in Nat
    BY <1>3, MemoryAssumption DEF BuildContext
  <2>3. Cardinality(c) \in Nat /\ Cardinality({}) = 0
    BY FS_Subset, FS_CardinalityType, FS_EmptySet DEF MemoryTypeOK
  <2>4. \A S, u, v : Select(S, u, v, b - 1).commitments = Least(Cardinality(S), b - 1)
    BY DEF Select
  <2>5. CASE context' = [chosen |-> Select(c, o, t, b - 1), offered |-> Cardinality(c),
                         room |-> b - 1]
    <3>1. /\ context'.chosen.commitments = Least(Cardinality(c), b - 1)
          /\ context'.offered = Cardinality(c) /\ context'.room = b - 1
      BY <2>4, <2>5
    <3> QED
      BY <2>2, <2>3, <3>1 DEF Least, CommitmentsKept
  <2>6. CASE context' = [chosen |-> Select({}, {}, t, b - 1), offered |-> 0, room |-> b - 1]
    <3>1. /\ context'.chosen.commitments = Least(0, b - 1)
          /\ context'.offered = 0 /\ context'.room = b - 1
      BY <2>3, <2>4, <2>6
    <3> QED
      BY <2>2, <3>1 DEF Least, CommitmentsKept
  <2> QED
    BY <2>1, <2>5, <2>6
<1>4. context' \in {context, NoContext} \/ \E s \in Scope, b \in Budgets : BuildContext(s, b)
  BY DEF MemoryNext, memoryVars, Say, StartDerive, ModelDerives, AddRecord, DeriveEnds,
         DeriveFails, DeriveTimesOut, MemoryCrash, LateInsert
<1> QED
  BY <1>1, <1>2, <1>3, <1>4

---------------------------------------------------------------------------
(* Memory: the theorems.                                                   *)

LEMMA SummaryParts == SummaryCovers <=> Covered /\ (~overtaken => OneInForce)
BY DEF SummaryCovers, Covered, OneInForce

\* Records, plans of a derivation and the context stay in step for any conversations, texts,
\* thresholds, budgets and timeouts.
THEOREM MemoryInvariant == MemorySpec => []MemoryInv
<1>1. MemoryInit => MemoryInv
  <2> SUFFICES ASSUME MemoryInit PROVE MemoryInv
    OBVIOUS
  <2>1. records = {} /\ stragglers = {} /\ derivation.pc = "idle" /\ overtaken = FALSE
    BY DEF MemoryInit, NoJob
  <2>2. MemoryTypeOK
    BY <2>1, FS_EmptySet DEF MemoryTypeOK
  <2>3. MadeWell /\ RollsAll /\ SummaryCovers
    BY <2>1 DEF MadeWell, RollsAll, SummaryCovers
  <2>4. CommitmentsKept
    BY DEF MemoryInit, NoContext, CommitmentsKept
  <2> QED
    BY <2>2, <2>3, <2>4 DEF MemoryInv
<1>2. MemoryInv /\ [MemoryNext]_memoryVars => MemoryInv'
  <2> SUFFICES ASSUME MemoryInv, [MemoryNext]_memoryVars PROVE MemoryInv'
    OBVIOUS
  <2>1. Covered /\ (~overtaken => OneInForce)
    BY SummaryParts DEF MemoryInv
  <2>2. MemoryTypeOK' /\ MadeWell' /\ RollsAll' /\ CommitmentsKept'
    BY <2>1, MemoryTypeStep, MadeStep, RollsStep, ContextStep DEF MemoryInv
  <2>3. Covered' /\ (~overtaken' => OneInForce')
    BY <2>1, RecordsStep DEF MemoryInv
  <2>4. SummaryCovers'
    BY <2>3 DEF SummaryCovers, Covered, OneInForce
  <2> QED
    BY <2>2, <2>4 DEF MemoryInv
<1> QED
  BY <1>1, <1>2, PTL DEF MemorySpec

\* Rolling forgets nothing, for any number of conversations, derivations and messages.
THEOREM RollingForgetsNothing == MemorySpec => []SummaryCovers
<1>1. MemoryInv => SummaryCovers
  BY DEF MemoryInv
<1> QED
  BY <1>1, MemoryInvariant, PTL

\* No retrieved commitment is crowded out, for any budget and any hits.
THEOREM CommitmentsComeFirst == MemorySpec => []CommitmentsKept
<1>1. MemoryInv => CommitmentsKept
  BY DEF MemoryInv
<1> QED
  BY <1>1, MemoryInvariant, PTL
=============================================================================
