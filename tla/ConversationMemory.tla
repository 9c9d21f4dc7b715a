------------------------- MODULE ConversationMemory -------------------------
(***************************************************************************)
(* Long-term memory: the derivation of facts and of the rolling summary    *)
(* after a turn (memory/derivation.py, pipeline._maintain_memory_best_     *)
(* effort), the store (memory/sqlite_store.py) and the selection of a      *)
(* bounded context (memory/context.py, pipeline._prepare_context).         *)
(*                                                                         *)
(* A message is its scope and number; an exchange of user and assistant is *)
(* one message here.  A record's id is what it is hashed from: scope, kind,*)
(* text and sources.  Every record and every turn costs a constant amount  *)
(* of context; the budget is what differs from call to call.               *)
(***************************************************************************)
EXTENDS Naturals, FiniteSets, Sequences

CONSTANTS
  Scope,        \* conversations
  Text,         \* texts the memory model may write
  Recent,       \* recent_messages: how many messages a derivation sees
  Threshold,    \* memory_summary_turn_threshold
  Budgets,      \* what fits in a call, in messages
  MemoryLimit,  \* memory_limit: how many hits of each search
  MaxMessages,  \* bound: messages of all scopes together
  MaxDerived    \* bound: derivations

ASSUME MemoryAssumption == MemoryLimit \in Nat /\ Budgets \subseteq Nat

Kind == {"fact", "commitment", "summary"}
NoContext ==
  [chosen |-> [commitments |-> 0, others |-> 0, turns |-> {}], offered |-> 0, room |-> 0]

VARIABLES
  said,         \* said[s]: number of messages of scope s
  records,      \* memory_records
  derivation,          \* the derivation in progress
  stragglers,         \* inserts that go on in a thread after their derivation timed out
  context,      \* the last context that was built
  derived,      \* derivations so far
  overtaken     \* history: an insert went on after its derivation had ended

memoryVars == <<said, records, derivation, stragglers, context, derived, overtaken>>

NoJob == [pc |-> "idle"]
Record(s, k, t, src, sup) ==
  [scope |-> s, kind |-> k, text |-> t, src |-> src, sup |-> sup, active |-> TRUE]
SameId(r, q) ==
  r.scope = q.scope /\ r.kind = q.kind /\ r.text = q.text /\ r.src = q.src
Least(m, n) == IF m < n THEN m ELSE n

---------------------------------------------------------------------------
(* The store.                                                              *)

\* search: active records of the scope and of the kinds, at most limit of them.
Found(s, kinds, limit) ==
  LET hits == {r \in records : r.scope = s /\ r.active /\ r.kind \in kinds}
  IN {h \in SUBSET hits : Cardinality(h) = Least(limit, Cardinality(hits))}

\* add: one transaction; what it supersedes is there, of this scope and still active.
CanAdd(r) ==
  /\ ~\E q \in records : SameId(q, r)
  /\ \A o \in r.sup : \E q \in records : SameId(q, o) /\ q.active /\ q.scope = r.scope
Added(r) ==
  {IF \E o \in r.sup : SameId(q, o) THEN [q EXCEPT !.active = FALSE] ELSE q : q \in records}
    \cup {r}

---------------------------------------------------------------------------
(* A derivation.                                                           *)

\* The last messages of a scope, the newest of them last.
Latest(s) == {<<s, n>> : n \in {i \in 1 .. said[s] : i + Recent > said[s]}}
Newest(s) == <<s, said[s]>>
Oldest(S, k) == {x \in S : Cardinality({y \in S : y[2] < x[2]}) < k}
Last(S, k) == {x \in S : Cardinality({y \in S : y[2] > x[2]}) < k}

\* _bounded_input: what is summarised already goes, except the current exchange; then the
\* newest of the rest (for a summary) or the oldest, then the previous summary.
Bounded(s, sum, prev, budget) ==
  LET all == {x \in Latest(s) : x = Newest(s) \/ \A p \in prev : x \notin p.src}
      room == budget - Cardinality(prev) - 1
  IN IF room >= 0
     THEN [turns |-> {Newest(s)} \cup (IF sum THEN Oldest(all \ {Newest(s)}, room)
                                              ELSE Last(all \ {Newest(s)}, room)),
           prev |-> prev]
     ELSE [turns |-> {Newest(s)}, prev |-> {}]

\* One derivation at a time, after a delivered reply of the conversation.
MayDerive(s) == derivation = NoJob /\ said[s] > 0 /\ derived < MaxDerived

\* A summary is asked for when the context was cut, or from so many messages on.
StartDerive(s, cut, budget) ==
  /\ MayDerive(s)
  /\ LET sum == cut \/ Cardinality(Latest(s)) >= Threshold
     IN \E found \in IF sum THEN Found(s, {"summary"}, 1) ELSE {{}} :
          LET b == Bounded(s, sum, found, budget)
          IN derivation' = [pc |-> "model", scope |-> s, sum |-> sum, found |-> found,
                            turns |-> b.turns, prev |-> b.prev]
  /\ derived' = derived + 1 /\ context' = NoContext
  /\ UNCHANGED <<said, records, stragglers, overtaken>>

\* Only messages that were in the request count as sources.
Sources(src) == IF src \subseteq derivation.turns THEN src ELSE {}

\* A summary that could not be merged is not rolled.
Rolls == derivation.sum /\ (derivation.found = {} \/ derivation.prev # {})

\* Mutant: the sources are those of this request.
MergedLost(prev) == derivation.turns

\* The sources of a merged summary.
Merged(prev) == derivation.turns \cup UNION {p.src : p \in prev}

\* The payload: at most one item here, with the sources it cites, and perhaps a summary.
ModelDerives(kind, text, src, summary) ==
  /\ derivation.pc = "model"
  /\ LET item == IF Sources(src) = {} THEN <<>>
                 ELSE <<Record(derivation.scope, kind, text, Sources(src), {})>>
         roll == IF summary /\ Rolls
                 THEN <<Record(derivation.scope, "summary", text, Merged(derivation.prev),
                               derivation.prev)>>
                 ELSE <<>>
     IN derivation' = [pc |-> "add", todo |-> item \o roll]
  /\ UNCHANGED <<said, records, stragglers, context, derived, overtaken>>

\* _add_idempotently: get, and the insert if it is not there; a refused insert ends it all.
AddRecord ==
  /\ derivation.pc = "add" /\ derivation.todo # <<>>
  /\ LET r == Head(derivation.todo)
     IN IF \E q \in records : SameId(q, r)
        THEN derivation' = [derivation EXCEPT !.todo = Tail(@)] /\ UNCHANGED records
        ELSE IF CanAdd(r)
        THEN records' = Added(r) /\ derivation' = [derivation EXCEPT !.todo = Tail(@)]
        ELSE derivation' = NoJob /\ UNCHANGED records
  /\ UNCHANGED <<said, stragglers, context, derived, overtaken>>

DeriveEnds ==
  /\ derivation.pc = "add" /\ derivation.todo = <<>>
  /\ derivation' = NoJob
  /\ UNCHANGED <<said, records, stragglers, context, derived, overtaken>>

\* No answer, an answer that is not valid, or the timeout: the failure is ignored.
DeriveFails ==
  /\ derivation.pc = "model"
  /\ derivation' = NoJob
  /\ UNCHANGED <<said, records, stragglers, context, derived, overtaken>>

\* The timeout during an insert: the derivation ends, the thread with the insert does not.
DeriveTimesOut ==
  /\ derivation.pc = "add" /\ derivation.todo # <<>>
  /\ ~\E q \in records : SameId(q, Head(derivation.todo))
  /\ stragglers' = stragglers \cup {Head(derivation.todo)}
  /\ derivation' = NoJob /\ overtaken' = TRUE
  /\ UNCHANGED <<said, records, context, derived>>

LateInsert(r) ==
  /\ r \in stragglers
  /\ stragglers' = stragglers \ {r}
  /\ records' = IF CanAdd(r) THEN Added(r) ELSE records
  /\ UNCHANGED <<said, derivation, context, derived, overtaken>>

\* The process stops: a transaction is done or is not.
MemoryCrash ==
  /\ derivation # NoJob \/ stragglers # {}
  /\ derivation' = NoJob /\ stragglers' = {}
  /\ UNCHANGED <<said, records, context, derived, overtaken>>

---------------------------------------------------------------------------
(* The context of a turn.                                                  *)

\* Mutant: recent messages take their room first.
SelectTurnsFirst(commitments, others, turns, room) ==
  LET t == Least(Cardinality(turns), room)
      c == Least(Cardinality(commitments), room - t)
      o == Least(Cardinality(others), room - t - c)
  IN [commitments |-> c, others |-> o, turns |-> Last(turns, t)]

\* ContextBuilder.build: commitments, then other hits, then the newest messages, as they fit.
Select(commitments, others, turns, room) ==
  LET c == Least(Cardinality(commitments), room)
      o == Least(Cardinality(others), room - c)
      t == Least(Cardinality(turns), room - c - o)
  IN [commitments |-> c, others |-> o, turns |-> Last(turns, t)]

\* The current message always stands; a search that fails leaves a context without memory.
BuildContext(s, budget) ==
  /\ derivation = NoJob /\ said[s] > 0 /\ budget >= 1
  /\ \E hits \in Found(s, Kind, MemoryLimit) :
     \E duties \in Found(s, {"commitment"}, MemoryLimit) :
       LET c == duties \cup {r \in hits : r.kind = "commitment"}
           o == {r \in hits : r.kind # "commitment"}
           t == Latest(s) \ {Newest(s)}
       IN \/ context' = [chosen |-> Select(c, o, t, budget - 1), offered |-> Cardinality(c),
                         room |-> budget - 1]
          \/ context' = [chosen |-> Select({}, {}, t, budget - 1), offered |-> 0,
                         room |-> budget - 1]
  /\ UNCHANGED <<said, records, derivation, stragglers, derived, overtaken>>

\* The next message of a conversation is processed when the derivation before it has ended.
Say(s) ==
  /\ derivation = NoJob
  /\ Cardinality({x \in Scope \X (1 .. MaxMessages) : x[2] <= said[x[1]]}) < MaxMessages
  /\ said' = [said EXCEPT ![s] = @ + 1] /\ context' = NoContext
  /\ UNCHANGED <<records, derivation, stragglers, derived, overtaken>>

---------------------------------------------------------------------------
MemoryInit ==
  /\ said = [s \in Scope |-> 0] /\ records = {} /\ derivation = NoJob /\ stragglers = {}
  /\ context = NoContext /\ derived = 0 /\ overtaken = FALSE

\* What an answer may cite: any one message, one that it was not given included.
Citable == {{<<s, n>>} : s \in Scope, n \in 1 .. MaxMessages}

MemoryNext ==
  \/ \E s \in Scope : Say(s)
  \/ \E s \in Scope, cut \in BOOLEAN, b \in Budgets : StartDerive(s, cut, b)
  \/ \E k \in {"fact", "commitment"}, t \in Text, src \in Citable, sum \in BOOLEAN :
       ModelDerives(k, t, src, sum)
  \/ AddRecord \/ DeriveEnds \/ DeriveFails \/ DeriveTimesOut \/ MemoryCrash
  \/ \E r \in stragglers : LateInsert(r)
  \/ \E s \in Scope, b \in Budgets : BuildContext(s, b)

MemorySpec == MemoryInit /\ [][MemoryNext]_memoryVars

---------------------------------------------------------------------------
(* Properties.                                                             *)

\* Rolling a summary forgets nothing: a record's sources are messages of its own conversation,
\* what a replaced summary was made of is among the sources of the one that replaced it, and
\* there is one active summary even when the previous one did not fit in the request (unless a
\* timed-out insert went on beside the next derivation).
SummaryCovers ==
  /\ \A r \in records :
       /\ \A x \in r.src : x[1] = r.scope
       /\ r.active \/ \E q \in records :
            /\ q.kind = "summary" /\ q.scope = r.scope /\ r.src \subseteq q.src
            /\ \E o \in q.sup : SameId(o, r)
  /\ ~overtaken =>
       \A r, q \in records :
         /\ r.kind = "summary" /\ q.kind = "summary" /\ r.active /\ q.active
         /\ r.scope = q.scope
         => r = q

\* An open commitment that was retrieved is left out only when other commitments fill the
\* whole room: neither other memories nor recent messages crowd it out.
CommitmentsKept ==
  context.chosen.commitments < context.offered =>
    context.chosen.commitments = context.room

---------------------------------------------------------------------------
(* The inductive invariant of the proofs.                                  *)

\* Records keep their shape, and an insertion plan has at most an item and a summary.
MemoryTypeOK ==
  /\ IsFiniteSet(records) /\ overtaken \in BOOLEAN
  /\ \A r \in records :
       /\ r = [scope |-> r.scope, kind |-> r.kind, text |-> r.text, src |-> r.src, sup |-> r.sup,
               active |-> r.active]
       /\ r.active \in BOOLEAN
  /\ derivation.pc \in {"idle", "model", "add"}
  /\ derivation.pc = "add" =>
       LET todo == derivation.todo
       IN /\ derivation = [pc |-> "add", todo |-> todo]
          /\ todo = <<>> \/ todo = <<todo[1]>> \/ todo = <<todo[1], todo[2]>>

\* A record about to be inserted is made from its own conversation, and covers what it replaces.
WellMade(r) ==
  /\ r = Record(r.scope, r.kind, r.text, r.src, r.sup)
  /\ \A x \in r.src : x[1] = r.scope
  /\ \A o \in r.sup : r.kind = "summary" /\ o.scope = r.scope /\ o.src \subseteq r.src

\* What a derivation works on belongs to its conversation.
MadeWell ==
  /\ \A r \in stragglers : WellMade(r)
  /\ derivation.pc = "add" =>
       \A i \in 1 .. Len(derivation.todo) : WellMade(derivation.todo[i])
  /\ derivation.pc = "model" =>
       /\ \A x \in derivation.turns : x[1] = derivation.scope
       /\ derivation.prev = {} \/ derivation.prev = derivation.found
       /\ \A o \in derivation.found :
            o.scope = derivation.scope /\ \A x \in o.src : x[1] = o.scope

\* The summaries in force in a conversation; a roll replaces exactly these.
InForce(s) == {r \in records : r.scope = s /\ r.kind = "summary" /\ r.active}
RollsAll ==
  ~overtaken =>
    /\ stragglers = {}
    /\ derivation.pc = "model" /\ derivation.sum =>
         derivation.found = InForce(derivation.scope)
    /\ derivation.pc = "add" =>
         \A i \in 1 .. Len(derivation.todo) :
           derivation.todo[i].kind = "summary" =>
             /\ i = Len(derivation.todo)
             /\ derivation.todo[i].sup = InForce(derivation.todo[i].scope)

MemoryInv == MemoryTypeOK /\ MadeWell /\ RollsAll /\ SummaryCovers /\ CommitmentsKept
=============================================================================
