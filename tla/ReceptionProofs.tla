-------------------------- MODULE ReceptionProofs --------------------------
(* Theorems about the ways to the WeChat client: the observer of the       *)
(* transcript, for every set of texts; the desktop probe, for every set of *)
(* layouts; and the feed of messages, for every set of chats, tables and   *)
(* whitelists.                                                             *)
EXTENDS AtspiObserver, DesktopProbe, MessageFeed, FiniteSetTheorems, WellFoundedInduction, TLAPS

---------------------------------------------------------------------------
(* The observer of the transcript.                                         *)

\* The place an alignment finds shows the text the cursor's tail ends with.
LEMMA AlignedPlace ==
  ASSUME NEW S, NEW prev \in Seq(S), NEW cur \in Seq(S), prev # <<>>,
         NEW k \in Aligned(prev, cur)
  PROVE  k \in 1 .. Len(cur) /\ cur[k] = prev[Len(prev)]
<1>1. k \in 1 .. Len(cur)
  BY DEF Aligned
<1>2. PICK n \in 1 .. Smaller(k, Len(prev)) : Matches(prev, cur, n) = {k - n}
  BY DEF Aligned
<1>3. n \in 1 .. k /\ n \in 1 .. Len(prev)
  BY <1>1, <1>2 DEF Smaller
<1>4. SubSeq(cur, (k - n) + 1, (k - n) + n)
        = SubSeq(prev, Len(prev) - n + 1, Len(prev))
  <2>1. k - n \in Matches(prev, cur, n)
    BY <1>2
  <2> QED
    BY <2>1 DEF Matches
<1>5. SubSeq(cur, (k - n) + 1, (k - n) + n)[n] = cur[k]
  BY <1>1, <1>3
<1>6. SubSeq(prev, Len(prev) - n + 1, Len(prev))[n] = prev[Len(prev)]
  BY <1>3
<1> QED
  BY <1>1, <1>4, <1>5, <1>6

\* The end of a sequence ends as the sequence does.
LEMMA LastOfEnds ==
  ASSUME NEW S, NEW s \in Seq(S), NEW n \in Nat \ {0}
  PROVE  /\ LastOf(s, n) \in Seq(S)
         /\ s = <<>> => LastOf(s, n) = <<>>
         /\ s # <<>> =>
              LastOf(s, n) # <<>> /\ LastOf(s, n)[Len(LastOf(s, n))] = s[Len(s)]
<1> DEFINE m == Smaller(n, Len(s))
<1>1. m \in Nat /\ m <= Len(s) /\ (s # <<>> => m > 0)
  BY DEF Smaller
<1>2. LastOf(s, n) \in Seq(S) /\ Len(LastOf(s, n)) = m
      /\ \A i \in 1 .. m : LastOf(s, n)[i] = s[(Len(s) - m) + i]
  <2>1. LastOf(s, n) = SubSeq(s, Len(s) - m + 1, Len(s))
    BY DEF LastOf
  <2> HIDE DEF m
  <2>2. Len(s) \in Nat /\ Len(s) - m \in Nat
    BY <1>1
  <2> QED
    BY <1>1, <2>1, <2>2
<1>3. s = <<>> => LastOf(s, n) = <<>>
  <2> SUFFICES ASSUME s = <<>> PROVE LastOf(s, n) = <<>>
    OBVIOUS
  <2>1. Len(LastOf(s, n)) = 0
    BY <1>1, <1>2
  <2> QED
    BY <1>2, <2>1
<1>4. s # <<>> => LastOf(s, n) # <<>> /\ LastOf(s, n)[m] = s[Len(s)]
  <2> HIDE DEF m
  <2> SUFFICES ASSUME s # <<>> PROVE LastOf(s, n) # <<>> /\ LastOf(s, n)[m] = s[Len(s)]
    OBVIOUS
  <2>1. m \in 1 .. m /\ (Len(s) - m) + m = Len(s)
    BY <1>1
  <2> QED
    BY <1>1, <1>2, <2>1
<1> QED
  BY <1>2, <1>3, <1>4

\* The fingerprints of positions.
LEMMA FingerprintsType ==
  ASSUME transcript \in Seq(Fingerprint), NEW s \in Seq(Positions)
  PROVE  /\ Fingerprints(s) \in Seq(Fingerprint) /\ Len(Fingerprints(s)) = Len(s)
         /\ \A i \in 1 .. Len(s) : Fingerprints(s)[i] = transcript[s[i]]
<1>1. \A i \in 1 .. Len(s) : transcript[s[i]] \in Fingerprint
  BY DEF Positions
<1> QED
  BY <1>1 DEF Fingerprints

\* Texts grow with the next position.
LEMMA TextsStep ==
  ASSUME transcript \in Seq(Fingerprint), NEW i \in Nat, NEW j \in Nat, i <= j,
         j + 1 \in Positions
  PROVE  Append(Texts(i, j), transcript[j + 1]) = Texts(i, j + 1)
<1>1. Texts(i, j) \in Seq(Fingerprint) /\ Len(Texts(i, j)) = j - i
  BY DEF Texts, Positions
<1>2. Len(Append(Texts(i, j), transcript[j + 1])) = (j + 1) - i
  BY <1>1 DEF Positions
<1>3. \A n \in 1 .. (j + 1) - i :
        Append(Texts(i, j), transcript[j + 1])[n] = Texts(i, j + 1)[n]
  BY <1>1 DEF Texts, Positions
<1>4. Append(Texts(i, j), transcript[j + 1]) \in Seq(Fingerprint)
  BY <1>1 DEF Positions
<1>5. Texts(i, j + 1) \in Seq(Fingerprint) /\ Len(Texts(i, j + 1)) = (j + 1) - i
  BY DEF Texts, Positions
<1> QED
  BY <1>2, <1>3, <1>4, <1>5

\* What is shown are positions that follow one another.
LEMMA ShownIsRun ==
  ASSUME ObserverTypeOK
  PROVE  Shown \in Seq(Positions) /\ IsRun(Shown)
<1> DEFINE n == Smaller(Visible, Len(transcript) - top + 1)
<1>1. top \in Nat /\ top >= 1 /\ Len(transcript) \in Nat
  BY DEF ObserverTypeOK
<1>2. n \in Int /\ n <= Len(transcript) - top + 1
  <2>1. Visible \in Int
    BY ObserverAssumption
  <2>2. Len(transcript) - top + 1 \in Int
    BY <1>1
  <2> QED
    BY <2>1, <2>2 DEF Smaller
<1>3. Shown = [i \in 1 .. n |-> top + i - 1]
  BY DEF Shown
<1>4. \A i \in 1 .. n : top + i - 1 \in Positions
  BY <1>1, <1>2 DEF Positions
<1> HIDE DEF n
<1>5. Shown \in Seq(Positions) /\ \A i \in 1 .. Len(Shown) : Shown[i] = top + i - 1
  <2>1. CASE n >= 0
    BY <1>2, <1>3, <1>4, <2>1
  <2>2. CASE n < 0
    <3>1. 1 .. n = {} /\ 1 .. 0 = {}
      BY <1>2, <2>2
    <3>2. Shown = [i \in 1 .. 0 |-> top + i - 1]
      BY <1>3, <3>1
    <3> QED
      BY <3>1, <3>2
  <2> QED
    BY <1>2, <2>1, <2>2
<1> QED
  BY <1>1, <1>5 DEF IsRun

\* Start and failure of the sandbox, and scrolling, leave the record alone.
LEMMA ViewMoves ==
  ASSUME ObserverInv,
         \/ StartProxy \/ StartWorker \/ Handshake \/ SandboxFails
         \/ \E n \in 1 .. MaxItems : Scroll(n)
  PROVE  ObserverInv'
<1>1. /\ UNCHANGED <<transcript, pipe, saved, handling, paused, events, baseline, partial,
                     strayed, crashes>>
      /\ top' \in Nat \ {0} /\ disturbed' \in Nat
      /\ sandbox' \in {"none", "proxy", "worker", "ready", "failed"}
  <2>1. top \in Nat \ {0} /\ disturbed \in Nat
        /\ sandbox \in {"none", "proxy", "worker", "ready", "failed"}
    BY DEF ObserverInv, ObserverTypeOK
  <2>2. CASE StartProxy \/ StartWorker \/ Handshake \/ SandboxFails
    BY <2>1, <2>2 DEF StartProxy, StartWorker, Handshake, SandboxFails, view, marks
  <2>3. CASE \E n \in 1 .. MaxItems : Scroll(n)
    BY <2>1, <2>3, ObserverAssumption DEF Scroll
  <2> QED
    BY <2>2, <2>3
<1>2. ObserverTypeOK'
  BY <1>1 DEF ObserverInv, ObserverTypeOK, Positions, saved, handling
<1>3. CursorInv'
  BY <1>1 DEF ObserverInv, CursorInv, saved, handling
<1>4. strayed' => \E i, j \in Positions' : i # j /\ transcript'[i] = transcript'[j]
  BY <1>1 DEF ObserverInv, Positions
<1>5. CountsFromBaseline => CountsFromBaseline'
  BY <1>1 DEF CountsFromBaseline, IsRun, Texts, RecordedTo, saved, handling
<1> QED
  BY <1>1, <1>2, <1>3, <1>4, <1>5 DEF ObserverInv

\* A snapshot on its way, whole or without an item.
LEMMA SnapshotTaken ==
  ASSUME ObserverInv, TakeSnapshot \/ \E i \in 1 .. Visible : TakePartial(i)
  PROVE  ObserverInv'
<1> USE DEF ObserverInv
<1>1. PICK s : /\ pipe' = Append(pipe, s) /\ s \in Seq(Positions)
               /\ ~partial' => IsRun(s) /\ ~partial
               /\ partial' \in BOOLEAN /\ disturbed' \in Nat
  <2>1. CASE TakeSnapshot
    BY <2>1, ShownIsRun DEF TakeSnapshot, ObserverTypeOK, marks
  <2>2. ASSUME NEW i \in 1 .. Visible, TakePartial(i)
        PROVE  /\ pipe' = Append(pipe, SubSeq(Shown, 1, i - 1)
                                         \o SubSeq(Shown, i + 1, Len(Shown)))
               /\ SubSeq(Shown, 1, i - 1) \o SubSeq(Shown, i + 1, Len(Shown)) \in Seq(Positions)
               /\ partial' = TRUE /\ disturbed' \in Nat
    <3>1. Shown \in Seq(Positions) /\ i <= Len(Shown) /\ i \in Nat /\ i > 0
      BY <2>2, ShownIsRun, ObserverAssumption DEF TakePartial
    <3>2. SubSeq(Shown, 1, i - 1) \in Seq(Positions)
      BY <3>1
    <3>3. SubSeq(Shown, i + 1, Len(Shown)) \in Seq(Positions)
      BY <3>1
    <3>4. partial' = TRUE /\ disturbed' \in Nat
      BY <2>2 DEF TakePartial, ObserverTypeOK
    <3> QED
      BY <2>2, <3>2, <3>3, <3>4 DEF TakePartial
  <2> QED
    BY <2>1, <2>2
<1>2. UNCHANGED <<transcript, top, sandbox, saved, handling, paused, events, baseline, strayed,
                  crashes>>
  BY DEF TakeSnapshot, TakePartial, view, marks
<1>3. pipe' \in Seq(Seq(Positions)) /\ Len(pipe') = Len(pipe) + 1
  BY <1>1 DEF ObserverTypeOK
<1>4. ObserverTypeOK'
  BY <1>1, <1>2, <1>3 DEF ObserverTypeOK, Positions, saved, handling
<1>5. CursorInv'
  BY <1>2 DEF CursorInv, saved, handling
<1>6. strayed' => \E i, j \in Positions' : i # j /\ transcript'[i] = transcript'[j]
  BY <1>2 DEF Positions
<1>7. ASSUME ~partial', ~strayed' PROVE CountsFromBaseline'
  <2>1. CountsFromBaseline /\ IsRun(s)
    BY <1>1, <1>2, <1>7
  <2>2. \A i \in 1 .. Len(pipe') : IsRun(pipe'[i])
    <3> SUFFICES ASSUME NEW i \in 1 .. Len(pipe') PROVE IsRun(pipe'[i])
      OBVIOUS
    <3>1. CASE i = Len(pipe) + 1
      BY <1>1, <2>1, <3>1 DEF ObserverTypeOK
    <3>2. CASE i # Len(pipe) + 1
      <4>1. i \in 1 .. Len(pipe)
        BY <1>3, <3>2 DEF ObserverTypeOK
      <4>2. pipe'[i] = pipe[i]
        BY <1>1, <4>1 DEF ObserverTypeOK
      <4> QED
        BY <2>1, <4>1, <4>2 DEF CountsFromBaseline
    <3> QED
      BY <3>1, <3>2
  <2> QED
    BY <1>2, <2>1, <2>2 DEF CountsFromBaseline, IsRun, Texts, RecordedTo, saved, handling
<1> QED
  BY <1>4, <1>5, <1>6, <1>7

\* Without its first snapshot the pipe holds what it held.
LEMMA PipeShrinks ==
  ASSUME NEW S, NEW q \in Seq(S), q # <<>>
  PROVE  /\ Head(q) \in S /\ Head(q) = q[1] /\ 1 \in 1 .. Len(q)
         /\ Tail(q) \in Seq(S)
         /\ \A i \in 1 .. Len(Tail(q)) : i + 1 \in 1 .. Len(q) /\ Tail(q)[i] = q[i + 1]
OBVIOUS

\* A snapshot that is refused, or not aligned.
LEMMA SnapshotDropped ==
  ASSUME ObserverInv, RejectSnapshot \/ Misaligned
  PROVE  ObserverInv'
<1> USE DEF ObserverInv
<1>1. /\ pipe # <<>> /\ pipe' = Tail(pipe) /\ paused' = TRUE
      /\ UNCHANGED <<transcript, top, sandbox, saved, handling, events, baseline,
                     disturbed, partial, strayed, crashes>>
  BY DEF RejectSnapshot, Misaligned, view, marks
<1>2. /\ pipe' \in Seq(Seq(Positions))
      /\ \A i \in 1 .. Len(pipe') : i + 1 \in 1 .. Len(pipe) /\ pipe'[i] = pipe[i + 1]
  BY <1>1, PipeShrinks DEF ObserverTypeOK
<1>3. ObserverTypeOK'
  BY <1>1, <1>2 DEF ObserverTypeOK, Positions, saved, handling
<1>4. CursorInv'
  BY <1>1 DEF CursorInv, saved, handling
<1>5. strayed' => \E i, j \in Positions' : i # j /\ transcript'[i] = transcript'[j]
  BY <1>1 DEF Positions
<1>6. ASSUME CountsFromBaseline PROVE CountsFromBaseline'
  <2>1. \A i \in 1 .. Len(pipe') : IsRun(pipe'[i])
    BY <1>2, <1>6 DEF CountsFromBaseline
  <2> QED
    BY <1>1, <1>6, <2>1 DEF CountsFromBaseline, IsRun, Texts, RecordedTo, saved, handling
<1> QED
  BY <1>1, <1>3, <1>4, <1>5, <1>6

\* A snapshot is taken in hand where its overlap ends.
LEMMA SnapshotAligned ==
  ASSUME ObserverInv, Align
  PROVE  ObserverInv'
<1> USE DEF ObserverInv
<1> DEFINE s == Head(pipe)
<1>1. PICK k \in Aligned(tail, Fingerprints(s)) :
        /\ work' = s /\ at' = k + 1 /\ hash' = chain
        /\ baseline' = IF tail = <<>> /\ s # <<>> THEN s[Len(s)] ELSE baseline
        /\ strayed' = (strayed \/ (tail # <<>> /\ s[k] # upto))
  BY DEF Align
<1>2. /\ pipe # <<>> /\ pipe' = Tail(pipe)
      /\ UNCHANGED <<transcript, top, sandbox, saved, paused, events, disturbed,
                     partial, crashes>>
  BY DEF Align, view
<1>3. /\ s \in Seq(Positions) /\ s = pipe[1] /\ 1 \in 1 .. Len(pipe)
      /\ pipe' \in Seq(Seq(Positions))
      /\ \A i \in 1 .. Len(pipe') : i + 1 \in 1 .. Len(pipe) /\ pipe'[i] = pipe[i + 1]
  BY <1>2, PipeShrinks DEF ObserverTypeOK
<1> HIDE DEF s
<1>4. /\ Fingerprints(s) \in Seq(Fingerprint) /\ Len(Fingerprints(s)) = Len(s)
      /\ \A i \in 1 .. Len(s) : Fingerprints(s)[i] = transcript[s[i]]
  BY <1>3, FingerprintsType DEF ObserverTypeOK
<1>7. Positions' = Positions /\ Len(transcript') = Len(transcript)
  BY <1>2 DEF Positions
<1>5. CASE tail = <<>>
  <2>1. k = Len(s) /\ at' = Len(s) + 1 /\ strayed' = strayed
    <3>1. k = Len(s)
      BY <1>4, <1>5 DEF Aligned
    <3>2. at' = Len(s) + 1
      BY <1>1, <3>1
    <3>3. strayed' = strayed
      BY <1>1, <1>5 DEF ObserverTypeOK
    <3> QED
      BY <3>1, <3>2, <3>3
  <2>2. baseline' \in 0 .. Len(transcript)
    <3>1. CASE s = <<>>
      BY <1>1, <3>1 DEF ObserverTypeOK
    <3>2. CASE s # <<>>
      <4>1. Len(s) \in 1 .. Len(s)
        BY <1>3, <3>2
      <4>2. s[Len(s)] \in Positions
        BY <1>3, <4>1
      <4> QED
        BY <1>1, <1>5, <3>2, <4>2 DEF ObserverTypeOK, Positions
    <3> QED
      BY <3>1, <3>2
  <2>3. ObserverTypeOK'
    <3>1. work' \in Seq(Positions) /\ at' \in 0 .. Len(work') + 1 /\ hash' \in Seq(Fingerprint)
      BY <1>1, <1>3, <2>1 DEF ObserverTypeOK
    <3> QED
      BY <1>2, <1>3, <1>7, <2>1, <2>2, <3>1 DEF ObserverTypeOK, saved
  <2>4. CursorInv'
    BY <1>1, <1>2, <1>3, <1>5, <2>1 DEF CursorInv, saved, ObserverTypeOK
  <2>5. strayed' => \E i, j \in Positions' : i # j /\ transcript'[i] = transcript'[j]
    BY <1>2, <2>1 DEF Positions
  <2>6. ASSUME CountsFromBaseline PROVE CountsFromBaseline'
    <3>1. (\A i \in 1 .. Len(pipe) : IsRun(pipe[i]))'
      BY <1>3, <2>6 DEF CountsFromBaseline, IsRun
    <3>2. IsRun(work)'
      BY <1>1, <1>3, <2>6 DEF CountsFromBaseline, IsRun
    <3>3. events' = {} /\ upto' = 0 /\ chain' = <<>> /\ hash' = <<>> /\ tail' = <<>>
      BY <1>1, <1>2, <1>5, <2>6 DEF CountsFromBaseline, saved
    <3>4. RecordedTo(upto)'
      <4>1. baseline' \in Nat
        BY <2>2 DEF ObserverTypeOK
      <4>2. baseline' + 1 .. upto' = {}
        <5>1. \A n \in Nat : n + 1 .. 0 = {}
          OBVIOUS
        <5> QED
          BY <3>3, <4>1, <5>1, Zenon
      <4> QED
        BY <4>2 DEF RecordedTo
    <3>5. work' # <<>> => baseline' = work'[Len(work')]
      BY <1>1, <1>5
    <3> QED
      BY <3>1, <3>2, <3>3, <3>4, <3>5 DEF CountsFromBaseline
  <2> QED
    BY <1>2, <2>1, <2>3, <2>4, <2>5, <2>6
<1>6. CASE tail # <<>>
  <2>1. k \in 1 .. Len(s) /\ transcript[s[k]] = tail[Len(tail)]
    <3>1. tail \in Seq(Fingerprint)
      BY DEF ObserverTypeOK
    <3>2. k \in 1 .. Len(Fingerprints(s)) /\ Fingerprints(s)[k] = tail[Len(tail)]
      BY <1>4, <1>6, <3>1, AlignedPlace
    <3> QED
      BY <1>4, <3>2
  <2>2. upto > 0 /\ tail[Len(tail)] = transcript[upto] /\ upto \in Positions
    BY <1>6 DEF CursorInv, ObserverTypeOK, Positions
  <2>3. s[k] \in Positions /\ baseline' = baseline
    BY <1>1, <1>3, <1>6, <2>1
  <2>4. strayed' \in BOOLEAN
    BY <1>1 DEF ObserverTypeOK
  <2>9. work' \in Seq(Positions) /\ at' \in 0 .. Len(work') + 1 /\ hash' \in Seq(Fingerprint)
        /\ at' > 1 /\ at' # 0
    <3>1. k + 1 \in 0 .. Len(s) + 1 /\ k + 1 > 1 /\ k + 1 # 0
      BY <1>3, <2>1
    <3>2. work' = s /\ at' = k + 1 /\ hash' = chain /\ chain \in Seq(Fingerprint)
      BY <1>1 DEF ObserverTypeOK
    <3> QED
      BY <1>3, <3>1, <3>2
  <2>5. ObserverTypeOK'
    BY <1>2, <1>3, <1>7, <2>3, <2>4, <2>9 DEF ObserverTypeOK, saved
  <2>6. CursorInv'
    BY <1>2, <1>6, <2>9 DEF CursorInv, saved
  <2>7. strayed' => \E i, j \in Positions' : i # j /\ transcript'[i] = transcript'[j]
    <3>1. CASE strayed
      BY <1>2, <3>1 DEF Positions
    <3>2. CASE s[k] # upto
      BY <1>2, <2>1, <2>2, <2>3, <3>2 DEF Positions
    <3>3. strayed' => strayed \/ s[k] # upto
      BY <1>1, Zenon
    <3> QED
      BY <3>1, <3>2, <3>3, Zenon
  <2>8. ASSUME ~partial', ~strayed' PROVE CountsFromBaseline'
    <3>1. ~strayed /\ s[k] = upto
      BY <1>1, <1>6, <2>8, Zenon
    <3>2. CountsFromBaseline
      BY <1>2, <2>8, <3>1
    <3>3. (\A i \in 1 .. Len(pipe) : IsRun(pipe[i]))'
      <4>1. \A i \in 1 .. Len(pipe') : IsRun(pipe'[i])
        BY <1>3, <3>2 DEF CountsFromBaseline
      <4> QED
        BY <4>1 DEF IsRun
    <3>4. IsRun(work)'
      BY <1>1, <1>3, <3>2 DEF CountsFromBaseline, IsRun
    <3>5. at' - 1 = k /\ work'[at' - 1] = upto /\ hash' = chain
      BY <1>1, <2>1, <3>1
    <3>6. baseline <= upto /\ chain = Texts(baseline, upto) /\ RecordedTo(upto)
      BY <1>6, <3>2 DEF CountsFromBaseline
    <3>7. (baseline <= work[at - 1] /\ hash = Texts(baseline, work[at - 1])
            /\ RecordedTo(work[at - 1]))'
      BY <1>2, <2>3, <3>5, <3>6 DEF Texts, RecordedTo
    <3>8. \A e \in events' : baseline' < e.pos /\ e.id = Texts(baseline, e.pos)'
      BY <1>2, <2>3, <3>2 DEF CountsFromBaseline, Texts
    <3>9. (baseline <= upto /\ chain = Texts(baseline, upto) /\ RecordedTo(upto))'
      BY <1>2, <2>3, <3>6 DEF Texts, RecordedTo, saved
    <3> QED
      BY <1>2, <1>6, <3>3, <3>4, <3>7, <3>8, <3>9 DEF CountsFromBaseline, saved
  <2> QED
    BY <2>5, <2>6, <2>7, <2>8
<1> QED
  BY <1>5, <1>6

\* One item of the snapshot in hand.
LEMMA ItemHandled ==
  ASSUME ObserverInv, Emit
  PROVE  ObserverInv'
<1> USE DEF ObserverInv
<1> DEFINE p == work[at]
           h == Append(hash, transcript[p])
<1>1. /\ at \in 1 .. Len(work)
      /\ UNCHANGED <<transcript, top, sandbox, pipe, saved, baseline, disturbed, partial,
                     strayed, crashes>>
  BY DEF Emit, view, marks
<1>2. p \in Positions /\ transcript[p] \in Fingerprint /\ h \in Seq(Fingerprint)
  <2>1. p \in Positions
    BY <1>1 DEF ObserverTypeOK
  <2>2. transcript[p] \in Fingerprint
    BY <2>1 DEF ObserverTypeOK, Positions
  <2>3. hash \in Seq(Fingerprint)
    BY DEF ObserverTypeOK
  <2> QED
    BY <2>1, <2>2, <2>3
<1>3. tail # <<>> /\ at > 1 /\ at - 1 \in 1 .. Len(work) /\ work[at - 1] \in Positions
  <2>1. tail # <<>> /\ at > 1
    BY <1>1 DEF CursorInv, ObserverTypeOK
  <2> QED
    BY <1>1, <2>1 DEF ObserverTypeOK
<1>4. ASSUME CountsFromBaseline
      PROVE  /\ p = work[at - 1] + 1 /\ baseline <= work[at - 1] /\ h = Texts(baseline, p)
             /\ RecordedTo(work[at - 1])
  <2>1. /\ baseline <= work[at - 1] /\ hash = Texts(baseline, work[at - 1])
        /\ RecordedTo(work[at - 1]) /\ IsRun(work)
    BY <1>1, <1>3, <1>4 DEF CountsFromBaseline
  <2>2. p = work[at - 1] + 1
    <3>1. p = work[1] + at - 1 /\ work[at - 1] = work[1] + (at - 1) - 1
      BY <1>1, <1>3, <2>1 DEF IsRun
    <3>2. work[1] \in Nat /\ at \in Nat
      BY <1>1 DEF ObserverTypeOK, Positions
    <3> QED
      BY <3>1, <3>2
  <2>3. h = Texts(baseline, p)
    <3>1. /\ transcript \in Seq(Fingerprint) /\ baseline \in Nat /\ work[at - 1] \in Nat
          /\ work[at - 1] + 1 \in Positions
      BY <1>2, <1>3, <2>2 DEF ObserverTypeOK, Positions
    <3>2. Append(Texts(baseline, work[at - 1]), transcript[work[at - 1] + 1])
            = Texts(baseline, work[at - 1] + 1)
      BY <2>1, <3>1, TextsStep
    <3> QED
      BY <2>1, <2>2, <3>2
  <2> QED
    BY <2>1, <2>2, <2>3
<1> HIDE DEF h, p
<1>5. CASE transcript[p] = Unproven
  <2>1. work' = <<>> /\ at' = 0 /\ hash' = <<>> /\ paused' = TRUE /\ UNCHANGED events
    BY <1>5, ObserverAssumption DEF Emit, p, h
  <2>2. ObserverTypeOK'
    BY <1>1, <2>1 DEF ObserverTypeOK, Positions, saved
  <2>3. CursorInv'
    BY <1>1, <2>1 DEF CursorInv, saved
  <2>4. strayed' => \E i, j \in Positions' : i # j /\ transcript'[i] = transcript'[j]
    BY <1>1 DEF Positions
  <2>5. CountsFromBaseline => CountsFromBaseline'
    <3> SUFFICES ASSUME CountsFromBaseline PROVE CountsFromBaseline'
      OBVIOUS
    <3>1. IsRun(work)'
      BY <2>1 DEF IsRun
    <3> QED
      BY <1>1, <1>3, <2>1, <3>1 DEF CountsFromBaseline, IsRun, Texts, RecordedTo, saved
  <2> QED
    BY <1>1, <2>2, <2>3, <2>4, <2>5
<1>6. CASE transcript[p] # Unproven
  <2>1. /\ hash' = h /\ at' = at + 1 /\ UNCHANGED <<work, paused>>
        /\ transcript[p] = Self => events' = events
        /\ transcript[p] # Self =>
             events' = IF \E e \in events : e.id = h THEN events
                       ELSE events \cup {[id |-> h, pos |-> p]}
    <3>1. CASE transcript[p] = Self
      BY <1>6, <3>1, ObserverAssumption DEF Emit, p, h
    <3>2. CASE transcript[p] # Self
      BY <1>6, <3>2 DEF Emit, EventId, p, h
    <3> QED
      BY <3>1, <3>2
  <2>2. events \subseteq events' /\ events' \subseteq events \cup {[id |-> h, pos |-> p]}
    BY <2>1
  <2>3. events' \subseteq [id : Seq(Fingerprint), pos : Positions]
    <3>1. [id |-> h, pos |-> p] \in [id : Seq(Fingerprint), pos : Positions]
      BY <1>2
    <3> QED
      BY <2>2, <3>1 DEF ObserverTypeOK
  <2>4. ObserverTypeOK'
    BY <1>1, <1>2, <2>1, <2>3 DEF ObserverTypeOK, Positions, saved
  <2>5. CursorInv'
    BY <1>1, <1>3, <2>1 DEF CursorInv, saved, ObserverTypeOK
  <2>6. strayed' => \E i, j \in Positions' : i # j /\ transcript'[i] = transcript'[j]
    BY <1>1 DEF Positions
  <2>7. ASSUME CountsFromBaseline PROVE CountsFromBaseline'
    <3>1. /\ p = work[at - 1] + 1 /\ baseline <= work[at - 1] /\ h = Texts(baseline, p)
          /\ RecordedTo(work[at - 1])
      BY <1>4, <2>7
    <3>2. baseline < p /\ p \in Nat /\ baseline \in Nat /\ work[at - 1] \in Nat
      <4>1. p \in Nat /\ work[at - 1] \in Nat
        BY <1>2, <1>3 DEF Positions
      <4>2. baseline \in Nat
        BY DEF ObserverTypeOK
      <4> QED
        BY <3>1, <4>1, <4>2
    <3>3. \A e \in events' : baseline < e.pos /\ e.id = Texts(baseline, e.pos)
      BY <2>2, <2>7, <3>1, <3>2 DEF CountsFromBaseline
    <3>4. transcript[p] \in Inbound => \E e \in events' : e.pos = p
      <4> SUFFICES ASSUME transcript[p] \in Inbound PROVE \E e \in events' : e.pos = p
        OBVIOUS
      <4>1. transcript[p] # Self
        BY ObserverAssumption
      <4>2. CASE \E e \in events : e.id = h
        <5>1. PICK e \in events : e.id = h
          BY <4>2
        <5>2. Texts(baseline, e.pos) = Texts(baseline, p) /\ baseline < e.pos /\ e.pos \in Nat
          BY <2>7, <3>1, <5>1 DEF CountsFromBaseline, ObserverTypeOK, Positions
        <5>3. DOMAIN Texts(baseline, e.pos) = 1 .. e.pos - baseline
              /\ DOMAIN Texts(baseline, p) = 1 .. p - baseline
          BY DEF Texts
        <5>4. e.pos - baseline = p - baseline
          BY <3>2, <5>2, <5>3
        <5> QED
          BY <2>2, <3>2, <5>1, <5>2, <5>4
      <4>3. CASE ~ \E e \in events : e.id = h
        <5>1. [id |-> h, pos |-> p] \in events'
          BY <2>1, <4>1, <4>3
        <5> QED
          BY <5>1
      <4> QED
        BY <4>2, <4>3
    <3>5. \A q \in baseline + 1 .. p :
            transcript[q] \in Inbound => \E e \in events' : e.pos = q
      <4> SUFFICES ASSUME NEW q \in baseline + 1 .. p, transcript[q] \in Inbound
                   PROVE  \E e \in events' : e.pos = q
        OBVIOUS
      <4>1. CASE q = p
        BY <3>4, <4>1
      <4>2. CASE q # p
        <5>1. q \in baseline + 1 .. work[at - 1]
          BY <3>1, <3>2, <4>2
        <5> QED
          BY <2>2, <3>1, <5>1 DEF RecordedTo
      <4> QED
        BY <4>1, <4>2
    <3>6. work'[at' - 1] = p /\ work' = work /\ at' > 1
      BY <1>1, <2>1 DEF p
    <3>7. (baseline <= work[at - 1] /\ hash = Texts(baseline, work[at - 1])
            /\ RecordedTo(work[at - 1]))'
      BY <1>1, <2>1, <3>1, <3>2, <3>5, <3>6 DEF Texts, RecordedTo
    <3>8. RecordedTo(upto)'
      BY <1>1, <2>2, <2>7 DEF CountsFromBaseline, RecordedTo, saved
    <3>9. (\A i \in 1 .. Len(pipe) : IsRun(pipe[i]))' /\ IsRun(work)'
      BY <1>1, <2>7, <3>6 DEF CountsFromBaseline, IsRun
    <3>10. (baseline <= upto /\ chain = Texts(baseline, upto))'
      BY <1>1, <1>3, <2>7 DEF CountsFromBaseline, Texts, saved
    <3>11. (\A e \in events : baseline < e.pos /\ e.id = Texts(baseline, e.pos))'
      BY <1>1, <3>3 DEF Texts
    <3> QED
      BY <1>1, <1>3, <3>7, <3>8, <3>9, <3>10, <3>11 DEF CountsFromBaseline, saved
  <2> QED
    BY <1>1, <2>4, <2>5, <2>6, <2>7
<1> QED
  BY <1>5, <1>6

\* The cursor takes over what the pass has seen.
LEMMA CursorSaved ==
  ASSUME ObserverInv, Save
  PROVE  ObserverInv'
<1> USE DEF ObserverInv
<1>1. /\ ~Idle /\ at > Len(work)
      /\ tail' = LastOf(Fingerprints(work), TailItems) /\ chain' = hash
      /\ upto' = IF work = <<>> THEN upto ELSE work[Len(work)]
      /\ work' = <<>> /\ at' = 0 /\ hash' = <<>> /\ paused' = FALSE
      /\ UNCHANGED <<transcript, top, sandbox, pipe, events, baseline, disturbed, partial,
                     strayed, crashes>>
  BY DEF Save, view, marks
<1>2. at > 0 /\ at = Len(work) + 1 /\ work \in Seq(Positions)
  BY <1>1 DEF CursorInv, Idle, ObserverTypeOK
<1>3. /\ Fingerprints(work) \in Seq(Fingerprint) /\ Len(Fingerprints(work)) = Len(work)
      /\ \A i \in 1 .. Len(work) : Fingerprints(work)[i] = transcript[work[i]]
  BY <1>2, FingerprintsType DEF ObserverTypeOK
<1>4. /\ tail' \in Seq(Fingerprint)
      /\ work = <<>> => tail' = <<>>
      /\ work # <<>> => tail' # <<>> /\ tail'[Len(tail')] = transcript[work[Len(work)]]
  <2>1. Fingerprints(work) = <<>> <=> work = <<>>
    BY <1>2, <1>3
  <2>2. work # <<>> => Len(work) \in 1 .. Len(work)
    BY <1>2
  <2> QED
    BY <1>1, <1>3, <2>1, <2>2, LastOfEnds, ObserverAssumption
<1>5. work # <<>> => work[Len(work)] \in Positions
  BY <1>2
<1>6. ObserverTypeOK'
  <2>1. upto' \in 0 .. Len(transcript)
    BY <1>1, <1>5 DEF ObserverTypeOK, Positions
  <2>2. work' \in Seq(Positions) /\ at' \in 0 .. Len(work') + 1 /\ hash' \in Seq(Fingerprint)
        /\ chain' \in Seq(Fingerprint)
    BY <1>1 DEF ObserverTypeOK
  <2>3. Positions' = Positions
    BY <1>1 DEF Positions
  <2> QED
    BY <1>1, <1>4, <2>1, <2>2, <2>3 DEF ObserverTypeOK
<1>7. CursorInv'
  BY <1>1, <1>4, <1>5 DEF CursorInv, Positions
<1>8. strayed' => \E i, j \in Positions' : i # j /\ transcript'[i] = transcript'[j]
  BY <1>1 DEF Positions
<1>9. ASSUME CountsFromBaseline PROVE CountsFromBaseline'
  <2>1. (\A i \in 1 .. Len(pipe) : IsRun(pipe[i]))' /\ IsRun(work)'
    BY <1>1, <1>9 DEF CountsFromBaseline, IsRun
  <2>2. (\A e \in events : baseline < e.pos /\ e.id = Texts(baseline, e.pos))'
    BY <1>1, <1>9 DEF CountsFromBaseline, Texts
  <2>3. CASE tail = <<>>
    <3>1. events = {} /\ chain = <<>> /\ hash = <<>> /\ upto = 0
          /\ (work # <<>> => baseline = work[Len(work)])
      BY <1>9, <2>3 DEF CountsFromBaseline
    <3>2. baseline' = baseline /\ baseline \in Nat
      BY <1>1 DEF ObserverTypeOK
    <3>3. CASE work = <<>>
      <4>1. RecordedTo(upto)'
        <5>1. baseline' + 1 .. upto' = {}
          BY <1>1, <3>1, <3>2, <3>3
        <5> QED
          BY <5>1 DEF RecordedTo
      <4> QED
        BY <1>1, <1>4, <2>1, <2>2, <3>1, <3>3, <4>1 DEF CountsFromBaseline
    <3>4. CASE work # <<>>
      <4>1. upto' = baseline'
        BY <1>1, <3>1, <3>4
      <4>2. RecordedTo(upto)'
        <5>1. baseline' + 1 .. upto' = {}
          BY <3>2, <4>1
        <5> QED
          BY <5>1 DEF RecordedTo
      <4>3. chain' = Texts(baseline, upto)'
        <5>1. 1 .. upto' - baseline' = {} /\ 1 .. 0 = {}
          BY <3>2, <4>1
        <5>2. Texts(baseline, upto)' = [n \in 1 .. 0 |-> transcript'[baseline' + n]]
          BY <5>1 DEF Texts
        <5> QED
          BY <1>1, <3>1, <5>1, <5>2
      <4> QED
        BY <1>1, <1>4, <2>1, <2>2, <3>2, <3>4, <4>1, <4>2, <4>3 DEF CountsFromBaseline
    <3> QED
      BY <3>3, <3>4
  <2>4. CASE tail # <<>>
    <3>1. work # <<>> /\ at - 1 = Len(work)
      BY <1>2, <2>4 DEF CursorInv
    <3>2. /\ baseline <= work[Len(work)] /\ hash = Texts(baseline, work[Len(work)])
          /\ RecordedTo(work[Len(work)])
      BY <1>2, <1>9, <2>4, <3>1 DEF CountsFromBaseline
    <3>3. (baseline <= upto /\ chain = Texts(baseline, upto) /\ RecordedTo(upto))'
      BY <1>1, <3>1, <3>2 DEF Texts, RecordedTo
    <3> QED
      BY <1>1, <1>4, <2>1, <2>2, <3>1, <3>3 DEF CountsFromBaseline
  <2> QED
    BY <2>3, <2>4
<1> QED
  BY <1>1, <1>6, <1>7, <1>8, <1>9

\* Sequences over more values.
LEMMA SeqsGrow ==
  ASSUME NEW S, NEW T, S \subseteq T
  PROVE  Seq(S) \subseteq Seq(T)
<1> SUFFICES ASSUME NEW q \in Seq(S) PROVE q \in Seq(T)
  OBVIOUS
<1>1. Len(q) \in Nat /\ DOMAIN q = 1 .. Len(q) /\ \A i \in 1 .. Len(q) : q[i] \in T
  OBVIOUS
<1>2. q = [i \in 1 .. Len(q) |-> q[i]]
  OBVIOUS
<1>3. [i \in 1 .. Len(q) |-> q[i]] \in Seq(T)
  BY <1>1
<1> QED
  BY <1>2, <1>3

\* A message arrives: what was shown keeps its text.
LEMMA MessageArrived ==
  ASSUME ObserverInv, NEW x \in Fingerprint, Arrives(x)
  PROVE  ObserverInv'
<1> USE DEF ObserverInv
<1>1. /\ transcript' = Append(transcript, x)
      /\ top' \in Nat \ {0}
      /\ UNCHANGED <<sandbox, pipe, saved, handling, paused, events, baseline, disturbed,
                     partial, strayed, crashes>>
  BY DEF Arrives, ObserverTypeOK, marks
<1>2. /\ transcript' \in Seq(Fingerprint) /\ Len(transcript') = Len(transcript) + 1
      /\ \A i \in Positions : transcript'[i] = transcript[i]
      /\ Len(transcript) \in Nat
  BY <1>1 DEF ObserverTypeOK, Positions
<1>3. Positions \subseteq Positions' /\ Positions' = 1 .. Len(transcript) + 1
  BY <1>2 DEF Positions
<1>4. work' \in Seq(Positions') /\ pipe' \in Seq(Seq(Positions'))
  <2>1. Seq(Positions) \subseteq Seq(Positions')
    BY <1>3, SeqsGrow
  <2>2. Seq(Seq(Positions)) \subseteq Seq(Seq(Positions'))
    BY <2>1, SeqsGrow
  <2> QED
    BY <1>1, <2>1, <2>2 DEF ObserverTypeOK, handling
<1>5. events' \subseteq [id : Seq(Fingerprint), pos : Positions']
  BY <1>1, <1>3 DEF ObserverTypeOK
<1>6. ObserverTypeOK'
  <2>1. at' \in 0 .. Len(work') + 1 /\ hash' \in Seq(Fingerprint) /\ tail' \in Seq(Fingerprint)
        /\ chain' \in Seq(Fingerprint) /\ upto' \in 0 .. Len(transcript')
        /\ baseline' \in 0 .. Len(transcript')
    BY <1>1, <1>2 DEF ObserverTypeOK, saved, handling
  <2> QED
    BY <1>1, <1>2, <1>4, <1>5, <2>1 DEF ObserverTypeOK
<1>7. CursorInv'
  <2>1. tail # <<>> => upto \in Positions
    BY DEF CursorInv, ObserverTypeOK, Positions
  <2> QED
    BY <1>1, <1>2, <2>1 DEF CursorInv, saved, handling
<1>8. strayed' => \E i, j \in Positions' : i # j /\ transcript'[i] = transcript'[j]
  BY <1>1, <1>2, <1>3
<1>9. ASSUME CountsFromBaseline PROVE CountsFromBaseline'
  <2>1. \A n \in 0 .. Len(transcript) : Texts(baseline, n)' = Texts(baseline, n)
    <3> SUFFICES ASSUME NEW n \in 0 .. Len(transcript)
                 PROVE  Texts(baseline, n)' = Texts(baseline, n)
      OBVIOUS
    <3>1. baseline' = baseline /\ baseline \in Nat
      BY <1>1 DEF ObserverTypeOK
    <3>2. \A m \in 1 .. n - baseline : baseline + m \in Positions
      BY <1>2, <3>1 DEF Positions
    <3> QED
      BY <1>2, <3>1, <3>2 DEF Texts
  <2>2. \A n \in 0 .. Len(transcript) : RecordedTo(n) => RecordedTo(n)'
    <3> SUFFICES ASSUME NEW n \in 0 .. Len(transcript), RecordedTo(n) PROVE RecordedTo(n)'
      OBVIOUS
    <3>1. baseline' = baseline /\ baseline \in Nat /\ events' = events
      BY <1>1 DEF ObserverTypeOK
    <3>2. \A q \in baseline + 1 .. n : q \in Positions
      BY <1>2, <3>1 DEF Positions
    <3> QED
      BY <1>2, <3>1, <3>2 DEF RecordedTo
  <2>3. (\A i \in 1 .. Len(pipe) : IsRun(pipe[i]))' /\ IsRun(work)'
    BY <1>1, <1>9 DEF CountsFromBaseline, IsRun, handling
  <2>4. (\A e \in events : baseline < e.pos /\ e.id = Texts(baseline, e.pos))'
    <3>1. \A e \in events : e.pos \in 0 .. Len(transcript)
      BY <1>2 DEF ObserverTypeOK, Positions
    <3> QED
      BY <1>1, <1>9, <2>1, <3>1 DEF CountsFromBaseline
  <2>5. upto \in 0 .. Len(transcript) /\ upto' = upto
    BY <1>1 DEF ObserverTypeOK, saved
  <2>6. RecordedTo(upto)'
    BY <1>9, <2>2, <2>5 DEF CountsFromBaseline
  <2>7. (tail # <<>> => baseline <= upto /\ chain = Texts(baseline, upto))'
    BY <1>1, <1>9, <2>1, <2>5 DEF CountsFromBaseline, saved
  <2>8. (tail # <<>> /\ at > 0 =>
          /\ baseline <= work[at - 1] /\ hash = Texts(baseline, work[at - 1])
          /\ RecordedTo(work[at - 1]))'
    <3> SUFFICES ASSUME tail # <<>>, at > 0
                 PROVE  (/\ baseline <= work[at - 1] /\ hash = Texts(baseline, work[at - 1])
                         /\ RecordedTo(work[at - 1]))'
      BY <1>1 DEF saved, handling
    <3>1. work[at - 1] \in 0 .. Len(transcript) /\ work'[at' - 1] = work[at - 1]
      <4>1. at - 1 \in 1 .. Len(work)
        BY DEF CursorInv, ObserverTypeOK
      <4>2. work[at - 1] \in Positions
        BY <4>1 DEF ObserverTypeOK
      <4> QED
        BY <1>1, <1>2, <4>2 DEF Positions, handling
    <3> QED
      BY <1>1, <1>9, <2>1, <2>2, <3>1 DEF CountsFromBaseline, handling
  <2>9. (tail = <<>> =>
          /\ events = {} /\ chain = <<>> /\ hash = <<>> /\ upto = 0
          /\ work # <<>> => baseline = work[Len(work)])'
    BY <1>1, <1>9 DEF CountsFromBaseline, saved, handling
  <2> QED
    BY <2>3, <2>4, <2>6, <2>7, <2>8, <2>9 DEF CountsFromBaseline
<1> QED
  BY <1>1, <1>6, <1>7, <1>8, <1>9

\* The process stops: the snapshot in hand and those on their way are gone.
LEMMA StopKeepsTheRecord ==
  ASSUME ObserverInv, ObserverStops
  PROVE  ObserverInv'
<1> USE DEF ObserverInv
<1>1. /\ crashes' = crashes + 1 /\ sandbox' = "none"
      /\ pipe' = <<>> /\ work' = <<>> /\ at' = 0 /\ hash' = <<>> /\ paused' = FALSE
      /\ UNCHANGED <<transcript, top, saved, events, baseline, disturbed, partial, strayed>>
  BY DEF ObserverStops, view, marks
<1>2. ObserverTypeOK'
  <2>1. Positions' = Positions
    BY <1>1 DEF Positions
  <2>2. /\ pipe' \in Seq(Seq(Positions)) /\ work' \in Seq(Positions)
        /\ at' \in 0 .. Len(work') + 1 /\ hash' \in Seq(Fingerprint)
    BY <1>1
  <2>3. crashes' \in Nat
    BY <1>1 DEF ObserverTypeOK
  <2> QED
    BY <1>1, <2>1, <2>2, <2>3 DEF ObserverTypeOK, saved
<1>3. CursorInv'
  BY <1>1 DEF CursorInv, saved
<1>4. strayed' => \E i, j \in Positions' : i # j /\ transcript'[i] = transcript'[j]
  BY <1>1 DEF Positions
<1>5. ASSUME CountsFromBaseline PROVE CountsFromBaseline'
  <2>1. (\A i \in 1 .. Len(pipe) : IsRun(pipe[i]))' /\ IsRun(work)'
    BY <1>1 DEF IsRun
  <2> QED
    BY <1>1, <1>5, <2>1 DEF CountsFromBaseline, Texts, RecordedTo, saved
<1> QED
  BY <1>1, <1>2, <1>3, <1>4, <1>5

\* The observer's books are true whatever the process, the view and the texts do.
THEOREM ObserverInvariant == ObserverSpec => []ObserverInv
<1>1. ObserverInit => ObserverInv
  <2> SUFFICES ASSUME ObserverInit PROVE ObserverInv
    OBVIOUS
  <2>1. ObserverTypeOK
    <3>1. /\ pipe \in Seq(Seq(Positions)) /\ work \in Seq(Positions)
          /\ at \in 0 .. Len(work) + 1
      BY DEF ObserverInit
    <3>2. upto \in 0 .. Len(transcript) /\ baseline \in 0 .. Len(transcript)
      BY DEF ObserverInit
    <3>3. /\ transcript \in Seq(Fingerprint) /\ tail \in Seq(Fingerprint)
          /\ chain \in Seq(Fingerprint) /\ hash \in Seq(Fingerprint)
      BY DEF ObserverInit
    <3>4. /\ events \subseteq [id : Seq(Fingerprint), pos : Positions]
          /\ paused \in BOOLEAN /\ partial \in BOOLEAN /\ strayed \in BOOLEAN
      BY DEF ObserverInit
    <3>5. top \in Nat \ {0} /\ disturbed \in Nat /\ crashes \in Nat
          /\ sandbox \in {"none", "proxy", "worker", "ready", "failed"}
      BY DEF ObserverInit
    <3> QED
      BY <3>1, <3>2, <3>3, <3>4, <3>5 DEF ObserverTypeOK
  <2>2. CursorInv /\ ~strayed
    BY DEF ObserverInit, CursorInv
  <2>3. CountsFromBaseline
    BY DEF ObserverInit, CountsFromBaseline, IsRun, RecordedTo
  <2> QED
    BY <2>1, <2>2, <2>3 DEF ObserverInv
<1>2. ObserverInv /\ [ObserverNext]_observerVars => ObserverInv'
  <2> SUFFICES ASSUME ObserverInv, [ObserverNext]_observerVars PROVE ObserverInv'
    OBVIOUS
  <2>1. CASE \/ StartProxy \/ StartWorker \/ Handshake \/ SandboxFails
             \/ \E n \in 1 .. MaxItems : Scroll(n)
    BY <2>1, ViewMoves
  <2>2. CASE TakeSnapshot \/ \E i \in 1 .. Visible : TakePartial(i)
    BY <2>2, SnapshotTaken
  <2>3. CASE RejectSnapshot \/ Misaligned
    BY <2>3, SnapshotDropped
  <2>4. CASE Align
    BY <2>4, SnapshotAligned
  <2>5. CASE Emit
    BY <2>5, ItemHandled
  <2>6. CASE Save
    BY <2>6, CursorSaved
  <2>7. CASE \E x \in Fingerprint : Arrives(x)
    BY <2>7, MessageArrived
  <2>8. CASE ObserverStops
    BY <2>8, StopKeepsTheRecord
  <2>9. CASE UNCHANGED observerVars
    <3> USE <2>9 DEF observerVars, view, saved, handling, marks
    <3>1. ObserverTypeOK' /\ Positions' = Positions
      BY DEF ObserverInv, ObserverTypeOK, Positions
    <3>2. CursorInv'
      BY DEF ObserverInv, CursorInv
    <3>3. CountsFromBaseline => CountsFromBaseline'
      BY DEF CountsFromBaseline, IsRun, Texts, RecordedTo
    <3> QED
      BY <3>1, <3>2, <3>3 DEF ObserverInv
  <2> QED
    BY <2>1, <2>2, <2>3, <2>4, <2>5, <2>6, <2>7, <2>8, <2>9 DEF ObserverNext
<1> QED
  BY <1>1, <1>2, PTL DEF ObserverSpec

\* What the observer has recorded is exact: one id for a message, none passed over, unless an
\* overlap was found elsewhere, which takes a text that repeats.
THEOREM ObserverRecordsExactly == ObserverSpec => []RecordIsExact
<1>1. ObserverInv => RecordIsExact
  <2> SUFFICES ASSUME ObserverInv PROVE RecordIsExact
    OBVIOUS
  <2>1. strayed => \E i, j \in 1 .. Len(transcript) : i # j /\ transcript[i] = transcript[j]
    BY DEF ObserverInv, Positions
  <2>2. ASSUME CountsFromBaseline
        PROVE  /\ \A e, f \in events : e.pos = f.pos => e.id = f.id
               /\ \A p \in baseline + 1 .. upto :
                    transcript[p] \in Inbound => \E e \in events : e.pos = p
    BY <2>2 DEF CountsFromBaseline, RecordedTo
  <2> QED
    BY <2>1, <2>2 DEF ObserverInv, RecordIsExact
<1> QED
  BY <1>1, ObserverInvariant, PTL

---------------------------------------------------------------------------
(* The desktop probe.                                                      *)

\* Of two members a set with at most one can hold only one.
LEMMA OnlyMember ==
  ASSUME NEW S, IsFiniteSet(S), Cardinality(S) <= 1, NEW x \in S, NEW y \in S
  PROVE  x = y
<1> SUFFICES ASSUME x # y PROVE FALSE
  OBVIOUS
<1>1. IsFiniteSet({x}) /\ Cardinality({x}) = 1
  BY FS_Singleton
<1>2. Cardinality({x} \cup {y}) = 2 /\ IsFiniteSet({x} \cup {y})
  BY <1>1, FS_AddElement
<1>3. {x} \cup {y} \in SUBSET S
  OBVIOUS
<1>4. Cardinality({x} \cup {y}) <= Cardinality(S) /\ Cardinality(S) \in Nat
  BY <1>3, FS_Subset, FS_CardinalityType
<1> QED
  BY <1>2, <1>4

\* The mode that main selects was asked for on the command line.
LEMMA SelectedWasAsked ==
  ASSUME NEW f
  PROVE  SelectedMode(f) \in f \/ SelectedMode(f) = "structure"
<1> DEFINE order == <<"draft_state", "submit", "existing", "canary", "surface", "focus",
                      "input_focus", "semantic">>
           hits == {i \in 1 .. Len(order) : order[i] \in f}
<1>1. CASE hits = {}
  BY <1>1 DEF SelectedMode
<1>2. CASE hits # {}
  <2>1. Len(order) = 8
    OBVIOUS
  <2>2. \E i \in hits : \A j \in hits : i <= j
    <3>1. hits \subseteq 1 .. 8
      BY <2>1
    <3> HIDE DEF hits
    <3> SUFFICES ASSUME \A i \in hits : \E j \in hits : j < i PROVE FALSE
      BY <3>1
    <3>2. 1 \notin hits /\ 2 \notin hits
      BY <3>1
    <3>3. 3 \notin hits /\ 4 \notin hits
      BY <3>1, <3>2
    <3>4. 5 \notin hits /\ 6 \notin hits
      BY <3>1, <3>2, <3>3
    <3>5. 7 \notin hits /\ 8 \notin hits
      BY <3>1, <3>2, <3>3, <3>4
    <3>6. PICK x \in hits : x \in 1 .. 8
      BY <1>2, <3>1
    <3>7. x = 1 \/ x = 2 \/ x = 3 \/ x = 4 \/ x = 5 \/ x = 6 \/ x = 7 \/ x = 8
      BY <3>6
    <3> QED
      BY <3>2, <3>3, <3>4, <3>5, <3>6, <3>7
  <2>3. PICK i \in hits : i = CHOOSE k \in hits : \A j \in hits : k <= j
    BY <2>2
  <2>4. SelectedMode(f) = order[i]
    BY <1>2, <2>3 DEF SelectedMode
  <2> QED
    BY <2>3, <2>4
<1> QED
  BY <1>1, <1>2

\* A command line that asks for a look besides is refused.
LEMMA NoLookBesides ==
  ASSUME NEW f \in CommandLines, ValidMode(f), "precommit" \notin f,
         SelectedMode(f) \in {"canary", "existing", "submit"}
  PROVE  f \cap Diagnostic = {}
<1>1. SelectedMode(f) \in f \cap Mode
  BY SelectedWasAsked DEF Mode
<1>2. IsFiniteSet(f \cap Mode)
  <2>1. IsFiniteSet(Mode)
    <3>1. Mode = {"semantic"} \cup {"surface"} \cup {"focus"} \cup {"input_focus"} \cup {"canary"}
                   \cup {"existing"} \cup {"submit"} \cup {"draft_state"}
      BY DEF Mode
    <3> QED
      BY <3>1, FS_Singleton, FS_Union
  <2> QED
    BY <2>1, FS_Subset
<1>3. \A y \in f \cap Mode : y = SelectedMode(f)
  <2> SUFFICES ASSUME NEW y \in f \cap Mode PROVE y = SelectedMode(f)
    OBVIOUS
  <2>1. Cardinality(f \cap Mode) <= 1
    BY DEF ValidMode
  <2> QED
    BY <1>1, <1>2, <2>1, OnlyMember
<1> QED
  BY <1>3 DEF Diagnostic, Mode

\* A press at the end of a run sends at most the one message, and what the last look
\* has established names it.
LEMMA PressKeeps ==
  ASSUME ProbeInv, pc \in {"ready", "key"}, pc' \in {"key", "unlock", "readback", "done"},
         UNCHANGED <<sent, draft>> \/ ((\E ok \in BOOLEAN : Pressed(ok)) /\ pc' # "key"),
         commits' \in 0 .. 1, commits' = commits \/ flags \cap Diagnostic = {},
         alt' \in BOOLEAN,
         UNCHANGED <<since, used, flags, layout, chat, posts, canary, wrote, confirmed>>
  PROVE  ProbeInv'
<1> USE DEF ProbeInv, ProbeTypeOK, ModeFollowed, SingleCommit, LookHolds, SentIsProven,
            ProbeStep
<1> DEFINE message == [chat |-> chat, text |-> draft[chat], since |-> since]
<1>1. /\ sent = {} /\ (sent' = {} \/ sent' = {message})
      /\ pc' = "key" => sent' = {} /\ draft' = draft
  BY DEF Pressed
<1>2. message \in [chat : ChatTitle, text : DraftText, since : SUBSET UserAct]
  OBVIOUS
<1>3. draft' \in [ChatTitle -> DraftText]
  BY DEF Pressed, DraftText
<1>4. /\ message.chat # "testing" => "chat" \in message.since
      /\ message.text # canary => confirmed # "exact" \/ message.since \cap {"text", "chat"} # {}
  OBVIOUS
<1> HIDE DEF message
<1>5. ProbeTypeOK'
  <2>1. sent' \subseteq [chat : ChatTitle, text : DraftText, since : SUBSET UserAct]
    BY <1>1, <1>2
  <2> QED
    BY <2>1, <1>3
<1>6. ModeFollowed'
  OBVIOUS
<1>7. SingleCommit' /\ LookHolds'
  BY <1>1
<1>8. SentIsProven'
  BY <1>1, <1>4
<1> QED
  BY <1>5, <1>6, <1>7, <1>8

\* Whatever the user does is on record until the next look.
LEMMA UserKeeps ==
  ASSUME ProbeInv, NEW what \in UserAct, Acts(what),
         layout' \in Layouts, chat' \in ChatTitle, draft' \in [ChatTitle -> DraftText],
         posts' \in [{"self", "peer"} -> Nat],
         chat' = chat \/ what = "chat", draft' = draft \/ what = "text"
  PROVE  ProbeInv'
<1> USE DEF ProbeInv, ProbeTypeOK, ModeFollowed, SingleCommit, LookHolds, SentIsProven,
            runVars
<1>1. /\ UNCHANGED <<sent, alt, wrote, flags, pc, canary, confirmed, commits>>
      /\ used' = used + 1 /\ since' = since \cup {what}
  BY DEF Acts
<1>2. ProbeTypeOK'
  <2>1. used' \in Nat /\ since' \subseteq UserAct
    BY <1>1
  <2>2. alt' \in BOOLEAN /\ wrote' \in BOOLEAN
    BY <1>1
  <2> QED
    BY <1>1, <2>1, <2>2
<1>3. ModeFollowed' /\ SingleCommit'
  BY <1>1
<1>4. LookHolds'
  BY <1>1
<1>5. SentIsProven'
  BY <1>1
<1> QED
  BY <1>2, <1>3, <1>4, <1>5

\* Every step of the probe and of its user keeps the invariant.
LEMMA ProbeStepKeeps == ProbeInv /\ [ProbeNext]_probeVars => ProbeInv'
<1> SUFFICES ASSUME ProbeInv, [ProbeNext]_probeVars PROVE ProbeInv'
  OBVIOUS
<1> USE DEF ProbeInv, ProbeTypeOK, ModeFollowed, SingleCommit, LookHolds, SentIsProven,
        DraftText, UserAct, ProbeStep, ChatTitle, clientVars, runVars
<1>0. /\ layout \in Layouts /\ chat \in ChatTitle /\ draft \in [ChatTitle -> DraftText]
      /\ posts \in [{"self", "peer"} -> Nat]
  OBVIOUS
<1>1. ASSUME NEW f \in CommandLines, StartProbe(f) PROVE ProbeInv'
  BY <1>1 DEF StartProbe
<1>2. ASSUME NEW pre \in SUBSET {"scan", "prepare", "focus"}, Raises(pre) PROVE ProbeInv'
  BY <1>2 DEF Raises, Stepped
<1>3. ASSUME NEW s \in Surface, Scan(s) PROVE ProbeInv'
  BY <1>3 DEF Scan, Stepped
<1>4. CASE Inspect
  BY <1>4 DEF Inspect, Stepped
<1>5. CASE SurfaceReport
  BY <1>5 DEF SurfaceReport, Stepped
<1>6. CASE DraftState
  BY <1>6 DEF DraftState, Stepped
<1>7. CASE Prepare
  BY <1>7 DEF Prepare, Stepped, GeneratedCanary, Exposed, DraftIsEmpty
<1>8. CASE Confirm
  BY <1>8 DEF Confirm, Stepped
<1>9. CASE Revalidate
  BY <1>9 DEF Revalidate, Stepped, KnownDraftEquals, Exposed, Surface
<1>10. CASE Focused
  BY <1>10 DEF Focused, Stepped, Surface
<1>11. CASE Readback
  BY <1>11 DEF Readback, Stepped
<1>12. ASSUME NEW ok \in BOOLEAN, WriteDraft(ok) PROVE ProbeInv'
  BY <1>12 DEF WriteDraft, Stepped, Set
<1>13. ASSUME NEW ok \in BOOLEAN, Focus(ok) PROVE ProbeInv'
  <2>1. ProbeTypeOK'
    BY <1>13 DEF Focus, Stepped
  <2>2. ModeFollowed'
    BY <1>13 DEF Focus, Stepped
  <2>3. SingleCommit'
    BY <1>13 DEF Focus, Stepped
  <2>4. LookHolds'
    BY <1>13 DEF Focus, Stepped
  <2>5. SentIsProven'
    BY <1>13 DEF Focus, Stepped
  <2> QED
    BY <2>1, <2>2, <2>3, <2>4, <2>5
<1>14. ASSUME NEW ok \in BOOLEAN, Cleanup(ok) PROVE ProbeInv'
  BY <1>14 DEF Cleanup, Stepped, Set
<1>15. ASSUME NEW ok \in BOOLEAN, PrecommitEnds(ok) PROVE ProbeInv'
  BY <1>15 DEF PrecommitEnds, Stepped, Set
<1>16. ASSUME NEW ok \in BOOLEAN, Commit(ok) PROVE ProbeInv'
  <2>1. /\ pc = "ready" /\ commits' = commits + 1 /\ UNCHANGED runVars
        /\ pc' \in {"key", "unlock", "readback", "done"}
    BY <1>16 DEF Commit
  <2>2. since' = since /\ UNCHANGED <<used, flags, layout, chat, posts>>
    BY <1>16, <2>1 DEF Commit, Stepped
  <2>3. commits' \in 0 .. 1
    <3>1. commits = 0
      BY <2>1
    <3> HIDE DEF ProbeInv
    <3> QED
      BY <2>1, <3>1
  <2>4. UNCHANGED <<sent, draft>> \/ (Pressed(ok) /\ pc' # "key")
    BY <1>16 DEF Commit
  <2>5. alt' \in BOOLEAN
    BY <1>16, Zenon DEF Commit
  <2>6. flags \cap Diagnostic = {}
    BY <1>16, <2>1, NoLookBesides DEF Commit
  <2> HIDE DEF ProbeInv
  <2> QED
    BY <2>1, <2>2, <2>3, <2>4, <2>5, <2>6, PressKeeps DEF runVars
<1>17. ASSUME NEW ok \in BOOLEAN, AltKey(ok) PROVE ProbeInv'
  <2>1. /\ pc = "key" /\ commits' = commits /\ pc' = "unlock" /\ alt' = alt
        /\ UNCHANGED runVars /\ Pressed(ok)
    BY <1>17, Zenon DEF AltKey
  <2>2. since' = since /\ UNCHANGED <<used, flags, layout, chat, posts>>
    BY <1>17, <2>1 DEF AltKey, Stepped
  <2>3. commits' \in 0 .. 1
    <3>1. commits \in Nat /\ commits <= 1
      OBVIOUS
    <3> HIDE DEF ProbeInv
    <3> QED
      BY <2>1, <3>1
  <2>4. alt' \in BOOLEAN
    BY <2>1
  <2> HIDE DEF ProbeInv
  <2> QED
    BY <2>1, <2>2, <2>3, <2>4, PressKeeps DEF runVars
<1>18. ASSUME NEW ok \in BOOLEAN, AltUnlock(ok) PROVE ProbeInv'
  BY <1>18 DEF AltUnlock, Stepped
<1>19. ASSUME NEW ok \in BOOLEAN, SemanticReport(ok) PROVE ProbeInv'
  BY <1>19 DEF SemanticReport, Stepped
<1>20. CASE OpensChat
  <2>1. Acts("chat") /\ chat' \in ChatTitle /\ UNCHANGED <<layout, draft, posts>>
    BY <1>20, Zenon DEF OpensChat
  <2> HIDE DEF ProbeInv
  <2> QED
    BY <1>0, <2>1, UserKeeps
<1>21. CASE Types
  <2>1. /\ Acts("text") /\ draft' = [draft EXCEPT ![chat] = "user"]
        /\ UNCHANGED <<layout, chat, posts>>
    BY <1>21, Zenon DEF Types
  <2>2. draft' \in [ChatTitle -> DraftText]
    BY <2>1
  <2> HIDE DEF ProbeInv
  <2> QED
    BY <1>0, <2>1, <2>2, UserKeeps
<1>22. ASSUME NEW l \in Layouts, Rearranges(l) PROVE ProbeInv'
  <2>1. Acts("layout") /\ layout' \in Layouts /\ UNCHANGED <<chat, draft, posts>>
    BY <1>22, Zenon DEF Rearranges
  <2> HIDE DEF ProbeInv
  <2> QED
    BY <1>0, <2>1, UserKeeps
<1>23. ASSUME NEW k \in {"self", "peer"}, Posts(k) PROVE ProbeInv'
  <2>1. /\ Acts("post") /\ posts' = [posts EXCEPT ![k] = posts[k] + 1]
        /\ UNCHANGED <<layout, chat, draft>>
    BY <1>23, Zenon DEF Posts
  <2>2. posts' \in [{"self", "peer"} -> Nat]
    <3>1. posts \in [{"self", "peer"} -> Nat] /\ posts' = [posts EXCEPT ![k] = posts[k] + 1]
      BY <1>0, <2>1
    <3> HIDE DEF ProbeInv
    <3> QED
      BY <3>1
  <2> HIDE DEF ProbeInv
  <2> QED
    BY <1>0, <2>1, <2>2, UserKeeps
<1>24. CASE UNCHANGED probeVars
  <2>1. ProbeTypeOK'
    BY <1>24 DEF probeVars
  <2>2. ModeFollowed'
    BY <1>24 DEF probeVars
  <2>3. SingleCommit'
    BY <1>24 DEF probeVars
  <2>4. LookHolds'
    BY <1>24 DEF probeVars
  <2>5. SentIsProven'
    BY <1>24 DEF probeVars
  <2> QED
    BY <2>1, <2>2, <2>3, <2>4, <2>5
<1> HIDE DEF ProbeInv
<1> QED
  BY <1>1, <1>2, <1>3, <1>4, <1>5, <1>6, <1>7, <1>8, <1>9, <1>10, <1>11, <1>12, <1>13,
     <1>14, <1>15, <1>16, <1>17, <1>18, <1>19, <1>20, <1>21, <1>22, <1>23, <1>24 DEF ProbeNext

\* Each step of a run belongs to its mode, and what a look has established is known.
THEOREM ProbeInvariant == ProbeSpec => []ProbeInv
<1>1. ProbeInit => ProbeInv
  <2> SUFFICES ASSUME ProbeInit PROVE ProbeInv
    OBVIOUS
  <2>1. flags \in CommandLines
    <3>1. {} \in CommandLines
      BY FS_EmptySet, ProbeAssumption DEF CommandLines
    <3> QED
      BY <3>1 DEF ProbeInit
  <2>2. ProbeTypeOK
    BY <2>1 DEF ProbeInit, ProbeTypeOK, DraftText, UserAct, ProbeStep
  <2>3. ModeFollowed /\ LookHolds
    BY DEF ProbeInit, ModeFollowed, LookHolds
  <2>5. SingleCommit
    <3>1. sent = {} /\ commits = 0
      BY DEF ProbeInit
    <3> QED
      BY <3>1 DEF SingleCommit
  <2>4. SentIsProven
    BY DEF ProbeInit, SentIsProven
  <2> QED
    BY <2>2, <2>3, <2>4, <2>5 DEF ProbeInv
<1> QED
  BY <1>1, ProbeStepKeeps, PTL DEF ProbeSpec

\* What the probe sends goes to the proven chat and is the proven text, whatever the user
\* does meanwhile that it could still see; a look or a rehearsal sends nothing.
THEOREM ProbeSendsWhatIsProven == ProbeSpec => []SentIsProven
<1>1. ProbeInv => SentIsProven
  BY DEF ProbeInv
<1> QED
  BY <1>1, ProbeInvariant, PTL

\* A run presses send at most once, and nothing of it touches the client afterwards.
THEOREM ProbeCommitsOnce == ProbeSpec => []SingleCommit
<1>1. ProbeInv => SingleCommit
  BY DEF ProbeInv
<1> QED
  BY <1>1, ProbeInvariant, PTL

---------------------------------------------------------------------------
(* The feed of messages: places in a table.                                *)

LEMMA PlacesAreFinite ==
  ASSUME NEW S \in SUBSET Place
  PROVE  IsFiniteSet(S) /\ Cardinality(S) \in Nat /\ S \subseteq Nat
<1>1. IsFiniteSet(Place) /\ Place \subseteq Nat
  BY FeedAssumption, FS_Interval DEF Place
<1> QED
  BY <1>1, FS_Subset, FS_CardinalityType

\* A table with a message has a newest one.
LEMMA NewestExists ==
  ASSUME NEW S \in SUBSET Place, S # {}
  PROVE  \E x \in S : \A y \in S : y <= x
<1> DEFINE Above(x) == {y \in S : y > x}
           Aboves == {Above(x) : x \in S}
<1>1. Aboves \subseteq FiniteSubsetsOf(Place) /\ Aboves # {}
  <2>1. \A x \in S : Above(x) \subseteq Place /\ IsFiniteSet(Above(x))
    BY PlacesAreFinite
  <2> QED
    BY <2>1 DEF FiniteSubsetsOf
<1>2. PICK A \in Aboves : \A B \in Aboves : <<B, A>> \notin StrictSubsetOrdering(Place)
  <2> HIDE DEF Aboves
  <2> QED
    BY <1>1, WFMin, FS_StrictSubsetOrderingWellFounded
<1>3. PICK x \in S : A = Above(x)
  OBVIOUS
<1>4. ASSUME NEW y \in S, y > x PROVE FALSE
  <2>1. x \in Nat /\ y \in Nat /\ S \subseteq Nat
    BY PlacesAreFinite
  <2>2. Above(y) \subseteq Above(x) /\ y \in Above(x) /\ y \notin Above(y)
    <3>1. \A z \in S : z > y => z > x
      BY <1>4, <2>1
    <3>2. ~(y > y)
      BY <2>1
    <3> QED
      BY <1>4, <3>1, <3>2
  <2>3. Above(y) \in SUBSET Place /\ Above(x) \in SUBSET Place /\ Above(y) \in Aboves
    OBVIOUS
  <2>4. <<Above(y), Above(x)>> \in StrictSubsetOrdering(Place)
    <3> HIDE DEF Above
    <3> QED
      BY <2>2, <2>3 DEF StrictSubsetOrdering
  <2> QED
    BY <1>2, <1>3, <2>3, <2>4
<1>5. \A y \in S : y <= x
  BY <1>4, PlacesAreFinite
<1> QED
  BY <1>5

\* The newest k of a table are closed upwards, hold its newest message, and leave none out
\* unless there are more than k.
LEMMA NewestFacts ==
  ASSUME NEW S \in SUBSET Place, NEW k \in Nat \ {0}
  PROVE  /\ Newest(S, k) \subseteq S
         /\ \A x \in Newest(S, k), y \in S : y > x => y \in Newest(S, k)
         /\ \A p \in S : \E a \in Newest(S, k) : p <= a
         /\ \A p \in S \ Newest(S, k) : Cardinality(S) > k
<1> DEFINE Above(x) == {y \in S : y > x}
<1>0. S \subseteq Nat
  BY PlacesAreFinite
<1>1. \A x \in S : IsFiniteSet(Above(x)) /\ Cardinality(Above(x)) \in Nat
  BY PlacesAreFinite
<1>2. Newest(S, k) = {x \in S : Cardinality(Above(x)) < k}
  BY DEF Newest
<1>3. ASSUME NEW x \in Newest(S, k), NEW y \in S, y > x PROVE y \in Newest(S, k)
  <2>1. x \in S /\ Above(y) \subseteq Above(x)
    <3>1. x \in S
      BY <1>2
    <3>2. \A z \in S : z > y => z > x
      BY <1>0, <1>3, <3>1
    <3> QED
      BY <3>1, <3>2
  <2>2. Cardinality(Above(y)) <= Cardinality(Above(x))
    <3> HIDE DEF Above
    <3> QED
      BY <1>1, <2>1, FS_Subset
  <2> HIDE DEF Above
  <2> QED
    BY <1>1, <1>2, <2>1, <2>2
<1>4. ASSUME NEW p \in S PROVE \E a \in Newest(S, k) : p <= a
  <2>1. PICK x \in S : \A y \in S : y <= x
    BY NewestExists
  <2>2. Above(x) = {}
    <3>1. \A y \in S : ~(y > x)
      BY <1>0, <2>1
    <3> QED
      BY <3>1
  <2>3. Cardinality(Above(x)) = 0
    BY <2>2, FS_EmptySet
  <2>4. x \in Newest(S, k)
    <3> HIDE DEF Above
    <3> QED
      BY <1>2, <2>3
  <2> QED
    BY <2>1, <2>4
<1>5. ASSUME NEW p \in S \ Newest(S, k) PROVE Cardinality(S) > k
  <2>1. Above(p) \in SUBSET (S \ {p}) /\ S \ {p} \in SUBSET Place
    BY <1>0
  <2>2. IsFiniteSet(S) /\ Cardinality(S) \in Nat /\ IsFiniteSet(S \ {p})
        /\ Cardinality(S \ {p}) \in Nat
    BY <2>1, PlacesAreFinite
  <2> HIDE DEF Above
  <2>3. Cardinality(Above(p)) <= Cardinality(S \ {p})
    BY <2>1, <2>2, FS_Subset
  <2>4. Cardinality(S \ {p}) = Cardinality(S) - 1
    BY <2>2, FS_RemoveElement
  <2>5. ~(Cardinality(Above(p)) < k)
    BY <1>2
  <2> QED
    BY <1>1, <2>2, <2>3, <2>4, <2>5
<1> QED
  BY <1>2, <1>3, <1>4, <1>5

\* The cursor only ever names what the bridge has said.
LEMMA CursorStep ==
  ASSUME FeedTypeOK, CursorFollows, [FeedNext]_feedVars
  PROVE  CursorFollows'
<1> USE DEF FeedTypeOK, CursorFollows, NoEpoch, tables, notices, binding, listener, start,
            targets, reading, history, bounds
<1>1. ASSUME NEW c \in Chat, NEW p \in Place, NEW bad \in BOOLEAN, Write(c, p, bad)
       PROVE  CursorFollows'
  BY <1>1 DEF Write
<1>2. CASE Watch
  BY <1>2 DEF Watch
<1>3. CASE WatchLost
  BY <1>3 DEF WatchLost
<1>4. CASE BridgeEnds
  BY <1>4 DEF BridgeEnds
<1>5. CASE BridgeStarts
  BY <1>5 DEF BridgeStarts
<1>6. CASE Listen
  BY <1>6 DEF Listen, Hear
<1>7. CASE ListenFails
  BY <1>7 DEF ListenFails
<1>8. CASE Poll
  BY <1>8 DEF Poll, Ask, Readable
<1>9. CASE PollLost
  BY <1>9 DEF PollLost, Halt
<1>10. CASE Snapshot
  BY <1>10 DEF Snapshot
<1>11. CASE CycleFails
  BY <1>11 DEF CycleFails, Halt
<1>12. CASE Apply
  BY <1>12 DEF Apply
<1>13. CASE Bind
  BY <1>13 DEF Bind, Configure
<1>14. CASE WriteMeta
  BY <1>14 DEF WriteMeta
<1>15. CASE WriteBinding
  BY <1>15 DEF WriteBinding
<1>16. CASE Build
  BY <1>16 DEF Build, PausesLeft
<1>17. CASE ServePaused
  BY <1>17 DEF ServePaused
<1>18. CASE Stop
  BY <1>18 DEF Stop
<1>19. ASSUME NEW w \in Whitelists, Start(w) PROVE CursorFollows'
  BY <1>19 DEF Start
<1>20. ASSUME NEW guarded \in SUBSET Chat, Baseline(guarded) PROVE CursorFollows'
  BY <1>20 DEF Baseline, Ask
<1>21. CASE UNCHANGED feedVars
  BY <1>21 DEF feedVars
<1> HIDE DEF CursorFollows
<1> QED
  BY <1>1, <1>2, <1>3, <1>4, <1>5, <1>6, <1>7, <1>8, <1>9, <1>10, <1>11, <1>12, <1>13,
     <1>14, <1>15, <1>16, <1>17, <1>18, <1>19, <1>20, <1>21 DEF FeedNext

\* A cycle belongs to a start or to a channel that is not paused.
LEMMA CycleStep ==
  ASSUME FeedTypeOK, CycleFollows, [FeedNext]_feedVars
  PROVE  CycleFollows'
<1> USE DEF CycleFollows, NoCycle, tables, notices, binding, listener, start, targets, reading,
            history, bounds
<1>1. ASSUME NEW c \in Chat, NEW p \in Place, NEW bad \in BOOLEAN, Write(c, p, bad)
       PROVE  CycleFollows'
  BY <1>1 DEF Write
<1>2. CASE Watch
  BY <1>2 DEF Watch
<1>3. CASE WatchLost
  BY <1>3 DEF WatchLost
<1>4. CASE BridgeEnds
  BY <1>4 DEF BridgeEnds
<1>5. CASE BridgeStarts
  BY <1>5 DEF BridgeStarts
<1>6. CASE Listen
  BY <1>6 DEF Listen, Hear
<1>7. CASE ListenFails
  BY <1>7 DEF ListenFails
<1>8. CASE Poll
  BY <1>8 DEF Poll, Ask, Readable
<1>9. CASE PollLost
  BY <1>9 DEF PollLost, Halt
<1>10. CASE Snapshot
  BY <1>10 DEF Snapshot
<1>11. CASE CycleFails
  BY <1>11 DEF CycleFails, Halt
<1>12. CASE Apply
  BY <1>12 DEF Apply
<1>13. CASE Bind
  BY <1>13 DEF Bind, Configure
<1>14. CASE WriteMeta
  BY <1>14 DEF WriteMeta
<1>15. CASE WriteBinding
  BY <1>15 DEF WriteBinding
<1>16. CASE Build
  BY <1>16 DEF Build, PausesLeft
<1>17. CASE ServePaused
  BY <1>17 DEF ServePaused
<1>18. CASE Stop
  BY <1>18 DEF Stop
<1>19. ASSUME NEW w \in Whitelists, Start(w) PROVE CycleFollows'
  BY <1>19 DEF Start
<1>20. ASSUME NEW guarded \in SUBSET Chat, Baseline(guarded) PROVE CycleFollows'
  BY <1>20 DEF Baseline, Ask
<1>21. CASE UNCHANGED feedVars
  BY <1>21 DEF feedVars
<1> HIDE DEF CycleFollows
<1> QED
  BY <1>1, <1>2, <1>3, <1>4, <1>5, <1>6, <1>7, <1>8, <1>9, <1>10, <1>11, <1>12, <1>13,
     <1>14, <1>15, <1>16, <1>17, <1>18, <1>19, <1>20, <1>21 DEF FeedNext

\* Bridge and files take the whitelist in one order, from the start that reads it.
LEMMA StartStep ==
  ASSUME FeedTypeOK, CycleFollows, StartFollows, [FeedNext]_feedVars
  PROVE  StartFollows'
<1> USE DEF CycleFollows, StartFollows, tables, notices, binding, listener, start, targets,
            reading, history, bounds
<1>1. ASSUME NEW c \in Chat, NEW p \in Place, NEW bad \in BOOLEAN, Write(c, p, bad)
       PROVE  StartFollows'
  BY <1>1 DEF Write
<1>2. CASE Watch
  BY <1>2 DEF Watch
<1>3. CASE WatchLost
  BY <1>3 DEF WatchLost
<1>4. CASE BridgeEnds
  BY <1>4 DEF BridgeEnds
<1>5. CASE BridgeStarts
  BY <1>5 DEF BridgeStarts
<1>6. CASE Listen
  BY <1>6 DEF Listen, Hear
<1>7. CASE ListenFails
  BY <1>7 DEF ListenFails
<1>8. CASE Poll
  BY <1>8 DEF Poll, Ask, Readable
<1>9. CASE PollLost
  BY <1>9 DEF PollLost, Halt
<1>10. CASE Snapshot
  BY <1>10 DEF Snapshot
<1>11. CASE CycleFails
  BY <1>11 DEF CycleFails, Halt
<1>12. CASE Apply
  BY <1>12 DEF Apply
<1>13. CASE Bind
  BY <1>13 DEF Bind, Configure
<1>14. CASE WriteMeta
  BY <1>14 DEF WriteMeta
<1>15. CASE WriteBinding
  BY <1>15 DEF WriteBinding
<1>16. CASE Build
  BY <1>16 DEF Build, PausesLeft
<1>17. CASE ServePaused
  BY <1>17 DEF ServePaused
<1>18. CASE Stop
  BY <1>18 DEF Stop
<1>19. ASSUME NEW w \in Whitelists, Start(w) PROVE StartFollows'
  BY <1>19 DEF Start
<1>20. ASSUME NEW guarded \in SUBSET Chat, Baseline(guarded) PROVE StartFollows'
  BY <1>20 DEF Baseline, Ask
<1>21. CASE UNCHANGED feedVars
  BY <1>21 DEF feedVars
<1> HIDE DEF StartFollows
<1> QED
  BY <1>1, <1>2, <1>3, <1>4, <1>5, <1>6, <1>7, <1>8, <1>9, <1>10, <1>11, <1>12, <1>13,
     <1>14, <1>15, <1>16, <1>17, <1>18, <1>19, <1>20, <1>21 DEF FeedNext

\* Nothing is known, owed or answered that the table does not hold, and no answer holds
\* what was yielded: the anchors tell every row that was.
LEMMA TablesStep ==
  ASSUME FeedTypeOK, CycleFollows, TablesHold, KnownStaysKnown, [FeedNext]_feedVars
  PROVE  TablesHold'
<1> USE DEF TablesHold, tables, notices, binding, listener, start, targets, reading, history, bounds
<1>1. ASSUME NEW c \in Chat, NEW p \in Place, NEW bad \in BOOLEAN, Write(c, p, bad)
       PROVE  TablesHold'
  <2>1. /\ table' = [table EXCEPT ![c] = @ \cup {p}] /\ p \notin table[c]
        /\ UNCHANGED <<anchors, got, cycle>>
        /\ owed' = owed \/ owed' = [owed EXCEPT ![c] = @ \cup {p}]
    BY <1>1 DEF Write
  <2> QED
    BY <2>1 DEF FeedTypeOK, CycleFollows
<1>2. CASE Watch
  BY <1>2 DEF Watch
<1>3. CASE WatchLost
  BY <1>3 DEF WatchLost
<1>4. CASE BridgeEnds
  BY <1>4 DEF BridgeEnds
<1>5. CASE BridgeStarts
  BY <1>5 DEF BridgeStarts
<1>6. CASE Listen
  BY <1>6 DEF Listen, Hear
<1>7. CASE ListenFails
  BY <1>7 DEF ListenFails
<1>8. CASE Poll
  BY <1>8 DEF Poll, Ask
<1>9. CASE PollLost
  BY <1>9 DEF PollLost, Halt, NoCycle, FeedTypeOK
<1>10. CASE Snapshot
  <2>1. /\ cycle.step = "asked" /\ UNCHANGED <<table, anchors, got>>
        /\ \A c \in Chat : owed'[c] \subseteq owed[c]
    BY <1>10 DEF Snapshot
  <2>2. /\ cycle'.errors \subseteq cycle'.refs /\ cycle'.refs = cycle.refs
        /\ \A c \in cycle.refs :
             /\ cycle'.anchors[c] = Newest(table[c], Anchors)
             /\ cycle'.rows[c] \subseteq IF cycle.baseline \/ AnchorLost(c) THEN {}
                                       ELSE Selected(c)
    BY <1>10 DEF Snapshot
  <2>3. cycle.refs \subseteq Chat
    BY <2>1 DEF CycleFollows, FeedTypeOK
  <2>4. \A c \in Chat : Newest(table[c], Anchors) \subseteq table[c]
    BY DEF Newest
  <2>5. ASSUME NEW c \in cycle.refs, ~cycle.baseline, ~AnchorLost(c)
        PROVE  Selected(c) \subseteq table[c] \ got[c]
    <3>1. c \in Live /\ NextAnchors(c) = anchors[c]
      BY <2>1, <2>5 DEF Live, NextAnchors, CycleFollows, Readable
    <3>2. \A p \in got[c] : p \in anchors[c] \/ ~(anchors[c] = {} \/ \E a \in anchors[c] : a < p)
      BY <3>1 DEF KnownStaysKnown, IsNewer
    <3>3. Selected(c) \subseteq table[c]
      BY DEF Selected, Newest
    <3>4. ASSUME NEW p \in Selected(c), p \in got[c] PROVE FALSE
      BY <2>5, <3>2, <3>4 DEF Selected, AnchorLost
    <3> QED
      BY <3>3, <3>4
  <2> QED
    BY <2>1, <2>2, <2>3, <2>4, <2>5
<1>11. CASE CycleFails
  BY <1>11 DEF CycleFails, Halt, NoCycle, FeedTypeOK
<1>12. CASE Apply
  <2>1. /\ cycle.step = "answered" /\ cycle' = NoCycle /\ UNCHANGED table
        /\ anchors' = [c \in Chat |-> IF c \in cycle.refs \ Refused THEN cycle.anchors[c]
                                      ELSE anchors[c]]
        /\ got' = [c \in Chat |-> IF c \in cycle.refs THEN got[c] \cup Yielded(c) ELSE got[c]]
        /\ \A c \in Chat : owed'[c] \subseteq owed[c]
    BY <1>12 DEF Apply, FeedTypeOK
  <2>2. \A c \in cycle.refs : Yielded(c) \subseteq cycle.rows[c]
    BY DEF Yielded
  <2> QED
    BY <2>1, <2>2 DEF NoCycle
<1>13. CASE Bind
  BY <1>13 DEF Bind, Configure
<1>14. CASE WriteMeta
  BY <1>14 DEF WriteMeta
<1>15. CASE WriteBinding
  BY <1>15 DEF WriteBinding
<1>16. CASE Build
  BY <1>16 DEF Build, PausesLeft
<1>17. CASE ServePaused
  BY <1>17 DEF ServePaused
<1>18. CASE Stop
  BY <1>18 DEF Stop, NoCycle, FeedTypeOK
<1>19. ASSUME NEW w \in Whitelists, Start(w) PROVE TablesHold'
  BY <1>19 DEF Start
<1>20. ASSUME NEW guarded \in SUBSET Chat, Baseline(guarded) PROVE TablesHold'
  BY <1>20 DEF Baseline, Ask, NoCycle
<1>21. CASE UNCHANGED feedVars
  BY <1>21 DEF feedVars
<1> HIDE DEF TablesHold
<1> QED
  BY <1>1, <1>2, <1>3, <1>4, <1>5, <1>6, <1>7, <1>8, <1>9, <1>10, <1>11, <1>12, <1>13,
     <1>14, <1>15, <1>16, <1>17, <1>18, <1>19, <1>20, <1>21 DEF FeedNext

\* Bridge, listener, service and cycle keep their shape.
LEMMA FeedTypeStep ==
  ASSUME FeedTypeOK, CycleFollows, TablesHold, [FeedNext]_feedVars
  PROVE  FeedTypeOK'
<1> USE DEF FeedTypeOK, tables, notices, binding, listener, start, targets, reading, history, bounds
<1>1. ASSUME NEW c \in Chat, NEW p \in Place, NEW bad \in BOOLEAN, Write(c, p, bad)
       PROVE  FeedTypeOK'
  <2>1. /\ table' = [table EXCEPT ![c] = @ \cup {p}]
        /\ broken' = broken \/ broken' = [broken EXCEPT ![c] = @ \cup {p}]
        /\ owed' = owed \/ owed' = [owed EXCEPT ![c] = @ \cup {p}]
        /\ dirty' = (bridge = "up" \/ dirty) /\ writes' = writes + 1
        /\ UNCHANGED <<bridge, epoch, sequence, binding, listener, notified, start, targets,
                       reading, got, twice, restarts, stops>>
    BY <1>1 DEF Write
  <2> QED
    BY <2>1
<1>2. CASE Watch
  <2>1. dirty' = FALSE /\ sequence' \in Nat
    BY <1>2 DEF Watch
  <2>2. UNCHANGED <<tables, bridge, epoch, binding, listener, notified, start, targets, reading,
                    history, bounds>>
    BY <1>2 DEF Watch
  <2>3. dirty' \in BOOLEAN
    BY <2>1
  <2>4. bridge' = bridge /\ epoch' = epoch
    BY <2>2
  <2> QED
    BY <2>1, <2>2, <2>3, <2>4
<1>3. CASE WatchLost
  BY <1>3 DEF WatchLost
<1>4. CASE BridgeEnds
  <2>1. bridge' = "down" /\ dirty' = FALSE /\ restarts' \in Nat
    BY <1>4 DEF BridgeEnds
  <2>2. UNCHANGED <<tables, epoch, sequence, binding, listener, notified, start, targets, reading,
                    history, writes, stops>>
    BY <1>4 DEF BridgeEnds
  <2> QED
    BY <2>1, <2>2
<1>5. CASE BridgeStarts
  BY <1>5 DEF BridgeStarts
<1>6. CASE Listen
  BY <1>6 DEF Listen, Hear
<1>7. CASE ListenFails
  <2>1. failures' \in Nat
    BY <1>7 DEF ListenFails
  <2>3. /\ lost' \in {TRUE, lost} /\ notified' \in {TRUE, notified}
        /\ listening' \in {FALSE, listening}
    BY <1>7, Zenon DEF ListenFails
  <2>4. lost' \in BOOLEAN /\ notified' \in BOOLEAN /\ listening' \in BOOLEAN
    BY <2>3
  <2>2. UNCHANGED <<tables, notices, binding, cursor, start, targets, reading, history, bounds>>
    BY <1>7 DEF ListenFails
  <2> QED
    BY <2>1, <2>2, <2>4
<1>8. CASE Poll
  BY <1>8 DEF Poll, Ask, Readable
<1>9. CASE PollLost
  BY <1>9 DEF PollLost, Halt, NoCycle
<1>10. CASE Snapshot
  <2>1. /\ cycle.step = "asked" /\ cycle'.step = "answered" /\ cycle'.baseline = cycle.baseline
        /\ owed' = owed \/ owed' = [c \in Chat |-> {}]
        /\ UNCHANGED <<tables, notices, binding, listener, notified, start, targets, anchors, got,
                       twice, bounds>>
    BY <1>10 DEF Snapshot
  <2> QED
    BY <2>1
<1>11. CASE CycleFails
  BY <1>11 DEF CycleFails, Halt, NoCycle
<1>12. CASE Apply
  <2>1. cycle.refs \subseteq Chat /\ cycle.errors \subseteq cycle.refs /\ Refused \subseteq Chat
    BY <1>12 DEF Apply, CycleFollows, TablesHold, Refused
  <2>2. \A c \in cycle.refs : Yielded(c) \subseteq Place /\ cycle.anchors[c] \subseteq Place
    BY <1>12, <2>1 DEF Apply, Yielded, TablesHold
  <2>3. /\ failing' \subseteq Chat /\ failingFile' \subseteq Chat /\ halted' \in BOOLEAN
        /\ cycle' = NoCycle /\ phase' = "serving"
    BY <1>12, <2>1 DEF Apply
  <2>4. anchors' \in [Chat -> SUBSET Place]
    BY <1>12, <2>2 DEF Apply
  <2>5. got' \in [Chat -> SUBSET Place] /\ owed' \in [Chat -> SUBSET Place]
    BY <1>12, <2>2 DEF Apply
  <2>6. twice' \in BOOLEAN
    BY <1>12 DEF Apply
  <2>7. UNCHANGED <<tables, notices, binding, listener, notified, wanted, metaFile, bindingFile,
                    bounds>>
    BY <1>12 DEF Apply
  <2> QED
    BY <2>3, <2>4, <2>5, <2>6, <2>7 DEF NoCycle
<1>13. CASE Bind
  BY <1>13 DEF Bind, Configure
<1>14. CASE WriteMeta
  BY <1>14 DEF WriteMeta
<1>15. CASE WriteBinding
  BY <1>15 DEF WriteBinding
<1>16. CASE Build
  BY <1>16 DEF Build, PausesLeft
<1>17. CASE ServePaused
  BY <1>17 DEF ServePaused
<1>18. CASE Stop
  <2>1. /\ stops' \in Nat /\ phase' = "down" /\ listening' = FALSE /\ cursor' = <<0, 0>>
        /\ failures' = 0 /\ lost' = FALSE /\ notified' = FALSE /\ failing' = {}
        /\ cycle'.step = "none" /\ cycle'.baseline = FALSE
    BY <1>18 DEF Stop, NoCycle, NoEpoch
  <2>2. anchors' = [c \in Chat |-> {}] /\ owed' = [c \in Chat |-> {}]
    BY <1>18 DEF Stop
  <2>3. UNCHANGED <<tables, notices, binding, wanted, metaFile, bindingFile, failingFile, halted,
                    got, twice, writes, restarts>>
    BY <1>18 DEF Stop
  <2> QED
    BY <2>1, <2>2, <2>3
<1>19. ASSUME NEW w \in Whitelists, Start(w) PROVE FeedTypeOK'
  BY <1>19, FeedAssumption DEF Start
<1>20. ASSUME NEW guarded \in SUBSET Chat, Baseline(guarded) PROVE FeedTypeOK'
  <2>1. \/ UNCHANGED listener
        \/ listening' = TRUE /\ cursor' = <<0, 0>> /\ failures' = 0 /\ lost' = FALSE
    BY <1>20 DEF Baseline, NoEpoch
  <2>2. /\ failing' \subseteq Chat /\ failingFile' \subseteq Chat /\ halted' \in BOOLEAN
        /\ phase' \in {phase, "serving"}
    BY <1>20 DEF Baseline
  <2>3. /\ cycle'.step \in {"none", "asked", "answered"} /\ cycle'.baseline \in BOOLEAN
    BY <1>20 DEF Baseline, Ask, NoCycle
  <2>4. UNCHANGED <<tables, notices, binding, notified, wanted, metaFile, bindingFile, anchors,
                    history, bounds>>
    BY <1>20 DEF Baseline
  <2>5. /\ listening' \in BOOLEAN /\ cursor' \in Nat \X Nat
        /\ failures' \in Nat /\ lost' \in BOOLEAN
    <3>1. CASE UNCHANGED listener
      BY <3>1
    <3>2. CASE listening' = TRUE /\ cursor' = <<0, 0>> /\ failures' = 0 /\ lost' = FALSE
      BY <3>2
    <3> QED
      BY <2>1, <3>1, <3>2
  <2> QED
    BY <2>2, <2>3, <2>4, <2>5
<1>21. CASE UNCHANGED feedVars
  BY <1>21 DEF feedVars
<1> HIDE DEF FeedTypeOK
<1> QED
  BY <1>1, <1>2, <1>3, <1>4, <1>5, <1>6, <1>7, <1>8, <1>9, <1>10, <1>11, <1>12, <1>13,
     <1>14, <1>15, <1>16, <1>17, <1>18, <1>19, <1>20, <1>21 DEF FeedNext

\* What the reading of a table promises at every step.
Reads == KnownStaysKnown /\ WaitingIsTold /\ WaitingAlarms /\ ~twice

LEMMA NothingLive ==
  ASSUME Live' = {}, ~twice, twice' = twice
  PROVE  Reads'
BY DEF Reads, KnownStaysKnown, WaitingIsTold, WaitingAlarms

\* Bridge and listener leave what is read alone, and a notice is passed on.
LEMMA ReadStays ==
  ASSUME Reads, Alarm => Alarm',
         UNCHANGED <<table, anchors, cycle, phase, wanted, failing, halted, got, owed, twice>>
  PROVE  Reads'
<1>1. /\ Live' = Live /\ \A c : NextAnchors(c)' = NextAnchors(c) /\ Waiting(c)' = Waiting(c)
  BY DEF Live, NextAnchors, Waiting, Readable
<1>2. \A c, p : IsNewer(c, p)' = IsNewer(c, p)
  BY <1>1 DEF IsNewer
<1> QED
  BY <1>1, <1>2 DEF Reads, KnownStaysKnown, WaitingIsTold, WaitingAlarms

\* The bridge's steps and the listener's pass a notice on.
LEMMA AlarmStays ==
  ASSUME FeedTypeOK, CursorFollows, Alarm,
         Watch \/ WatchLost \/ BridgeEnds \/ BridgeStarts \/ Listen \/ ListenFails
  PROVE  Alarm'
<1> USE DEF FeedTypeOK, CursorFollows, Alarm, tables, notices, listener
<1>1. CASE Watch
  BY <1>1 DEF Watch
<1>2. CASE WatchLost
  BY <1>2 DEF WatchLost
<1>3. CASE BridgeEnds
  BY <1>3 DEF BridgeEnds
<1>4. CASE BridgeStarts
  BY <1>4 DEF BridgeStarts
<1>5. CASE Listen
  BY <1>5 DEF Listen, Hear, News
<1>6. CASE ListenFails
  BY <1>6 DEF ListenFails
<1> QED
  BY <1>1, <1>2, <1>3, <1>4, <1>5, <1>6

\* A message that arrives while a chat is read is told from the anchors, and noticed.
LEMMA WriteReads ==
  ASSUME FeedTypeOK, CycleFollows, TablesHold, Reads,
         NEW c \in Chat, NEW p \in Place, NEW bad \in BOOLEAN, Write(c, p, bad)
  PROVE  Reads'
<1>1. /\ table' = [table EXCEPT ![c] = @ \cup {p}] /\ p \notin table[c]
      /\ UNCHANGED <<anchors, cycle, phase, wanted, failing, halted, got, twice>>
      /\ dirty' = (bridge = "up" \/ dirty) /\ bridge' = bridge
      /\ owed' = IF IsRead /\ IsNewer(c, p) THEN [owed EXCEPT ![c] = @ \cup {p}] ELSE owed
  BY DEF Write, reading, start, targets
<1>2. /\ Live' = Live /\ Live \subseteq Chat
      /\ \A d : NextAnchors(d)' = NextAnchors(d)
      /\ \A d, q : IsNewer(d, q)' = IsNewer(d, q)
  <2>1. Live' = Live /\ \A d : NextAnchors(d)' = NextAnchors(d)
    BY <1>1 DEF Live, NextAnchors, Readable
  <2>2. Live \subseteq Chat
    BY DEF Live, Readable, FeedTypeOK, CycleFollows
  <2> QED
    BY <2>1, <2>2 DEF IsNewer
<1>3. Alarm'
  <2>1. CASE bridge = "up"
    BY <1>1, <2>1 DEF Alarm
  <2>2. CASE bridge # "up"
    BY <1>1, <2>2 DEF Alarm
  <2> QED
    BY <2>1, <2>2
<1>4. ASSUME NEW d \in Live, NEW q \in Waiting(d)'
      PROVE  q \in Waiting(d) \/ (d = c /\ q = p /\ IsNewer(c, p) /\ p \notin NextAnchors(c))
  <2>1. p \notin NextAnchors(c)
    BY <1>1 DEF NextAnchors, TablesHold
  <2> QED
    BY <1>1, <1>2, <2>1 DEF Waiting, FeedTypeOK
<1>5. ASSUME NEW d \in Chat
      PROVE  Cardinality(table[d]) > Window => Cardinality(table'[d]) > Window
  <2>1. table[d] \subseteq table'[d] /\ table[d] \in SUBSET Place /\ table'[d] \in SUBSET Place
    BY <1>1 DEF FeedTypeOK
  <2>2. /\ IsFiniteSet(table'[d]) /\ Cardinality(table'[d]) \in Nat
        /\ Cardinality(table[d]) \in Nat
    BY <2>1, PlacesAreFinite
  <2>3. Cardinality(table[d]) <= Cardinality(table'[d])
    BY <2>1, <2>2, FS_Subset
  <2> QED
    BY <2>2, <2>3, FeedAssumption
<1>6. KnownStaysKnown'
  BY <1>1, <1>2 DEF Reads, KnownStaysKnown
<1>7. WaitingIsTold'
  <2> SUFFICES ASSUME NEW d \in Live, NEW q \in Waiting(d)'
               PROVE  \/ q \notin NextAnchors(d) /\ IsNewer(d, q)
                      \/ Cardinality(table'[d]) > Window /\ \E a \in NextAnchors(d) : q < a
    BY <1>2 DEF WaitingIsTold
  <2> QED
    BY <1>2, <1>4, <1>5 DEF Reads, WaitingIsTold
<1>8. WaitingAlarms' /\ ~twice'
  BY <1>1, <1>3 DEF Reads, WaitingAlarms
<1> QED
  BY <1>6, <1>7, <1>8 DEF Reads

\* A read asks for the chats that are live, and takes nothing back but the notice.
LEMMA PollReads ==
  ASSUME CycleFollows, Reads, Poll
  PROVE  Reads'
<1>1. /\ phase = "serving" /\ ~halted /\ cycle = NoCycle
      /\ cycle' = Ask(Readable, {}, FALSE)
      /\ UNCHANGED <<table, anchors, phase, wanted, failing, halted, got, owed, twice>>
  BY DEF Poll, tables, start, targets, history
<1>2. /\ cycle.step = "none" /\ ~cycle.baseline
      /\ cycle'.step = "asked" /\ ~cycle'.baseline
  BY <1>1 DEF NoCycle, Ask
<1>3. Live' = Live
  BY <1>1, <1>2 DEF Live, Readable
<1>4. \A c : NextAnchors(c)' = NextAnchors(c) /\ Waiting(c)' = Waiting(c)
  BY <1>1, <1>2 DEF NextAnchors, Waiting
<1>5. \A c, p : IsNewer(c, p)' = IsNewer(c, p)
  BY <1>4 DEF IsNewer
<1> QED
  BY <1>1, <1>2, <1>3, <1>4, <1>5 DEF Reads, KnownStaysKnown, WaitingIsTold, WaitingAlarms

\* The next anchors tell every row of the snapshot from what comes later.  What was owed and
\* is not among the new rows came late, below an anchor, into a table that outgrew the window.
LEMMA SnapshotReads ==
  ASSUME FeedTypeOK, CycleFollows, TablesHold, Reads, Snapshot, TablesHold'
  PROVE  Reads'
<1>1. /\ cycle.step = "asked" /\ cycle'.step = "answered" /\ cycle'.refs = cycle.refs
      /\ cycle'.errors \subseteq cycle.refs
      /\ \A c \in cycle.refs : ~cycle.baseline /\ AnchorLost(c) => c \in cycle'.errors
      /\ \A c \in cycle.refs : cycle'.anchors[c] = Newest(table[c], Anchors)
      /\ \A c \in cycle.refs \ cycle'.errors :
           cycle'.rows[c] = IF cycle.baseline THEN {} ELSE Selected(c)
      /\ owed' = IF cycle.baseline THEN [c \in Chat |-> {}] ELSE owed
      /\ UNCHANGED <<table, anchors, got, twice>>
  BY DEF Snapshot, tables
<1>2. cycle.refs = Readable /\ cycle.refs \subseteq Chat
  BY <1>1 DEF CycleFollows, FeedTypeOK, Readable
<1>3. Live' = cycle.refs \ cycle'.errors
  BY <1>1 DEF Live
<1>4. ASSUME NEW c \in Live'
      PROVE  /\ c \in Chat /\ NextAnchors(c)' = Newest(table[c], Anchors)
             /\ Waiting(c)' = IF cycle.baseline THEN {} ELSE owed[c] \ Selected(c)
             /\ Waiting(c)' \subseteq table[c] /\ cycle'.rows[c] \subseteq table[c]
  <2>1. c \in Chat /\ NextAnchors(c)' = Newest(table[c], Anchors)
    BY <1>1, <1>2, <1>3 DEF NextAnchors
  <2>2. Waiting(c)' = IF cycle.baseline THEN {} ELSE owed[c] \ Selected(c)
    BY <1>1, <1>3, <2>1 DEF Waiting
  <2>3. owed[c] \subseteq table[c]
    BY <2>1 DEF TablesHold
  <2>4. cycle'.rows[c] \subseteq table[c]
    BY <1>1, <1>3 DEF TablesHold
  <2> QED
    BY <2>1, <2>2, <2>3, <2>4
<1>5. ASSUME NEW c \in Live', NEW p \in table[c]
      PROVE  /\ p \in NextAnchors(c)' \/ ~IsNewer(c, p)'
             /\ \E a \in NextAnchors(c)' : p <= a
  <2>1. /\ \A x \in NextAnchors(c)', y \in table[c] : y > x => y \in NextAnchors(c)'
        /\ \E a \in NextAnchors(c)' : p <= a
        /\ NextAnchors(c)' \subseteq Nat /\ p \in Nat
    <3>1. table[c] \in SUBSET Place
      BY <1>4 DEF FeedTypeOK
    <3>2. table[c] \subseteq Nat
      BY <3>1, PlacesAreFinite
    <3>3. /\ Newest(table[c], Anchors) \subseteq table[c]
          /\ \A x \in Newest(table[c], Anchors), y \in table[c] :
               y > x => y \in Newest(table[c], Anchors)
          /\ \E a \in Newest(table[c], Anchors) : p <= a
      BY <3>1, NewestFacts, FeedAssumption
    <3> QED
      BY <1>4, <3>2, <3>3
  <2> QED
    BY <2>1 DEF IsNewer
<1>6. KnownStaysKnown'
  <2> SUFFICES ASSUME NEW c \in Live', NEW p \in got[c] \cup cycle'.rows[c]
               PROVE  p \in NextAnchors(c)' \/ ~IsNewer(c, p)'
    BY <1>1 DEF KnownStaysKnown
  <2>1. p \in table[c]
    BY <1>4 DEF TablesHold
  <2> QED
    BY <1>5, <2>1
<1>7. WaitingAlarms'
  BY <1>4, <1>5 DEF WaitingAlarms
<1>8. WaitingIsTold'
  <2> SUFFICES ASSUME NEW c \in Live', NEW p \in Waiting(c)'
               PROVE  /\ Cardinality(table[c]) > Window
                      /\ \E a \in NextAnchors(c)' : p < a
    BY <1>1 DEF WaitingIsTold
  <2> DEFINE rows == Newest(table[c], Window)
  <2>1. /\ ~cycle.baseline /\ c \in Chat /\ p \in owed[c] /\ p \notin Selected(c)
        /\ ~AnchorLost(c)
    BY <1>1, <1>3, <1>4
  <2>2. c \in Live /\ NextAnchors(c) = anchors[c] /\ Waiting(c) = owed[c]
    BY <1>1, <1>2, <1>3, <2>1 DEF Live, NextAnchors, Waiting, CycleFollows
  <2>3. \/ p \notin anchors[c] /\ (anchors[c] = {} \/ \E a \in anchors[c] : a < p)
        \/ Cardinality(table[c]) > Window /\ \E a \in anchors[c] : p < a
    BY <2>1, <2>2 DEF Reads, WaitingIsTold, IsNewer
  <2>4. /\ table[c] \in SUBSET Place /\ table[c] \subseteq Nat /\ anchors[c] \subseteq table[c]
        /\ p \in table[c]
    <3>1. table[c] \in SUBSET Place /\ anchors[c] \subseteq table[c] /\ p \in table[c]
      BY <2>1 DEF FeedTypeOK, TablesHold
    <3> QED
      BY <3>1, PlacesAreFinite
  <2>5. /\ rows \subseteq table[c]
        /\ \A q \in table[c] : \E a \in rows : q <= a
        /\ \A q \in table[c] \ rows : Cardinality(table[c]) > Window
    BY <2>4, NewestFacts, FeedAssumption
  <2>6. ASSUME NEW b \in table[c], p < b PROVE \E a \in NextAnchors(c)' : p < a
    <3>1. PICK a \in NextAnchors(c)' : b <= a
      BY <1>5
    <3>2. a \in Nat /\ b \in Nat /\ p \in Nat
      BY <1>4, <2>4 DEF Newest
    <3> QED
      BY <2>6, <3>1, <3>2
  <2>7. CASE Cardinality(table[c]) > Window /\ \E a \in anchors[c] : p < a
    BY <2>4, <2>6, <2>7
  <2>8. CASE p \notin rows
    <3>1. PICK b \in rows : p <= b
      BY <2>4, <2>5
    <3>2. b \in table[c] /\ p < b
      BY <2>4, <2>5, <2>8, <3>1
    <3> QED
      BY <2>4, <2>5, <2>6, <2>8, <3>2
  <2>9. CASE p \in rows /\ p \notin anchors[c]
             /\ (anchors[c] = {} \/ \E a \in anchors[c] : a < p)
    <3>1. rows \cap anchors[c] # {} /\ \A a \in rows \cap anchors[c] : ~(a < p)
      BY <2>1, <2>9 DEF Selected
    <3>2. PICK a \in anchors[c] : a < p
      BY <2>9, <3>1
    <3>3. a \in table[c] \ rows
      BY <2>4, <3>1, <3>2
    <3>4. PICK o \in rows \cap anchors[c] : ~(o < p)
      BY <3>1
    <3>5. o \in table[c] /\ p < o
      BY <2>4, <2>9, <3>4
    <3> QED
      BY <2>5, <2>6, <3>3, <3>5
  <2> QED
    BY <2>3, <2>7, <2>8, <2>9
<1> QED
  BY <1>1, <1>6, <1>7, <1>8 DEF Reads

\* Every row of a chat that stays is yielded before its anchors move; no row of the answer
\* was yielded before.
LEMMA ApplyReads ==
  ASSUME FeedTypeOK, CycleFollows, TablesHold, Reads, Apply
  PROVE  Reads'
<1>1. /\ cycle.step = "answered" /\ cycle' = NoCycle /\ phase' = "serving"
      /\ failing' = failing \cup Refused
      /\ anchors' = [c \in Chat |-> IF c \in cycle.refs \ Refused THEN cycle.anchors[c]
                                    ELSE anchors[c]]
      /\ got' = [c \in Chat |-> IF c \in cycle.refs THEN got[c] \cup Yielded(c) ELSE got[c]]
      /\ owed' = [c \in Chat |-> IF c \in cycle.refs THEN owed[c] \ Yielded(c) ELSE owed[c]]
      /\ UNCHANGED <<table, wanted, notices, listener, notified>>
  BY DEF Apply, tables
<1>2. cycle'.step = "none"
  BY <1>1 DEF NoCycle
<1>3. /\ Live = cycle.refs \ cycle.errors /\ cycle.refs = wanted \ failing
      /\ cycle.refs \subseteq Chat
  BY <1>1 DEF Live, CycleFollows, FeedTypeOK
<1>4. Live' \subseteq cycle.refs \ Refused
  BY <1>1, <1>2, <1>3 DEF Live, Readable
<1>5. cycle.refs \ Refused \subseteq Live
  BY <1>3 DEF Refused
<1>6. ASSUME NEW c \in Live'
      PROVE  /\ c \in Live /\ NextAnchors(c)' = NextAnchors(c) /\ Waiting(c)' = Waiting(c)
             /\ got'[c] = got[c] \cup cycle.rows[c]
  <2>1. c \in Live /\ c \in cycle.refs \ Refused /\ c \in Chat
    BY <1>3, <1>4, <1>5
  <2>2. Yielded(c) = cycle.rows[c]
    BY <2>1 DEF Yielded, Refused
  <2>3. NextAnchors(c)' = NextAnchors(c)
    BY <1>1, <1>2, <1>3, <2>1 DEF NextAnchors
  <2>4. Waiting(c)' = Waiting(c)
    BY <1>1, <1>2, <2>1, <2>2 DEF Waiting
  <2>5. got'[c] = got[c] \cup cycle.rows[c]
    BY <1>1, <2>1, <2>2
  <2> QED
    BY <2>1, <2>3, <2>4, <2>5
<1>7. \A c \in Live' : \A p : IsNewer(c, p)' = IsNewer(c, p)
  BY <1>6 DEF IsNewer
<1>8. Alarm' = Alarm
  BY <1>1 DEF Alarm, notices, listener
<1>9. KnownStaysKnown'
  BY <1>1, <1>2, <1>6, <1>7 DEF Reads, KnownStaysKnown
<1>10. WaitingIsTold'
  BY <1>1, <1>6, <1>7 DEF Reads, WaitingIsTold
<1>11. WaitingAlarms'
  BY <1>1, <1>6, <1>7, <1>8 DEF Reads, WaitingAlarms
<1>12. ~twice'
  <2>1. \A c \in cycle.refs : Yielded(c) \cap got[c] = {}
    BY <1>1 DEF TablesHold, Yielded
  <2>2. ~twice /\ twice' = (twice \/ \E c \in cycle.refs : Yielded(c) \cap got[c] # {})
    BY DEF Reads, Apply
  <2> QED
    BY <2>1, <2>2
<1> QED
  BY <1>9, <1>10, <1>11, <1>12 DEF Reads

\* Every step keeps what reading promises.
LEMMA ReadStep ==
  ASSUME FeedTypeOK, CycleFollows, CursorFollows, TablesHold, Reads, [FeedNext]_feedVars
  PROVE  Reads'
<1> USE DEF tables, notices, binding, listener, start, targets, reading, history, bounds
<1>1. ASSUME NEW c \in Chat, NEW p \in Place, NEW bad \in BOOLEAN, Write(c, p, bad) PROVE Reads'
  BY <1>1, WriteReads
<1>2. CASE Watch
  <2>1. UNCHANGED <<table, anchors, cycle, phase, wanted, failing, halted, got, owed, twice>>
    BY <1>2 DEF Watch
  <2> QED
    BY <1>2, <2>1, AlarmStays, ReadStays
<1>3. CASE WatchLost
  <2>1. UNCHANGED <<table, anchors, cycle, phase, wanted, failing, halted, got, owed, twice>>
    BY <1>3 DEF WatchLost
  <2> QED
    BY <1>3, <2>1, AlarmStays, ReadStays
<1>4. CASE BridgeEnds
  <2>1. UNCHANGED <<table, anchors, cycle, phase, wanted, failing, halted, got, owed, twice>>
    BY <1>4 DEF BridgeEnds
  <2> QED
    BY <1>4, <2>1, AlarmStays, ReadStays
<1>5. CASE BridgeStarts
  <2>1. UNCHANGED <<table, anchors, cycle, phase, wanted, failing, halted, got, owed, twice>>
    BY <1>5 DEF BridgeStarts
  <2> QED
    BY <1>5, <2>1, AlarmStays, ReadStays
<1>6. CASE Listen
  <2>1. UNCHANGED <<table, anchors, cycle, phase, wanted, failing, halted, got, owed, twice>>
    BY <1>6 DEF Listen
  <2> QED
    BY <1>6, <2>1, AlarmStays, ReadStays
<1>7. CASE ListenFails
  <2>1. UNCHANGED <<table, anchors, cycle, phase, wanted, failing, halted, got, owed, twice>>
    BY <1>7 DEF ListenFails
  <2> QED
    BY <1>7, <2>1, AlarmStays, ReadStays
<1>8. CASE Poll
  BY <1>8, PollReads
<1>9. CASE PollLost
  <2>1. Live' = {} /\ twice' = twice
    BY <1>9 DEF PollLost, Halt, Live, Readable, NoCycle, CycleFollows
  <2> QED
    BY <2>1, NothingLive DEF Reads
<1>10. CASE Snapshot
  BY <1>10, SnapshotReads, TablesStep DEF Reads
<1>11. CASE CycleFails
  <2>1. Live' = {} /\ twice' = twice
    BY <1>11 DEF CycleFails, Halt, Live, Readable, NoCycle, CycleFollows
  <2> QED
    BY <2>1, NothingLive DEF Reads
<1>12. CASE Apply
  BY <1>12, ApplyReads
<1>13. CASE Bind
  <2>1. Live' = {} /\ twice' = twice
    BY <1>13 DEF Bind, Configure, Live, Readable, NoCycle, CycleFollows
  <2> QED
    BY <2>1, NothingLive DEF Reads
<1>14. CASE WriteMeta
  <2>1. Live' = {} /\ twice' = twice
    BY <1>14 DEF WriteMeta, Live, Readable, NoCycle, CycleFollows
  <2> QED
    BY <2>1, NothingLive DEF Reads
<1>15. CASE WriteBinding
  <2>1. Live' = {} /\ twice' = twice
    BY <1>15 DEF WriteBinding, Live, Readable, NoCycle, CycleFollows
  <2> QED
    BY <2>1, NothingLive DEF Reads
<1>16. CASE Build
  <2>1. Live' = {} /\ twice' = twice
    BY <1>16 DEF Build, PausesLeft, Live, Readable, NoCycle, CycleFollows
  <2> QED
    BY <2>1, NothingLive DEF Reads
<1>17. CASE ServePaused
  <2>1. Live' = {} /\ twice' = twice
    BY <1>17 DEF ServePaused, Live, Readable, NoCycle, CycleFollows
  <2> QED
    BY <2>1, NothingLive DEF Reads
<1>18. CASE Stop
  <2>1. Live' = {} /\ twice' = twice
    BY <1>18 DEF Stop, Live, Readable, NoCycle, CycleFollows
  <2> QED
    BY <2>1, NothingLive DEF Reads
<1>19. ASSUME NEW w \in Whitelists, Start(w) PROVE Reads'
  <2>1. Live' = {} /\ twice' = twice
    BY <1>19 DEF Start, Live, Readable, NoCycle, CycleFollows
  <2> QED
    BY <2>1, NothingLive DEF Reads
<1>20. ASSUME NEW guarded \in SUBSET Chat, Baseline(guarded) PROVE Reads'
  <2>1. Live' = {} /\ twice' = twice
    BY <1>20 DEF Baseline, Ask, Live, Readable, NoCycle, CycleFollows
  <2> QED
    BY <2>1, NothingLive DEF Reads
<1>21. CASE UNCHANGED feedVars
  <2>1. /\ UNCHANGED <<table, anchors, cycle, phase, wanted, failing, halted, got, owed, twice>>
        /\ Alarm' = Alarm
    BY <1>21 DEF feedVars, Alarm
  <2> QED
    BY <2>1, ReadStays
<1> HIDE DEF Reads
<1> QED
  BY <1>1, <1>2, <1>3, <1>4, <1>5, <1>6, <1>7, <1>8, <1>9, <1>10, <1>11, <1>12, <1>13,
     <1>14, <1>15, <1>16, <1>17, <1>18, <1>19, <1>20, <1>21 DEF FeedNext

\* MessageFeed's inductive invariant holds of every whitelist, table, window and number of
\* anchors.
THEOREM FeedInvariant == FeedSpec => []FeedInv
<1>1. FeedInit => FeedInv
  <2> SUFFICES ASSUME FeedInit PROVE FeedInv
    OBVIOUS
  <2>1. Live = {}
    BY DEF FeedInit, Live, NoCycle
  <2>2. FeedTypeOK
    <3>1. /\ table \in [Chat -> SUBSET Place] /\ config \subseteq Chat
          /\ broken = [c \in Chat |-> {}] /\ anchors = [c \in Chat |-> {}]
          /\ got = [c \in Chat |-> {}] /\ owed = [c \in Chat |-> {}]
      BY FeedAssumption DEF FeedInit
    <3>2. /\ cycle.step = "none" /\ cycle.baseline = FALSE /\ cursor = <<0, 0>>
      BY DEF FeedInit, NoEpoch, NoCycle
    <3>3. /\ table \in [Chat -> SUBSET Place] /\ broken \in [Chat -> SUBSET Place]
          /\ anchors \in [Chat -> SUBSET Place] /\ got \in [Chat -> SUBSET Place]
          /\ owed \in [Chat -> SUBSET Place]
      BY <3>1
    <3>4. cursor \in Nat \X Nat
      BY <3>2
    <3>5. /\ bridge = "up" /\ epoch = 1 /\ sequence = 0 /\ dirty = FALSE
          /\ configFile = config /\ listening = FALSE /\ failures = 0 /\ lost = FALSE
          /\ notified = FALSE /\ phase = "down" /\ wanted = config /\ metaFile = config
          /\ bindingFile = config /\ failing = {} /\ failingFile = {} /\ halted = FALSE
          /\ twice = FALSE /\ writes = 0 /\ restarts = 0 /\ stops = 0
      BY DEF FeedInit
    <3>6. /\ epoch \in Nat \ {0} /\ sequence \in Nat /\ failures \in Nat
          /\ writes \in Nat /\ restarts \in Nat /\ stops \in Nat
      BY <3>5
    <3>7. /\ dirty \in BOOLEAN /\ listening \in BOOLEAN /\ lost \in BOOLEAN
          /\ notified \in BOOLEAN /\ halted \in BOOLEAN /\ twice \in BOOLEAN
          /\ cycle.baseline \in BOOLEAN
      BY <3>2, <3>5
    <3>8. /\ bridge \in {"up", "blind", "down"} /\ cycle.step \in {"none", "asked", "answered"}
          /\ phase \in {"down", "sync", "bound", "meta", "written", "built", "serving"}
      BY <3>2, <3>5
    <3> QED
      BY <3>1, <3>3, <3>4, <3>5, <3>6, <3>7, <3>8, Zenon DEF FeedTypeOK
  <2>3. StartFollows /\ CycleFollows /\ CursorFollows /\ TablesHold
    BY DEF FeedInit, StartFollows, CycleFollows, CursorFollows, TablesHold, NoEpoch, NoCycle
  <2>4. KnownStaysKnown /\ WaitingIsTold /\ WaitingAlarms /\ ~twice
    BY <2>1 DEF FeedInit, KnownStaysKnown, WaitingIsTold, WaitingAlarms
  <2> QED
    BY <2>2, <2>3, <2>4 DEF FeedInv
<1>2. FeedInv /\ [FeedNext]_feedVars => FeedInv'
  <2> SUFFICES ASSUME FeedInv, [FeedNext]_feedVars PROVE FeedInv'
    OBVIOUS
  <2>1. FeedTypeOK' /\ StartFollows' /\ CycleFollows' /\ CursorFollows'
    BY FeedTypeStep, StartStep, CycleStep, CursorStep DEF FeedInv
  <2>2. TablesHold' /\ Reads'
    BY TablesStep, ReadStep DEF FeedInv, Reads
  <2> QED
    BY <2>1, <2>2 DEF FeedInv, Reads
<1> QED
  BY <1>1, <1>2, PTL DEF FeedSpec

LEMMA ServedIsLive ==
  ASSUME FeedInv
  PROVE  Served \subseteq Live
<1>1. CASE cycle.step = "answered"
  BY <1>1 DEF FeedInv, Served, Live, CycleFollows, Readable
<1>2. CASE cycle.step # "answered"
  BY <1>2 DEF Served, Live
<1> QED
  BY <1>1, <1>2

\* For every whitelist and every order of crashes, service, bridge and files agree on the chats.
THEOREM WhitelistIsServed == FeedSpec => []ServedIsBound
<1>1. FeedInv => ServedIsBound
  BY DEF FeedInv, StartFollows, ServedIsBound, PausesLeft
<1> QED
  BY <1>1, FeedInvariant, PTL

\* For every window and every number of anchors, no message is passed over or read twice.
THEOREM FeedReadsExactly == FeedSpec => []FeedIsExact
<1>1. FeedInv => FeedIsExact
  BY ServedIsLive DEF FeedInv, WaitingIsTold, FeedIsExact
<1> QED
  BY <1>1, FeedInvariant, PTL

\* For every order of notices, reads, lost watches and restarts, no wakeup is lost.
THEOREM FeedWakesUp == FeedSpec => []NoLostWakeup
<1>1. FeedInv => NoLostWakeup
  BY ServedIsLive DEF FeedInv, WaitingAlarms, Alarm, NoLostWakeup
<1> QED
  BY <1>1, FeedInvariant, PTL
=============================================================================
