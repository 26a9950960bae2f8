-------------------------- MODULE FeedCursorProofs --------------------------
(***************************************************************************)
(* Proofs about FeedCursor, for any items, times, ladder and history: what  *)
(* falls behind the cursor is in layer 0.                                   *)
(***************************************************************************)
EXTENDS FeedCursor, SequenceTheorems, TLAPS

\* The anchors a pull may ask from: the cursor's and its history's.
Anchors == {h \in Revisions : h = cursor \/ \E k \in 1..Len(history) : history[k] = h}

Seen(i) == Listed(i) \/ i \in removed

\* A revision once fetched is of an item that was listed, and an item only
\* gets later stamps; where items do not change it gets none.
Known(r) ==
    /\ Seen(r[1])
    /\ Listed(r[1]) => r[2] <= shown[r[1]] /\ (~MayAmend => r[2] = shown[r[1]])

ShownPast == \A i \in Items : shown[i] <= now /\ (i \in removed => ~Listed(i))
AnchorsKnown == \A h \in Anchors :
    Known(h) /\ cursor # NoCursor /\ h[2] <= now /\ (Listed(h[1]) => h[2] <= cursor[2])
GotKnown == \A q \in got : q \in landed /\ Known(q) /\ q[2] <= now

AskShape ==
    /\ pc = "ask" => cursor # NoCursor /\ cutoff = Since(cursor)
    /\ pc = "back" => /\ cursor # NoCursor /\ step \in 1..Len(history)
                      /\ cutoff = Since(history[step])
    /\ pc = "whole" => cutoff = Whole
    /\ pc \in {"rung", "window"} => cutoff \in Times
    /\ (cursor = NoCursor) => history = <<>>

Accounted(r) ==
    r \in landed \/ r[1] \in overdue \/ r[2] < bound

\* What an accepted response must be before the cursor moves to its newest item.
GotSafe ==
    pc = "landed" =>
        /\ \A r \in Visible, q \in got : r[2] < q[2] - Overlap => Accounted(r)
        /\ \A h \in Anchors : Listed(h[1]) /\ got # {} => \E q \in got : h[2] <= q[2]

IInv == /\ TypeOK /\ (pc = "rung" => cutoff \in Times) 
        /\ ShownPast /\ AnchorsKnown /\ GotKnown /\ AskShape /\ GotSafe /\ NothingSkipped

----------------------------------------------------------------------------
\* The history after the cursor moved: the anchor it left, and what it had.
LEMMA HistoryMoves ==
    ASSUME NEW S, NEW h \in Seq(S), NEW c \in S, NEW n \in Nat, n <= Len(h) + 1
    PROVE  /\ SubSeq(<<c>> \o h, 1, n) \in Seq(S)
           /\ Len(SubSeq(<<c>> \o h, 1, n)) = n
           /\ \A k \in 1..n : \/ SubSeq(<<c>> \o h, 1, n)[k] = c
                              \/ \E j \in 1..Len(h) : SubSeq(<<c>> \o h, 1, n)[k] = h[j]
<1> DEFINE s == <<c>> \o h
<1>1. <<c>> \in Seq(S) /\ Len(<<c>>) = 1 /\ <<c>>[1] = c
  OBVIOUS
<1>2. s \in Seq(S) /\ Len(s) = Len(h) + 1
  BY <1>1, ConcatProperties
<1>3. \A k \in 1..Len(h) + 1 : s[k] = IF k <= 1 THEN c ELSE h[k - 1]
  BY <1>1, ConcatProperties
<1>4. \A k \in 1..n : s[k] \in S
  BY <1>2
<1> HIDE DEF s
<1>5. /\ SubSeq(s, 1, n) \in Seq(S) /\ Len(SubSeq(s, 1, n)) = IF 1 <= n THEN n - 1 + 1 ELSE 0
      /\ \A k \in 1..(n - 1 + 1) : SubSeq(s, 1, n)[k] = s[1 + k - 1]
  BY <1>4, SubSeqProperties
<1>6. ASSUME NEW k \in 1..n
      PROVE SubSeq(s, 1, n)[k] = c \/ \E j \in 1..Len(h) : SubSeq(s, 1, n)[k] = h[j]
  <2>1. SubSeq(s, 1, n)[k] = s[k]
    BY <1>5
  <2>2. CASE k = 1
    BY <2>1, <2>2, <1>3
  <2>3. CASE k # 1
    <3>1. s[k] = h[k - 1] /\ k - 1 \in 1..Len(h)
      BY <1>3, <2>3
    <3> QED BY <3>1, <2>1
  <2> QED BY <2>2, <2>3
<1> QED BY <1>5, <1>6 DEF s

\* TypeOK, and a ladder's cutoff is a time.
TypeInv == TypeOK /\ (pc = "rung" => cutoff \in Times)

LEMMA OverTypes ==
    Over => /\ step' \in Nat /\ cutoff' \in Times /\ sweeping' \in BOOLEAN
            /\ pc' = "idle" /\ got' \subseteq Revisions
<1> SUFFICES ASSUME Over
             PROVE  /\ step' \in Nat /\ cutoff' \in Times /\ sweeping' \in BOOLEAN
                    /\ pc' = "idle" /\ got' \subseteq Revisions
  OBVIOUS
<1>1. step' \in Nat /\ cutoff' \in Times /\ pc' = "idle"
  BY CursorAssumption DEF Over, Times
<1>2. sweeping' \in BOOLEAN
  BY Zenon DEF Over
<1>3. got' \subseteq Revisions
  BY DEF Over
<1> QED BY <1>1, <1>2, <1>3

\* Where StepBack leads, and what the range ladder asks for, are of their types.
LEMMA StepBackTypes ==
    ASSUME TypeOK, NEW k \in Nat, k >= 1, StepBack(k)
    PROVE  /\ step' \in Nat /\ cutoff' \in Int /\ sweeping' \in BOOLEAN
           /\ pc' \in {"back", "whole"}
<1>1. CASE k <= Len(history)
  <2>1. history[k] \in Revisions
    BY <1>1 DEF TypeOK
  <2>2. Since(history[k]) \in Int
    BY <2>1, CursorAssumption DEF Since, Revisions, Times
  <2> QED BY <1>1, <2>2 DEF StepBack, TypeOK
<1>2. CASE ~(k <= Len(history))
  BY <1>2, CursorAssumption DEF StepBack, Whole
<1> QED BY <1>1, <1>2

LEMMA RungTypes ==
    ASSUME TypeOK, NEW k \in Nat, k >= 1, Rung(k)
    PROVE  /\ step' \in Nat /\ cutoff' \in Times /\ sweeping' \in BOOLEAN
           /\ pc' \in {"rung", "idle"} /\ got' \subseteq Revisions
<1>1. CASE k <= Len(Rungs)
  <2>1. Rungs[k] \in Nat
    BY <1>1, CursorAssumption DEF Rung
  <2> QED BY <1>1, <2>1, CursorAssumption DEF Rung, TypeOK, Times
<1>2. CASE ~(k <= Len(Rungs))
  BY <1>2, OverTypes DEF Rung
<1> QED BY <1>1, <1>2

LEMMA LandsTypes ==
    ASSUME TypeOK, Lands
    PROVE  got' \subseteq Revisions /\ landed' \subseteq Revisions
BY DEF TypeOK, Lands, LandsFrom, Response, AskedFor, Visible

LEMMA AdvancedTypes ==
    ASSUME TypeOK, NEW a \in Revisions, Advanced(a)
    PROVE  /\ cursor' \in Revisions /\ history' \in Seq(Revisions)
           /\ \A k \in 1..Len(history') :
                 \/ cursor # NoCursor /\ history'[k] = cursor
                 \/ \E j \in 1..Len(history) : history'[k] = history[j]
<1>1. CASE cursor = NoCursor \/ a = cursor
  BY <1>1 DEF Advanced, TypeOK
<1>2. CASE ~(cursor = NoCursor \/ a = cursor)
  <2> DEFINE n == IF Len(history) < Keep THEN Len(history) + 1 ELSE Keep
  <2>1. n \in Nat /\ n <= Len(history) + 1
    BY CursorAssumption DEF TypeOK
  <2>2. history' = SubSeq(<<cursor>> \o history, 1, n)
    BY <1>2 DEF Advanced
  <2>3. cursor \in Revisions /\ history \in Seq(Revisions)
    BY <1>2 DEF TypeOK
  <2> HIDE DEF n
  <2>4. LET s == SubSeq(<<cursor>> \o history, 1, n)
        IN /\ s \in Seq(Revisions) /\ Len(s) = n
           /\ \A k \in 1..n : s[k] = cursor \/ \E j \in 1..Len(history) : s[k] = history[j]
    BY <2>1, <2>3, HistoryMoves
  <2>5. /\ history' \in Seq(Revisions) /\ Len(history') = n
        /\ \A k \in 1..n : history'[k] = cursor
                             \/ \E j \in 1..Len(history) : history'[k] = history[j]
    BY <2>2, <2>4, Zenon
  <2> QED BY <2>5, <1>2 DEF Advanced
<1> QED BY <1>1, <1>2

LEMMA TypeStep == TypeInv /\ [Next]_vars => TypeInv'
<1> SUFFICES ASSUME TypeOK, pc = "rung" => cutoff \in Times, [Next]_vars PROVE TypeInv'
  BY DEF TypeInv
<1> USE CursorAssumption
<1>1. CASE Begin
  <2>1. CASE sweeping'
    BY <1>1, <2>1 DEF Begin, TypeOK, TypeInv, provider, store, Whole
  <2>2. CASE ~sweeping'
    <3>1. cursor # NoCursor
      BY <1>1, <2>2 DEF Begin
    <3>2. Since(cursor) \in Int
      BY <3>1 DEF TypeOK, Since, Revisions, Times
    <3> QED BY <1>1, <2>2, <3>2 DEF Begin, TypeOK, TypeInv, provider, store
  <2> QED BY <2>1, <2>2
<1>2. CASE BeginWindow
  <2>1. sweeping' \in BOOLEAN
    BY <1>2, Zenon DEF BeginWindow
  <2> QED BY <1>2, <2>1 DEF BeginWindow, TypeOK, TypeInv, provider, store, Times
<1>3. CASE Ask
  <2>1. got' \subseteq Revisions /\ landed' \subseteq Revisions
    BY <1>3, LandsTypes DEF Ask
  <2>3. CASE CanaryPresent(got', cursor)
    BY <1>3, <2>1, <2>3 DEF Ask, TypeOK, TypeInv, provider
  <2>4. CASE ~CanaryPresent(got', cursor)
    <3>1. StepBack(1)
      BY <1>3, <2>4 DEF Ask
    <3>2. /\ step' \in Nat /\ cutoff' \in Int /\ sweeping' \in BOOLEAN
          /\ pc' \in {"back", "whole"}
      BY <3>1, StepBackTypes
    <3> QED BY <1>3, <2>1, <3>2 DEF Ask, TypeOK, TypeInv, provider
  <2> QED BY <2>3, <2>4
<1>4. CASE AskBack
  <2>1. got' \subseteq Revisions /\ landed' \subseteq Revisions
    BY <1>4, LandsTypes DEF AskBack
  <2>3. CASE CanaryPresent(got', history[step])
    BY <1>4, <2>1, <2>3 DEF AskBack, TypeOK, TypeInv, provider
  <2>4. CASE ~CanaryPresent(got', history[step])
    <3>1. StepBack(step + 1) /\ step + 1 \in Nat /\ step + 1 >= 1
      BY <1>4, <2>4 DEF AskBack, TypeOK
    <3>2. /\ step' \in Nat /\ cutoff' \in Int /\ sweeping' \in BOOLEAN
          /\ pc' \in {"back", "whole"}
      BY <3>1, StepBackTypes
    <3> QED BY <1>4, <2>1, <3>2 DEF AskBack, TypeOK, TypeInv, provider
  <2> QED BY <2>3, <2>4
<1>5. CASE AskWhole \/ AskWindow
  BY <1>5, LandsTypes DEF AskWhole, AskWindow, TypeOK, TypeInv, provider
<1>6. CASE AskRung
  <2>1. Lands /\ \E shift \in {0, Shift} :
                      bound' = IF cutoff + shift > bound THEN cutoff + shift ELSE bound
    BY <1>6 DEF AskRung, Lands, LandsFrom
  <2>2. bound' \in 0..(MaxTime + Shift) /\ cutoff \in Times
    BY <1>6, <2>1 DEF AskRung, TypeOK, TypeInv, Times
  <2> QED BY <1>6, <2>1, <2>2, LandsTypes DEF AskRung, TypeOK, TypeInv, provider
<1>7. CASE AskRefused
  <2>1. /\ step' \in Nat /\ cutoff' \in Times /\ sweeping' \in BOOLEAN
        /\ pc' \in {"rung", "idle"} /\ got' \subseteq Revisions
    BY <1>7, OverTypes DEF AskRefused
  <2>2. UNCHANGED <<provider, store, crashes>>
    BY <1>7 DEF AskRefused
  <2> QED BY <2>1, <2>2 DEF TypeOK, TypeInv, provider, store, Times
<1>8. CASE BackRefused
  <2>1. StepBack(step + 1) /\ step + 1 \in Nat /\ step + 1 >= 1
    BY <1>8 DEF BackRefused, TypeOK
  <2>2. /\ step' \in Nat /\ cutoff' \in Int /\ sweeping' \in BOOLEAN
        /\ pc' \in {"back", "whole"}
    BY <2>1, StepBackTypes
  <2> QED BY <1>8, <2>2 DEF BackRefused, TypeOK, TypeInv, provider, store
<1>9. CASE WholeRefused \/ WholeTooWide \/ RungRefused \/ RungTooWide
  <2>1. step + 1 \in Nat /\ step + 1 >= 1
    BY DEF TypeOK
  <2>2. Over \/ Rung(1) \/ Rung(step + 1)
    BY <1>9 DEF WholeRefused, WholeTooWide, RungRefused, RungTooWide
  <2>3. /\ step' \in Nat /\ cutoff' \in Times /\ sweeping' \in BOOLEAN
        /\ pc' \in {"rung", "idle"} /\ got' \subseteq Revisions
    BY <2>1, <2>2, OverTypes, RungTypes
  <2>4. UNCHANGED <<provider, store, crashes>>
    BY <1>9 DEF WholeRefused, WholeTooWide, RungRefused, RungTooWide
  <2> QED BY <2>3, <2>4 DEF TypeOK, TypeInv, provider, store, Times
<1>10. CASE SaveCursor
  <2>1. cursor' \in Revisions \cup {NoCursor} /\ history' \in Seq(Revisions)
    <3>1. CASE got = {}
      BY <1>10, <3>1 DEF SaveCursor, TypeOK
    <3>2. CASE got # {}
      <4>1. PICK a \in Newest(got) : Advanced(a)
        BY <1>10, <3>2 DEF SaveCursor
      <4>2. a \in Revisions
        BY DEF Newest, TypeOK
      <4> QED BY <4>1, <4>2, AdvancedTypes
    <3> QED BY <3>1, <3>2
  <2> QED BY <1>10, <2>1 DEF SaveCursor, TypeOK, TypeInv, provider
<1>11. CASE StampSweep
  BY <1>11 DEF StampSweep, TypeOK, TypeInv, provider
<1>12. CASE Reconcile
  <2>1. /\ step' \in Nat /\ cutoff' \in Times /\ sweeping' \in BOOLEAN
        /\ pc' \in {"rung", "idle"} /\ got' \subseteq Revisions
    BY <1>12, OverTypes DEF Reconcile
  <2>2. /\ UNCHANGED <<provider, landed, cursor, history, sweptAgo, bound, crashes>>
        /\ rows' = rows \cup got
    BY <1>12 DEF Reconcile
  <2> QED BY <2>1, <2>2 DEF TypeOK, TypeInv, provider, Times
<1>13. CASE Replay
  BY <1>13 DEF Replay, TypeOK, TypeInv, provider, locals
<1>14. CASE Crash
  <2>1. /\ step' \in Nat /\ cutoff' \in Times /\ sweeping' \in BOOLEAN
        /\ pc' \in {"rung", "idle"} /\ got' \subseteq Revisions
    BY <1>14, OverTypes DEF Crash
  <2>2. UNCHANGED <<provider, store>> /\ crashes < MaxCrashes /\ crashes' = crashes + 1
    BY <1>14 DEF Crash
  <2> QED BY <2>1, <2>2 DEF TypeOK, TypeInv, provider, store, Times
<1>15. CASE Day
  BY <1>15 DEF Day, TypeOK, TypeInv, provider, locals
<1>16. CASE Tick
  BY <1>16 DEF Tick, TypeOK, TypeInv, store, locals, Times
<1>17. ASSUME NEW i \in Items, Change(i) \/ Remove(i) PROVE TypeInv'
  BY <1>17 DEF Change, Remove, TypeOK, TypeInv, store, locals, Listed
<1>18. CASE UNCHANGED vars
  BY <1>18 DEF vars, provider, store, locals, TypeOK, TypeInv
<1> QED BY <1>1, <1>2, <1>3, <1>4, <1>5, <1>6, <1>7, <1>8, <1>9, <1>10, <1>11, <1>12,
           <1>13, <1>14, <1>15, <1>16, <1>17, <1>18
        DEF Next, Fetch, Refuse, Write, Provider

----------------------------------------------------------------------------
\* The filter keeps its word; or it comes to begin later by more than the
\* overlap, and items do not change, which is when the canary is lost.
KindProvider == Shift = 0 \/ (~MayAmend /\ Shift > Overlap)

\* A revision listed after a step that showed too late, or was there before.
Settled(r) == r[1] \in overdue' \/ (r \in Visible /\ r[1] \notin overdue)

ProviderMoves == Tick \/ \E i \in Items : Change(i) \/ Remove(i)

LEMMA AnchorsSame == UNCHANGED <<cursor, history>> => Anchors' = Anchors
BY DEF Anchors

\* What the provider may do to revisions the store knows, and what it may show.
LEMMA ProviderStep ==
    ASSUME TypeOK, ShownPast, KindProvider, ProviderMoves
    PROVE  /\ ShownPast' /\ now <= now'
           /\ \A r \in Revisions : Known(r) => Known(r)' /\ (Listed(r[1])' => Listed(r[1]))
           /\ \A r \in Visible' : r[2] >= now - Overlap \/ Settled(r)
<1> USE CursorAssumption DEF Times, NotShown
<1>1. CASE Tick
  <2>1. UNCHANGED <<shown, removed, overdue>> /\ now' = now + 1
    BY <1>1 DEF Tick
  <2>2. ShownPast' /\ now <= now'
    BY <2>1 DEF TypeOK, ShownPast, Listed
  <2>3. \A r \in Revisions : Known(r) => Known(r)' /\ (Listed(r[1])' => Listed(r[1]))
    BY <2>1 DEF Known, Seen, Listed
  <2>4. Visible' = Visible
    BY <2>1 DEF Visible
  <2>5. ASSUME NEW r \in Visible'
        PROVE  r[2] >= now - Overlap \/ Settled(r)
    BY <2>1, <2>4 DEF Settled
  <2> QED BY <2>2, <2>3, <2>5, Zenon
<1>2. ASSUME NEW i \in Items, Change(i)
      PROVE  /\ ShownPast' /\ now <= now'
             /\ \A r \in Revisions :
                  Known(r) => Known(r)' /\ (Listed(r[1])' => Listed(r[1]))
             /\ \A r \in Visible' : r[2] >= now - Overlap \/ Settled(r)
  <2>1. PICK t \in Times : /\ t <= now /\ t >= now - Late /\ t > shown[i]
                           /\ shown' = [shown EXCEPT ![i] = t]
                           /\ overdue' = IF t < now - Overlap THEN overdue \cup {i}
                                                             ELSE overdue \ {i}
    BY <1>2 DEF Change
  <2>2. i \notin removed /\ UNCHANGED <<removed, now>> /\ (Listed(i) => MayAmend)
    BY <1>2 DEF Change
  <2>3. \A j \in Items : shown'[j] = IF j = i THEN t ELSE shown[j]
    BY <2>1 DEF TypeOK
  <2>4. ShownPast' /\ now <= now'
    BY <2>1, <2>2, <2>3 DEF ShownPast, Listed, TypeOK
  <2>5. ASSUME NEW r \in Revisions, Known(r)
        PROVE  Known(r)' /\ (Listed(r[1])' => Listed(r[1]))
    <3>1. r[1] \in Items /\ r[2] \in Times
      BY DEF Revisions
    <3>2. CASE r[1] = i
      BY <3>1, <3>2, <2>1, <2>2, <2>3, <2>5 DEF Known, Seen, Listed, TypeOK
    <3>3. CASE r[1] # i
      BY <3>1, <3>3, <2>2, <2>3, <2>5 DEF Known, Seen, Listed, TypeOK
    <3> QED BY <3>2, <3>3
  <2>6. ASSUME NEW r \in Visible'
        PROVE  r[2] >= now - Overlap \/ Settled(r)
    <3>1. r \in Revisions /\ shown'[r[1]] = r[2] /\ r[1] \in Items
      BY DEF Visible, Revisions
    <3>2. CASE r[1] = i
      <4>1. r[2] = t
        BY <3>1, <3>2, <2>3
      <4>2. CASE t < now - Overlap
        BY <4>2, <3>2, <2>1 DEF Settled
      <4>3. CASE ~(t < now - Overlap)
        BY <4>1, <4>3, <2>1 DEF TypeOK
      <4> QED BY <4>2, <4>3
    <3>3. CASE r[1] # i
      <4>1. r[1] \in overdue' <=> r[1] \in overdue
        BY <3>3, <2>1
      <4> QED BY <3>1, <3>3, <4>1, <2>3 DEF Visible, Settled
    <3> QED BY <3>2, <3>3
  <2> QED BY <2>4, <2>5, <2>6
<1>3. ASSUME NEW i \in Items, Remove(i)
      PROVE  /\ ShownPast' /\ now <= now'
             /\ \A r \in Revisions :
                  Known(r) => Known(r)' /\ (Listed(r[1])' => Listed(r[1]))
             /\ \A r \in Visible' : r[2] >= now - Overlap \/ Settled(r)
  <2>1. /\ removed' = removed \cup {i} /\ UNCHANGED <<now, overdue>>
        /\ \A j \in Items : shown'[j] = IF j = i THEN NotShown ELSE shown[j]
    BY <1>3 DEF Remove, TypeOK
  <2>2. ShownPast' /\ now <= now'
    BY <2>1 DEF ShownPast, Listed, TypeOK
  <2>3. ASSUME NEW r \in Revisions, Known(r)
        PROVE  Known(r)' /\ (Listed(r[1])' => Listed(r[1]))
    <3>1. r[1] \in Items
      BY DEF Revisions
    <3> QED BY <3>1, <2>1, <2>3 DEF Known, Seen, Listed
  <2>4. ASSUME NEW r \in Visible' PROVE r \in Visible
    <3>1. r \in Revisions /\ shown'[r[1]] = r[2] /\ r[1] \in Items /\ r[2] # NotShown
      BY DEF Visible, Revisions
    <3> QED BY <3>1, <2>1 DEF Visible
  <2>5. ASSUME NEW r \in Visible'
        PROVE  r[2] >= now - Overlap \/ Settled(r)
    BY <2>1, <2>4 DEF Settled
  <2> QED BY <2>2, <2>3, <2>5, Zenon
<1> QED BY <1>1, <1>2, <1>3 DEF ProviderMoves

\* A landed response: every item of it is held and known.
LEMMA LandsKnown ==
    ASSUME TypeOK, ShownPast, GotKnown, Lands, UNCHANGED provider
    PROVE  GotKnown'
<1>1. SUFFICES ASSUME NEW q \in got' PROVE q \in landed' /\ Known(q)' /\ q[2] <= now'
  BY DEF GotKnown
<1>2. q \in Visible /\ q \in landed'
  BY DEF Lands, LandsFrom, Response, AskedFor
<1>3. q[1] \in Items /\ q[2] \in Times /\ shown[q[1]] = q[2]
  BY <1>2 DEF Visible, Revisions
<1>4. q[2] # NotShown /\ q[2] <= q[2]
  BY <1>3, CursorAssumption DEF Times, NotShown
<1> QED BY <1>2, <1>3, <1>4 DEF Known, Seen, Listed, ShownPast, provider

\* A landed response is fit to move the cursor when what lies before where
\* it began is accounted for.
LEMMA LandsSafe ==
    ASSUME TypeOK, AnchorsKnown, UNCHANGED <<provider, cursor, history>>,
           got' \subseteq landed', NEW reach \in Int, got' \in {Visible, AskedFor(reach)},
           \A r \in Visible : r[2] < reach => r \in got' \/ Accounted(r)'
    PROVE  GotSafe'
<1> USE CursorAssumption
<1>1. Visible' = Visible /\ Anchors' = Anchors /\ \A i \in Items : Listed(i)' = Listed(i)
  BY AnchorsSame DEF Visible, provider, Listed
<1>2. \A r \in Visible : r \in got' \/ (got' = AskedFor(reach) /\ r[2] < reach)
  BY DEF AskedFor, Visible, Revisions, Times
<1>3. \A r \in got' : r \in landed'
  OBVIOUS
<1>4. ASSUME NEW r \in Visible, NEW q \in got', r[2] < q[2] - Overlap
      PROVE  Accounted(r)'
  BY <1>2, <1>3 DEF Accounted
<1>5. ASSUME NEW h \in Anchors, Listed(h[1]), got' # {}
      PROVE  \E q \in got' : h[2] <= q[2]
  <2>1. h \in Revisions /\ h[1] \in Items /\ h[2] \in Times
    BY DEF Anchors, Revisions
  <2>2. shown[h[1]] \in Times /\ h[2] <= shown[h[1]]
    BY <1>5, <2>1 DEF AnchorsKnown, Known, Listed, TypeOK
  <2> DEFINE r == <<h[1], shown[h[1]]>>
  <2>3. r \in Visible /\ r[2] = shown[h[1]]
    BY <2>1, <2>2 DEF Visible, Revisions
  <2>4. CASE r \in got'
    BY <2>4, <2>2, <2>3
  <2>5. CASE r \notin got'
    <3>1. got' = AskedFor(reach) /\ r[2] < reach
      BY <2>5, <2>3, <1>2
    <3>2. PICK q \in got' : TRUE
      BY <1>5
    <3>3. q \in Visible /\ q[2] >= reach
      BY <3>1, <3>2 DEF AskedFor
    <3>4. q[2] \in Times
      BY <3>3 DEF Visible, Revisions
    <3> QED BY <3>1, <3>3, <3>4, <2>1, <2>2, <2>3 DEF Times
  <2> QED BY <2>4, <2>5
<1>6. \A h \in Anchors : h[1] \in Items
  BY DEF Anchors, Revisions
<1>7. \A r \in Visible', q \in got' : r[2] < q[2] - Overlap => Accounted(r)'
  BY <1>1, <1>4
<1>8. \A h \in Anchors' : Listed(h[1])' /\ got' # {} => \E q \in got' : h[2] <= q[2]
  BY <1>1, <1>5, <1>6
<1> QED BY <1>7, <1>8 DEF GotSafe

\* Whatever does not touch the provider or the cursor, and forgets nothing,
\* keeps what falls behind the cursor accounted for.
LEMMA StoreGrows ==
    ASSUME ShownPast, AnchorsKnown, NothingSkipped, UNCHANGED <<provider, cursor, history>>,
           landed \subseteq landed', \A r \in Revisions : r[2] < bound => r[2] < bound'
    PROVE  ShownPast' /\ AnchorsKnown' /\ NothingSkipped'
<1>1. Visible' = Visible /\ Anchors' = Anchors /\ Visible \subseteq Revisions
  BY AnchorsSame DEF Visible, provider
<1>2. ShownPast'
  BY DEF ShownPast, provider, Listed
<1>3. AnchorsKnown'
  BY <1>1 DEF AnchorsKnown, Known, Seen, Listed, provider
<1>4. NothingSkipped'
  BY <1>1 DEF NothingSkipped, Since, provider
<1> QED BY <1>2, <1>3, <1>4

LEMMA GotStays ==
    ASSUME GotKnown, UNCHANGED provider, landed \subseteq landed', got' = got \/ got' = {}
    PROVE  GotKnown'
BY DEF GotKnown, Known, Seen, Listed, provider

\* Where StepBack leads is what the next ask is taken to be.
LEMMA StepBackShape ==
    ASSUME NEW k \in Nat, k >= 1, StepBack(k), UNCHANGED <<cursor, history>>,
           cursor # NoCursor
    PROVE  AskShape' /\ pc' # "landed"
<1>1. CASE k <= Len(history)
  BY <1>1 DEF StepBack, AskShape, Since
<1>2. CASE ~(k <= Len(history))
  BY <1>2 DEF StepBack, AskShape
<1> QED BY <1>1, <1>2

\* The cursor moves to the newest item of a response that is fit for it.
LEMMA SaveSafe ==
    ASSUME IInv, SaveCursor
    PROVE  AnchorsKnown' /\ NothingSkipped' /\ (cursor' = NoCursor => history' = <<>>)
<1> USE CursorAssumption
<1>1. UNCHANGED <<provider, landed, bound, got>> /\ pc = "landed"
  BY DEF SaveCursor
<1>2. CASE got = {}
  <2>1. UNCHANGED <<cursor, history>>
    BY <1>2 DEF SaveCursor
  <2> QED BY <1>1, <2>1, StoreGrows DEF IInv, AskShape
<1>3. CASE got # {}
  <2>1. PICK a \in Newest(got) : Advanced(a)
    BY <1>3 DEF SaveCursor
  <2>2. a \in got /\ a \in Revisions /\ a[2] \in Times /\ \A q \in got : q[2] <= a[2]
    BY <2>1 DEF Newest, IInv, TypeOK, Revisions
  <2>3. cursor' = a /\ cursor' # NoCursor
    BY <2>1, <2>2 DEF Advanced, NoCursor, Revisions
  <2>4. Visible' = Visible /\ now' = now /\ \A r : Known(r)' <=> Known(r)
    BY <1>1 DEF Visible, Known, Seen, Listed, provider
  <2>5. NothingSkipped'
    <3>1. \A r \in Visible : r[2] < a[2] - Overlap => Accounted(r)
      BY <1>1, <2>2 DEF IInv, GotSafe
    <3> QED BY <3>1, <2>3, <2>4, <1>1 DEF NothingSkipped, Since, Accounted, provider
  <2>6. \A h \in Anchors' : h = a \/ h \in Anchors
    <3>1. \A k \in 1..Len(history') :
             \/ cursor # NoCursor /\ history'[k] = cursor
             \/ \E j \in 1..Len(history) : history'[k] = history[j]
      BY <2>1, <2>2, AdvancedTypes DEF IInv
    <3> QED BY <3>1, <2>3 DEF Anchors
  <2>7. ASSUME NEW h \in Anchors'
        PROVE Known(h)' /\ h[2] <= now' /\ (Listed(h[1])' => h[2] <= a[2])
    <3>1. CASE h = a
      <4>1. Known(a) /\ a[2] <= now
        BY <2>2 DEF IInv, GotKnown
      <4> QED BY <3>1, <4>1, <2>2, <2>4 DEF Times
    <3>2. CASE h \in Anchors
      <4>1. Known(h) /\ h[2] <= now /\ h[2] \in Times
        BY <3>2 DEF IInv, AnchorsKnown, Anchors, Revisions
      <4>2. ASSUME Listed(h[1]) PROVE h[2] <= a[2]
        <5>1. PICK q \in got : h[2] <= q[2]
          BY <3>2, <4>2, <1>1, <1>3 DEF IInv, GotSafe
        <5>2. q[2] \in Times /\ q[2] <= a[2]
          BY <2>2 DEF IInv, TypeOK, Revisions
        <5> QED BY <5>1, <5>2, <4>1, <2>2 DEF Times
      <4>3. Listed(h[1])' = Listed(h[1])
        BY <1>1 DEF Listed, provider
      <4> QED BY <4>1, <4>2, <4>3, <2>4
    <3> QED BY <3>1, <3>2, <2>6
  <2> QED BY <2>3, <2>5, <2>7 DEF AnchorsKnown
<1> QED BY <1>2, <1>3

LEMMA InitIInv == Init => IInv
<1> SUFFICES ASSUME Init PROVE IInv
  OBVIOUS
<1> USE CursorAssumption
<1>1. sweeping \in BOOLEAN
  BY Zenon DEF Init
<1>2. TypeOK
  BY <1>1 DEF Init, TypeOK, Times
<1>3. ShownPast /\ GotKnown /\ AskShape /\ GotSafe /\ NothingSkipped
  BY DEF Init, ShownPast, GotKnown, AskShape, GotSafe, NothingSkipped, NotShown, Listed
<1>4. Anchors = {}
  <2>1. cursor = <<>> /\ Len(history) = 0
    BY DEF Init, NoCursor
  <2>2. \A h \in Revisions : h # <<>>
    <3>1. \A h \in Revisions : h = <<h[1], h[2]>>
      BY DEF Revisions
    <3>2. \A x, y : <<x, y>> # <<>>
      OBVIOUS
    <3> QED BY <3>1, <3>2
  <2> QED BY <2>1, <2>2 DEF Anchors
<1> QED BY <1>2, <1>3, <1>4 DEF IInv, AnchorsKnown, Init

\* The response that holds its anchor is whole: had the filter begun later,
\* the anchor would be outside.
LEMMA CanaryHonest ==
    ASSUME IInv, KindProvider, Lands, UNCHANGED provider, NEW h \in Anchors,
           CanaryPresent(got', h), cutoff = Since(h)
    PROVE  got' \in {Visible, AskedFor(cutoff)}
<1> USE CursorAssumption
<1>1. PICK shift \in {0, Shift} : got' = Response(cutoff, shift)
  BY DEF Lands, LandsFrom
<1>2. CASE cutoff = Whole
  BY <1>1, <1>2 DEF Response
<1>3. CASE cutoff # Whole
  <2>1. got' = AskedFor(cutoff + shift) /\ cutoff \in Int
    BY <1>1, <1>3 DEF Response, IInv, TypeOK
  <2>2. CASE shift = 0
    BY <2>1, <2>2
  <2>3. CASE shift # 0
    <3>1. ~MayAmend /\ shift > Overlap
      BY <1>1, <2>3 DEF KindProvider
    <3>2. PICK r \in got' : r[1] = h[1]
      BY DEF CanaryPresent
    <3>3. /\ r \in Revisions /\ shown[r[1]] = r[2] /\ r[2] >= cutoff + shift
          /\ r[1] \in Items /\ r[2] \in Times /\ h[2] \in Times
      BY <2>1, <3>2 DEF AskedFor, Visible, Revisions, Anchors
    <3>4. Listed(h[1])
      BY <3>2, <3>3 DEF Listed, Times, NotShown
    <3>5. h[2] = r[2]
      BY <3>1, <3>2, <3>3, <3>4 DEF IInv, AnchorsKnown, Known
    <3> QED BY <3>1, <3>3, <3>5, <2>1 DEF Since, Times
  <2> QED BY <2>2, <2>3
<1> QED BY <1>2, <1>3

\* An incremental response taken for good: what it was not asked for is held.
LEMMA AskSafe ==
    ASSUME IInv, KindProvider, Lands, UNCHANGED <<provider, cursor, history, bound>>,
           cursor # NoCursor, NEW h \in Anchors, CanaryPresent(got', h),
           cutoff = Since(h), cutoff <= Since(cursor)
    PROVE  GotSafe'
<1>1. cutoff \in Int /\ \A r \in Visible : r[2] < cutoff => Accounted(r)'
  <2>1. cutoff \in Int /\ Since(cursor) \in Int
    BY CursorAssumption DEF IInv, TypeOK, Since, Revisions, Times
  <2>2. ASSUME NEW r \in Visible, r[2] < cutoff PROVE Accounted(r)'
    <3>1. r[2] < Since(cursor)
      BY <2>1, <2>2, CursorAssumption DEF Visible, Revisions, Times
    <3>2. Accounted(r)
      BY <3>1 DEF IInv, NothingSkipped, Accounted
    <3> QED BY <3>2 DEF Accounted, Lands, LandsFrom, provider
  <2> QED BY <2>1, <2>2
<1>2. got' \subseteq landed' /\ got' \in {Visible, AskedFor(cutoff)}
  BY CanaryHonest DEF Lands, LandsFrom
<1> QED BY <1>1, <1>2, LandsSafe DEF IInv

LEMMA Inductive == KindProvider /\ IInv /\ [Next]_vars => IInv'
<1> SUFFICES ASSUME KindProvider, IInv, [Next]_vars PROVE IInv'
  OBVIOUS
<1> USE CursorAssumption
<1>t. TypeOK' /\ (pc = "rung" => cutoff \in Times)'
  BY TypeStep DEF IInv, TypeInv
<1>1. CASE Begin
  <2>1. UNCHANGED <<provider, cursor, history, landed, bound>> /\ got' = {}
    BY <1>1 DEF Begin, store
  <2>2. AskShape' /\ GotSafe'
    BY <1>1, <2>1 DEF Begin, AskShape, GotSafe, Since, IInv
  <2> QED BY <1>t, <2>1, <2>2, StoreGrows, GotStays DEF IInv
<1>2. CASE BeginWindow
  <2>1. UNCHANGED <<provider, cursor, history, landed, bound>> /\ got' = {}
    BY <1>2 DEF BeginWindow, store
  <2>2. AskShape' /\ GotSafe'
    BY <1>2, <2>1 DEF BeginWindow, AskShape, GotSafe, Times, IInv
  <2> QED BY <1>t, <2>1, <2>2, StoreGrows, GotStays DEF IInv
<1>3. CASE Ask
  <2>1. Lands /\ UNCHANGED <<provider, cursor, history, bound>> /\ landed \subseteq landed'
    BY <1>3 DEF Ask, Lands, LandsFrom
  <2>2. cursor # NoCursor /\ cutoff = Since(cursor)
    BY <1>3 DEF Ask, IInv, AskShape
  <2>3. AskShape' /\ GotSafe'
    <3>1. CASE CanaryPresent(got', cursor)
      <4>1. cursor \in Anchors /\ cutoff <= Since(cursor)
        BY <2>2 DEF IInv, TypeOK, Anchors
      <4> QED BY <1>3, <2>1, <2>2, <3>1, <4>1, AskSafe DEF Ask, AskShape
    <3>2. CASE ~CanaryPresent(got', cursor)
      BY <1>3, <2>1, <2>2, <3>2, StepBackShape DEF Ask, GotSafe
    <3> QED BY <3>1, <3>2
  <2> QED BY <1>t, <2>1, <2>3, StoreGrows, LandsKnown DEF IInv
<1>4. CASE AskBack
  <2>1. Lands /\ UNCHANGED <<provider, cursor, history, bound>> /\ landed \subseteq landed'
    BY <1>4 DEF AskBack, Lands, LandsFrom
  <2>2. cursor # NoCursor /\ step \in 1..Len(history) /\ cutoff = Since(history[step])
    BY <1>4 DEF AskBack, IInv, AskShape
  <2>3. AskShape' /\ GotSafe'
    <3>1. CASE CanaryPresent(got', history[step])
      <4> DEFINE h == history[step]
      <4>1. h \in Anchors /\ h[1] \in Items /\ h[2] \in Times
        BY <2>2 DEF Anchors, IInv, TypeOK, Revisions
      <4>2. Listed(h[1])
        <5>1. PICK r \in got' : r[1] = h[1]
          BY <3>1 DEF CanaryPresent
        <5>2. r \in Visible
          BY <2>1, <5>1 DEF Lands, LandsFrom, Response, AskedFor
        <5> QED BY <5>1, <5>2 DEF Visible, Revisions, Listed, Times, NotShown
      <4>3. h[2] <= cursor[2]
        BY <4>1, <4>2 DEF IInv, AnchorsKnown
      <4>4. cutoff <= Since(cursor)
        BY <2>2, <4>1, <4>3 DEF Since, IInv, TypeOK, Revisions, Times
      <4>5. pc' = "landed"
        BY <1>4, <3>1 DEF AskBack
      <4> QED BY <2>1, <2>2, <3>1, <4>1, <4>4, <4>5, AskSafe DEF AskShape
    <3>2. CASE ~CanaryPresent(got', history[step])
      <4>1. step + 1 \in Nat /\ step + 1 >= 1 /\ StepBack(step + 1)
        BY <1>4, <2>2, <3>2 DEF AskBack
      <4> QED BY <2>1, <2>2, <4>1, StepBackShape DEF GotSafe
    <3> QED BY <3>1, <3>2
  <2> QED BY <1>t, <2>1, <2>3, StoreGrows, LandsKnown DEF IInv
<1>5. CASE AskWhole
  <2>1. Lands /\ UNCHANGED <<provider, cursor, history, bound>> /\ landed \subseteq landed'
    BY <1>5 DEF AskWhole, Lands, LandsFrom
  <2>2. cutoff = Whole
    BY <1>5 DEF AskWhole, IInv, AskShape
  <2>3. AskShape'
    BY <1>5, <2>1 DEF AskWhole, AskShape, IInv
  <2>4. GotSafe'
    <3>1. got' = Visible
      BY <2>1, <2>2 DEF Lands, LandsFrom, Response
    <3>2. got' \subseteq landed' /\ 0 \in Int
      BY <2>1 DEF Lands, LandsFrom
    <3> QED BY <2>1, <3>1, <3>2, LandsSafe DEF IInv
  <2> QED BY <1>t, <2>1, <2>3, <2>4, StoreGrows, LandsKnown DEF IInv
<1>6. CASE AskWindow
  <2>1. Lands /\ UNCHANGED <<provider, cursor, history, bound>> /\ landed \subseteq landed'
    BY <1>6 DEF AskWindow, Lands, LandsFrom
  <2>2. AskShape' /\ GotSafe'
    BY <1>6, <2>1 DEF AskWindow, AskShape, GotSafe, IInv
  <2> QED BY <1>t, <2>1, <2>2, StoreGrows, LandsKnown DEF IInv
<1>7. CASE AskRung
  <2>1. PICK shift \in {0, Shift} :
               /\ LandsFrom(shift)
               /\ bound' = IF cutoff + shift > bound THEN cutoff + shift ELSE bound
    BY <1>7 DEF AskRung
  <2>2. /\ Lands /\ UNCHANGED <<provider, cursor, history>> /\ landed \subseteq landed'
        /\ cutoff \in Times /\ pc' = "landed"
    BY <1>7, <2>1 DEF AskRung, IInv, TypeOK, Lands, LandsFrom
  <2>3. /\ cutoff + shift \in Int /\ bound \in Nat /\ bound' \in Nat
        /\ bound <= bound' /\ cutoff + shift <= bound'
    BY <2>1, <2>2 DEF IInv, TypeOK, Times
  <2>6. \A r \in Revisions : r[2] < bound => r[2] < bound'
    BY <2>3 DEF Revisions, Times
  <2>4. GotSafe'
    <3> DEFINE reach == cutoff + shift
    <3>1. reach \in Int /\ reach <= bound' /\ bound' \in Nat
      BY <2>3
    <3>2. got' = AskedFor(reach) /\ got' \subseteq landed'
      <4>1. cutoff # Whole
        BY <2>2 DEF Whole, Times
      <4> QED BY <4>1, <2>1 DEF Response, LandsFrom
    <3>3. ASSUME NEW r \in Visible, r[2] < reach PROVE Accounted(r)'
      <4>1. r[2] \in Int
        BY DEF Visible, Revisions, Times
      <4> QED BY <4>1, <3>1, <3>3 DEF Accounted
    <3> HIDE DEF reach
    <3> QED BY <2>2, <3>1, <3>2, <3>3, LandsSafe DEF IInv
  <2>5. AskShape'
    BY <2>2 DEF AskShape, IInv
  <2> QED BY <1>t, <2>2, <2>4, <2>5, <2>6, StoreGrows, LandsKnown DEF IInv
<1>8. CASE BackRefused
  <2>1. UNCHANGED <<provider, cursor, history, landed, bound, got>>
    BY <1>8 DEF BackRefused, store
  <2>2. cursor # NoCursor /\ step + 1 \in Nat /\ step + 1 >= 1 /\ StepBack(step + 1)
    BY <1>8 DEF BackRefused, IInv, AskShape
  <2>3. AskShape' /\ GotSafe'
    BY <2>1, <2>2, StepBackShape DEF GotSafe
  <2> QED BY <1>t, <2>1, <2>3, StoreGrows, GotStays DEF IInv
<1>9. CASE AskRefused \/ WholeRefused \/ WholeTooWide \/ RungRefused \/ RungTooWide
  <2>1. UNCHANGED <<provider, cursor, history, landed, bound>>
    BY <1>9 DEF AskRefused, WholeRefused, WholeTooWide, RungRefused, RungTooWide, store
  <2>2. Over \/ Rung(1) \/ Rung(step + 1)
    BY <1>9 DEF AskRefused, WholeRefused, WholeTooWide, RungRefused, RungTooWide
  <2>3. (got' = got \/ got' = {}) /\ pc' \in {"idle", "rung"}
    BY <2>2 DEF Over, Rung
  <2>4. AskShape' /\ GotSafe'
    BY <1>t, <2>1, <2>3 DEF AskShape, GotSafe, IInv
  <2> QED BY <1>t, <2>1, <2>3, <2>4, StoreGrows, GotStays DEF IInv
<1>10. CASE SaveCursor
  <2>1. UNCHANGED <<provider, landed, got>> /\ pc' \in {"stamp", "reconcile"}
    BY <1>10 DEF SaveCursor
  <2>2. ShownPast'
    BY <2>1 DEF IInv, ShownPast, provider, Listed
  <2>3. AskShape' /\ GotSafe'
    BY <1>10, <2>1, SaveSafe DEF AskShape, GotSafe
  <2> QED BY <1>t, <1>10, <2>1, <2>2, <2>3, SaveSafe, GotStays DEF IInv
<1>11. CASE StampSweep \/ Reconcile \/ Replay \/ Crash \/ Day
  <2>1. UNCHANGED <<provider, cursor, history, landed, bound>> /\ (got' = got \/ got' = {})
    BY <1>11 DEF StampSweep, Reconcile, Replay, Crash, Day, Over, store, locals
  <2>2. AskShape' /\ GotSafe'
    <3>1. CASE StampSweep \/ Reconcile \/ Crash
      <4>1. pc' \in {"idle", "reconcile"}
        BY <3>1 DEF StampSweep, Reconcile, Crash, Over
      <4> QED BY <4>1, <2>1 DEF AskShape, GotSafe, IInv
    <3>2. CASE Replay \/ Day
      <4>1. UNCHANGED <<pc, cutoff, step, got>>
        BY <3>2 DEF Replay, Day, locals
      <4>2. Anchors' = Anchors /\ Visible' = Visible
        BY <2>1, AnchorsSame DEF Visible, provider
      <4>3. AskShape'
        BY <2>1, <4>1 DEF AskShape, IInv, Since
      <4>4. GotSafe'
        BY <2>1, <4>1, <4>2 DEF GotSafe, IInv, Accounted, Listed, provider
      <4> QED BY <4>3, <4>4
    <3> QED BY <1>11, <3>1, <3>2
  <2> QED BY <1>t, <2>1, <2>2, StoreGrows, GotStays DEF IInv
<1>12. CASE ProviderMoves
  <2>1. UNCHANGED <<store, locals>>
    BY <1>12 DEF ProviderMoves, Tick, Change, Remove
  <2>2. /\ ShownPast' /\ now <= now'
        /\ \A r \in Revisions : Known(r) => Known(r)' /\ (Listed(r[1])' => Listed(r[1]))
        /\ \A r \in Visible' : r[2] >= now - Overlap \/ Settled(r)
    BY <1>12, ProviderStep DEF IInv
  <2>3. Anchors' = Anchors /\ now \in Nat /\ now' \in Nat
    BY <1>t, <2>1, AnchorsSame DEF store, IInv, TypeOK, Times
  <2>4. AnchorsKnown'
    <3>1. \A h \in Anchors : h \in Revisions /\ h[2] \in Nat
      BY DEF Anchors, Revisions, Times
    <3> QED BY <2>1, <2>2, <2>3, <3>1 DEF AnchorsKnown, store, IInv
  <2>5. GotKnown'
    <3>1. \A q \in got : q \in Revisions /\ q[2] \in Nat
      BY DEF IInv, TypeOK, Revisions, Times
    <3> QED BY <2>1, <2>2, <2>3, <3>1 DEF GotKnown, store, locals, IInv
  <2>6. AskShape'
    BY <2>1 DEF AskShape, Since, store, locals, IInv
  <2>7. GotSafe'
    <3>1. \A q \in got : q[2] \in Nat /\ q[2] <= now
      BY DEF IInv, TypeOK, Revisions, Times, GotKnown
    <3>2. \A r \in Visible' : r[2] \in Nat
      BY DEF Visible, Revisions, Times
    <3>3. \A r \in Visible', q \in got : r[2] < q[2] - Overlap =>
              Settled(r)
      BY <2>2, <2>3, <3>1, <3>2
    <3>4. \A h \in Anchors : h \in Revisions /\ Known(h)
      BY DEF Anchors, IInv, AnchorsKnown
    <3> QED BY <2>1, <2>2, <2>3, <3>3, <3>4
            DEF GotSafe, IInv, Accounted, Settled, store, locals
  <2>8. NothingSkipped'
    <3>1. SUFFICES ASSUME cursor # NoCursor, NEW r \in Visible', r[2] < Since(cursor)
                   PROVE  Accounted(r)'
      BY <2>1 DEF NothingSkipped, Accounted, Since, store
    <3>2. cursor \in Revisions /\ cursor \in Anchors /\ cursor[2] \in Nat
      BY <3>1 DEF Anchors, IInv, TypeOK, Revisions, Times
    <3>3. cursor[2] <= now
      BY <3>2 DEF IInv, AnchorsKnown
    <3>4. r[2] \in Nat
      BY DEF Visible, Revisions, Times
    <3>5. Settled(r)
      BY <2>2, <2>3, <3>1, <3>2, <3>3, <3>4 DEF Since
    <3> QED BY <2>1, <3>1, <3>5 DEF IInv, NothingSkipped, Accounted, Settled, store
  <2> QED BY <1>t, <2>2, <2>4, <2>5, <2>6, <2>7, <2>8 DEF IInv
<1>13. CASE UNCHANGED vars
  <2>1. UNCHANGED <<provider, store, locals>>
    BY <1>13 DEF vars
  <2>2. Anchors' = Anchors /\ Visible' = Visible
    BY <2>1, AnchorsSame DEF store, Visible, provider
  <2>3. AskShape' /\ GotSafe'
    BY <2>1, <2>2 DEF AskShape, GotSafe, IInv, Accounted, Since, Listed, provider, store, locals
  <2>4. UNCHANGED <<provider, cursor, history, landed, bound, got>>
    BY <2>1 DEF store, locals
  <2> QED BY <1>t, <2>3, <2>4, StoreGrows, GotStays DEF IInv
<1> QED BY <1>1, <1>2, <1>3, <1>4, <1>5, <1>6, <1>7, <1>8, <1>9, <1>10, <1>11, <1>12, <1>13
        DEF Next, Fetch, Refuse, Write, Provider, ProviderMoves

\* Every variable stays within its type, for any items, times and ladder.
THEOREM TypeCorrect == Spec => []TypeOK
<1>1. Init => TypeInv
  BY InitIInv DEF IInv, TypeInv
<1>2. TypeInv => TypeOK
  BY DEF TypeInv
<1> QED BY <1>1, <1>2, TypeStep, PTL DEF Spec

\* Where the filter keeps its word, or where items do not change and it comes
\* to begin later by more than the overlap, nothing that showed in time falls
\* behind the cursor unfetched: through any number of items, pulls, refusals,
\* crashes, removed anchors and ladders.
THEOREM NothingLost == KindProvider => (Spec => []NothingSkipped)
<1>1. IInv => NothingSkipped
  BY DEF IInv
<1>2. ASSUME KindProvider PROVE Spec => []NothingSkipped
  <2>1. IInv /\ [Next]_vars => IInv'
    BY <1>2, Inductive
  <2> QED BY <1>1, <2>1, InitIInv, PTL DEF Spec
<1> QED BY <1>2
=============================================================================
