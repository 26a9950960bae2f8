--------------------------- MODULE CoverageProofs ---------------------------
(***************************************************************************)
(* Proved of the two ways a pull covers a span of days.  Of AskedCoverage,  *)
(* for any accounts, cards, windows, cadences and deaths: a weekly tier     *)
(* that was stamped had asked every account for its days.  Of SpaceHistory, *)
(* for any span, ladder, limit and number of asks, deaths and refusals: its *)
(* types, and that no day is recorded twice.                                *)
(***************************************************************************)
EXTENDS AskedCoverage, SpaceHistory, TLAPS

(***************************************************************************)
(* What the proof needs of a cycle: its day is today or yesterday, and      *)
(* while it is on its way through the accounts with the weekly tier, those  *)
(* it has passed were asked for the days up to its own.                     *)
(***************************************************************************)

Passing == {"asking", "landing", "pending"}

DaysRight ==
    /\ today \in Calendar /\ day \in Calendar
    /\ asked \in [Targets -> SUBSET Calendar]
    /\ weeklyAgo \in Nat /\ tier \in DOMAIN Window
    /\ pc \in Passing \cup {"idle", "healing", "healed"}
    /\ pc # "idle" => day = today \/ day + 1 = today

OnItsWay ==
    /\ pc \in Passing => left \in Seq(Targets)
    /\ pc \in {"landing", "pending"} => left # <<>>

WeekAsked(t) == ((day - Window["weekly"])..day) \cap Calendar \subseteq asked[t]

ToCome(t) == pc \in Passing /\ t \in Range(left) /\ (pc = "asking" \/ t # Head(left))

Passed ==
    pc # "idle" /\ tier = "weekly" => \A t \in Range(Accounts) : ToCome(t) \/ WeekAsked(t)

IInv == DaysRight /\ OnItsWay /\ Passed /\ AccountsCovered

LEMMA HeadAndTail ==
  ASSUME NEW S, NEW s \in Seq(S), s # <<>>
  PROVE  /\ Head(s) \in S /\ Tail(s) \in Seq(S)
         /\ \A x \in Range(s) : x = Head(s) \/ x \in Range(Tail(s))
  <1>1. Head(s) \in S /\ Tail(s) \in Seq(S)
    OBVIOUS
  <1>2. ASSUME NEW x \in Range(s), x # Head(s) PROVE x \in Range(Tail(s))
    <2>1. PICK i \in 1..Len(s) : x = s[i]
      BY <1>2 DEF Range
    <2>2. i # 1
      BY <1>2, <2>1
    <2>3. i - 1 \in 1..Len(Tail(s)) /\ Tail(s)[i - 1] = s[i]
      BY <2>1, <2>2
    <2>4. DOMAIN Tail(s) = 1..Len(Tail(s))
      BY <1>1
    <2> QED BY <2>1, <2>3, <2>4 DEF Range
  <1> QED BY <1>1, <1>2

LEMMA OrderType ==
  /\ Order \in Seq(Targets)
  /\ \A t \in Range(Accounts) : t \in Targets /\ t \in Range(Order) /\ ~IsCard(t)
  <1> USE CoverageAssumption
  <1>1. Order \in Seq(Range(Accounts) \cup Range(Cards))
    BY DEF Order
  <1>2. Order \in Seq(Targets)
    BY <1>1 DEF Targets, Range
  <1>3. ASSUME NEW t \in Range(Accounts) PROVE t \in Range(Order)
    <2>1. PICK i \in 1..Len(Accounts) : t = Accounts[i]
      BY DEF Range
    <2>2. i \in DOMAIN Order /\ Order[i] = t
      BY <2>1 DEF Order
    <2> QED BY <2>2 DEF Range
  <1>4. \A t \in Range(Accounts) : ~IsCard(t)
    BY DEF IsCard
  <1> QED BY <1>2, <1>3, <1>4 DEF Targets

LEMMA AskedGrows ==
  ASSUME DaysRight, NEW t, NEW spell, Recorded(t, spell)
  PROVE  /\ asked' \in [Targets -> SUBSET Calendar]
         /\ \A u \in Targets : asked[u] \subseteq asked'[u]
         /\ t \in Targets => spell \cap Calendar \subseteq asked'[t]
  BY DEF DaysRight, Recorded

(* Where the cycle's day, tier and cadence stay and asked only grows, what  *)
(* was covered is covered.                                                  *)
LEMMA StaysCovered ==
  ASSUME IInv, UNCHANGED <<today, weeklyAgo>>, \A u \in Targets : asked[u] \subseteq asked'[u]
  PROVE  AccountsCovered'
  BY OrderType DEF IInv, AccountsCovered

LEMMA StaysPassed ==
  ASSUME IInv, UNCHANGED <<day, tier>>, \A u \in Targets : asked[u] \subseteq asked'[u],
         pc # "idle",
         \A t \in Range(Accounts) : ToCome(t) => ToCome(t)' \/ WeekAsked(t)'
  PROVE  Passed'
  BY OrderType DEF IInv, Passed, WeekAsked

LEMMA InitIInv == Init => IInv
  BY CoverageAssumption DEF Init, IInv, DaysRight, OnItsWay, Passed, AccountsCovered, Passing, Calendar

LEMMA StepIInv == IInv /\ [Next]_vars => IInv'
  <1> SUFFICES ASSUME IInv, [Next]_vars PROVE IInv'
    OBVIOUS
  <1> USE CoverageAssumption, OrderType DEF Passing, facts, locals
  <1>1. CASE Begin
    <2>1. DaysRight' /\ OnItsWay'
      BY <1>1 DEF Begin, IInv, DaysRight, OnItsWay, Selected
    <2>2. Passed'
      BY <1>1 DEF Begin, Passed, ToCome
    <2>3. AccountsCovered'
      BY <1>1, StaysCovered DEF Begin
    <2> QED BY <2>1, <2>2, <2>3 DEF IInv
  <1>2. ASSUME NEW t \in Targets, TierAskAnswered(t) PROVE IInv'
    <2>1. PICK spell : /\ Recorded(t, spell)
                       /\ ~IsCard(t) => spell = (day - Window[tier])..today
      BY <1>2 DEF TierAskAnswered
    <2>2. /\ asked' \in [Targets -> SUBSET Calendar]
          /\ \A u \in Targets : asked[u] \subseteq asked'[u]
          /\ spell \cap Calendar \subseteq asked'[t]
      <3>1. DaysRight /\ Recorded(t, spell)
        BY <2>1 DEF IInv
      <3> QED BY <3>1, AskedGrows
    <2>3. /\ pc = "asking" /\ pc' = "landing" /\ left # <<>> /\ t = Head(left)
          /\ UNCHANGED <<today, day, tier, weeklyAgo, left>>
      BY <1>2 DEF TierAskAnswered, Asking
    <2>4. DaysRight' /\ OnItsWay'
      BY <2>2, <2>3 DEF IInv, DaysRight, OnItsWay
    <2>5. Passed'
      <3>1. ASSUME tier = "weekly", ~IsCard(t) PROVE WeekAsked(t)'
        BY <2>1, <2>2, <2>3, <3>1 DEF WeekAsked, IInv, DaysRight, Calendar
      <3>2. ASSUME tier = "weekly", NEW u \in Range(Accounts) PROVE ToCome(u)' \/ WeekAsked(u)'
        <4>1. CASE u = t
          BY <3>1, <3>2, <4>1
        <4>2. CASE u # t
          BY <2>2, <2>3, <3>2, <4>2 DEF IInv, Passed, ToCome, WeekAsked
        <4> QED BY <4>1, <4>2
      <3> QED BY <2>3, <3>2 DEF Passed
    <2>6. AccountsCovered'
      BY <2>2, <2>3, StaysCovered
    <2> QED BY <2>4, <2>5, <2>6 DEF IInv
  <1>3. CASE TierAnswerLands
    <2>1. /\ pc = "landing" /\ pc' \in {"asking", "pending"} /\ left \in Seq(Targets) /\ left # <<>>
          /\ \/ pc' = "asking" /\ left' = Tail(left)
             \/ pc' = "pending" /\ left' = left
          /\ UNCHANGED <<today, asked, weeklyAgo, day, tier>>
      BY <1>3 DEF TierAnswerLands, IInv, OnItsWay
    <2>2. DaysRight' /\ OnItsWay'
      <3>1. Tail(left) \in Seq(Targets)
        BY <2>1, HeadAndTail
      <3> QED BY <2>1, <3>1 DEF IInv, DaysRight, OnItsWay
    <2>3. \A t \in Range(Accounts) : ToCome(t) => ToCome(t)'
      BY <2>1, HeadAndTail DEF ToCome
    <2>4. Passed'
      BY <2>1, <2>3, StaysPassed
    <2>5. AccountsCovered'
      BY <2>1, StaysCovered
    <2> QED BY <2>2, <2>4, <2>5 DEF IInv
  <1>4. CASE PendingAnswered
    <2>1. /\ pc = "pending" /\ pc' = "asking" /\ left \in Seq(Targets) /\ left # <<>>
          /\ left' = Tail(left) /\ UNCHANGED <<today, asked, weeklyAgo, day, tier>>
      BY <1>4 DEF PendingAnswered, IInv, OnItsWay
    <2>2. DaysRight' /\ OnItsWay'
      BY <2>1, HeadAndTail DEF IInv, DaysRight, OnItsWay
    <2>3. \A t \in Range(Accounts) : ToCome(t) => ToCome(t)'
      BY <2>1, HeadAndTail DEF ToCome
    <2>4. Passed'
      BY <2>1, <2>3, StaysPassed
    <2>5. AccountsCovered'
      BY <2>1, StaysCovered
    <2> QED BY <2>2, <2>4, <2>5 DEF IInv
  <1>5. ASSUME NEW t \in Targets, CardRefused(t) PROVE IInv'
    <2>1. /\ pc = "asking" /\ pc' = "asking" /\ left \in Seq(Targets) /\ left # <<>>
          /\ IsCard(Head(left)) /\ left' = Tail(left) /\ UNCHANGED <<today, asked, weeklyAgo, day, tier>>
      BY <1>5 DEF CardRefused, Asking, IInv, OnItsWay
    <2>2. DaysRight' /\ OnItsWay'
      BY <2>1, HeadAndTail DEF IInv, DaysRight, OnItsWay
    <2>3. \A u \in Range(Accounts) : ToCome(u) => ToCome(u)'
      BY <2>1, HeadAndTail DEF ToCome
    <2>4. Passed'
      BY <2>1, <2>3, StaysPassed
    <2>5. AccountsCovered'
      BY <2>1, StaysCovered
    <2> QED BY <2>2, <2>4, <2>5 DEF IInv
  <1>6. ASSUME \/ PendingRefused \/ Crash
               \/ \E t \in Targets : AccountRefused(t)
        PROVE  IInv'
    <2>1. Over /\ UNCHANGED <<today, asked, weeklyAgo>>
      BY <1>6 DEF PendingRefused, Crash, AccountRefused
    <2>2. DaysRight' /\ OnItsWay' /\ Passed'
      BY <2>1 DEF Over, IInv, DaysRight, OnItsWay, Passed, Calendar
    <2>3. AccountsCovered'
      BY <2>1, StaysCovered
    <2> QED BY <2>2, <2>3 DEF IInv
  <1>7. CASE PlanHealing
    <2>1. /\ pc = "asking" /\ pc' = "healing" /\ left = <<>>
          /\ UNCHANGED <<today, asked, weeklyAgo, day, tier>>
      BY <1>7 DEF PlanHealing
    <2>2. DaysRight' /\ OnItsWay'
      BY <2>1 DEF IInv, DaysRight, OnItsWay
    <2>3. \A t \in Range(Accounts) : ~ToCome(t)
      BY <2>1 DEF ToCome, Range
    <2>4. Passed'
      BY <2>1, <2>3, StaysPassed
    <2>5. AccountsCovered'
      BY <2>1, StaysCovered
    <2> QED BY <2>2, <2>4, <2>5 DEF IInv
  <1>8. CASE HealAnswered
    <2>1. PICK t, spell : Recorded(t, spell)
      BY <1>8 DEF HealAnswered
    <2>2. /\ asked' \in [Targets -> SUBSET Calendar]
          /\ \A u \in Targets : asked[u] \subseteq asked'[u]
      BY <2>1, AskedGrows DEF IInv
    <2>3. /\ pc = "healing" /\ pc' = "healed" /\ UNCHANGED <<today, weeklyAgo, day, tier>>
      BY <1>8 DEF HealAnswered
    <2>4. DaysRight' /\ OnItsWay'
      BY <2>2, <2>3 DEF IInv, DaysRight, OnItsWay
    <2>5. Passed'
      BY <2>2, <2>3, StaysPassed DEF ToCome
    <2>6. AccountsCovered'
      BY <2>2, <2>3, StaysCovered
    <2> QED BY <2>4, <2>5, <2>6 DEF IInv
  <1>9. CASE HealLands \/ HealRefused
    <2>1. /\ pc \in {"healing", "healed"} /\ pc' = "healing"
          /\ UNCHANGED <<today, asked, weeklyAgo, day, tier>>
      BY <1>9 DEF HealLands, HealRefused
    <2>2. DaysRight' /\ OnItsWay'
      BY <2>1 DEF IInv, DaysRight, OnItsWay
    <2>3. Passed'
      BY <2>1, StaysPassed DEF ToCome
    <2>4. AccountsCovered'
      BY <2>1, StaysCovered
    <2> QED BY <2>2, <2>3, <2>4 DEF IInv
  <1>10. CASE Stamp
    <2>1. /\ pc = "healing" /\ weeklyAgo' = (IF tier = "weekly" THEN 0 ELSE weeklyAgo)
          /\ Over /\ UNCHANGED <<today, asked>>
      BY <1>10 DEF Stamp
    <2>2. DaysRight' /\ OnItsWay' /\ Passed'
      BY <2>1 DEF Over, IInv, DaysRight, OnItsWay, Passed, Calendar
    <2>3. AccountsCovered'
      <3>1. CASE tier = "weekly"
        <4>1. \A t \in Range(Accounts) : WeekAsked(t)
          BY <2>1, <3>1 DEF IInv, Passed, ToCome
        <4> QED BY <2>1, <3>1, <4>1 DEF IInv, DaysRight, AccountsCovered, WeekAsked, Calendar
      <3>2. CASE tier # "weekly"
        BY <2>1, <3>2, StaysCovered
      <3> QED BY <3>1, <3>2
    <2> QED BY <2>2, <2>3 DEF IInv
  <1>11. CASE NextDay
    <2>1. /\ today < LastDay /\ (pc # "idle" => today = day) /\ today' = today + 1
          /\ weeklyAgo' = Least(weeklyAgo + 1, WeekEvery)
          /\ UNCHANGED <<asked, pc, day, tier, left>>
      BY <1>11 DEF NextDay
    <2>2. DaysRight' /\ OnItsWay'
      BY <2>1 DEF IInv, DaysRight, OnItsWay, Calendar, Least
    <2>3. Passed'
      BY <2>1 DEF IInv, Passed, ToCome, WeekAsked
    <2>4. AccountsCovered'
      BY <2>1 DEF IInv, DaysRight, AccountsCovered, Calendar, Least
    <2> QED BY <2>2, <2>3, <2>4 DEF IInv
  <1>12. CASE UNCHANGED vars
    BY <1>12 DEF vars, IInv, DaysRight, OnItsWay, Passed, ToCome, WeekAsked, AccountsCovered
  <1> QED BY <1>1, <1>2, <1>3, <1>4, <1>5, <1>6, <1>7, <1>8, <1>9, <1>10, <1>11, <1>12
       DEF Next, Goes, Refusal

(* THEOREM: a weekly tier that is stamped had asked every account for its   *)
(* days, and no later cycle, refusal or death takes that back               *)
(* (pull_truelayer, tiers.stamp).                                           *)
THEOREM StampedMeansAsked == Spec => []AccountsCovered
  <1>1. IInv => AccountsCovered
    BY DEF IInv
  <1> QED BY <1>1, InitIInv, StepIInv, PTL DEF Spec

----------------------------------------------------------------------------
(* SpaceHistory                                                             *)

(* What is planned lies in a part of the span that nothing landed covers.   *)
LEMMA PlannedIsOpen ==
  ASSUME landed \subseteq Windows, days \in Nat \ {0}, NEW w \in Planned
  PROVE  /\ w \in Windows
         /\ \A v \in landed : Days(w) \cap Days(v) = {}
  <1> USE HistoryAssumption
  <1>1. PICK g \in Gaps : w = Laid(g, days)
    BY DEF Planned
  <1> DEFINE open == Days(Span) \ CoveredBy(landed)
  <1>2. PICK r \in open \X open : r[1] <= r[2] /\ r[1]..r[2] \subseteq open /\ g = <<r[1], r[2] + 1>>
    BY <1>1 DEF Gaps, Uncovered, HolesOf
  <1>3. Span[1] \in Int /\ Span[2] \in Int
    OBVIOUS
  <1>4. r[1] \in Span[1]..(Span[2] - 1) /\ r[2] \in Span[1]..(Span[2] - 1)
    BY <1>2 DEF Days
  <1>5. g[1] = r[1] /\ g[2] = r[2] + 1
    BY <1>2
  <1>6. w = <<r[1], Least(r[1] + days, r[2] + 1)>>
    BY <1>1, <1>5 DEF Laid
  <1>7. Least(r[1] + days, r[2] + 1) \in (r[1] + 1)..(r[2] + 1)
    BY <1>2, <1>3, <1>4 DEF Least
  <1>8. Days(w) \subseteq r[1]..r[2]
    BY <1>3, <1>4, <1>6, <1>7 DEF Days
  <1>9. w \in Windows
    BY <1>3, <1>4, <1>6, <1>7 DEF Windows
  <1> QED BY <1>2, <1>8, <1>9 DEF CoveredBy

LEMMA RungTypes ==
  /\ Rungs \subseteq Nat \ {0} /\ Ladder[1] \in Rungs
  /\ \A n : Narrower(n) \subseteq Rungs
  /\ WorkingLength \subseteq Rungs
  <1> USE HistoryAssumption
  <1>1. Len(Ladder) \in Nat \ {0} /\ DOMAIN Ladder = 1..Len(Ladder)
    OBVIOUS
  <1>2. Rungs \subseteq Nat \ {0} /\ \A k \in DOMAIN Ladder : Ladder[k] \in Rungs
    BY DEF Rungs, Range
  <1>3. Ladder[1] \in Rungs /\ Last(Ladder) \in Rungs
    BY <1>1, <1>2 DEF Last
  <1> QED BY <1>2, <1>3 DEF Narrower, WorkingLength, Longest

(***************************************************************************)
(* The invariant: an answer that is to be recorded covers nothing that is.  *)
(***************************************************************************)

Fresh == stage = "recording" => \A v \in landed : Days(answer) \cap Days(v) = {}
HandHeld == stage \in {"recording", "reconciling"} => answer \in answers

HistoryIInv == HistoryTypeOK /\ HandHeld /\ Fresh /\ NoDayTwice

LEMMA HistoryBegins == HistoryInit => HistoryIInv
  <1> SUFFICES ASSUME HistoryInit PROVE HistoryIInv
    OBVIOUS
  <1>1. settled \in BOOLEAN
    BY Zenon DEF HistoryInit
  <1>2. spent \in 0..AsksPerCycle /\ hitches \in 0..MaxHitches /\ days \in Rungs
    BY HistoryAssumption, RungTypes DEF HistoryInit
  <1> QED BY <1>1, <1>2 DEF HistoryInit, HistoryIInv, HistoryTypeOK, HandHeld, Fresh, NoDayTwice

LEMMA HistoryKeeps == HistoryIInv /\ [HistoryNext]_historyVars => HistoryIInv'
  <1> SUFFICES ASSUME HistoryIInv, [HistoryNext]_historyVars PROVE HistoryIInv'
    OBVIOUS
  <1> USE HistoryAssumption, RungTypes DEF HistoryIInv, HistoryTypeOK, HandHeld, Fresh, NoDayTwice, CycleOver, Hitch, ledger
  <1>1. CASE BeginWindows
    BY <1>1 DEF BeginWindows
  <1>2. CASE RecordLanded
    <2>1. answer \in answers /\ \A v \in landed : Days(answer) \cap Days(v) = {}
      BY <1>2 DEF RecordLanded
    <2>2. NoDayTwice'
      BY <1>2, <2>1 DEF RecordLanded
    <2> QED BY <1>2, <2>1, <2>2 DEF RecordLanded
  <1>3. CASE Reconciled
    BY <1>3 DEF Reconciled
  <1>4. CASE End
    BY <1>4 DEF End
  <1>5. ASSUME NEW w \in Windows, Answered(w) PROVE HistoryIInv'
    <2>1. landed \subseteq Windows /\ days \in Nat \ {0} /\ w \in Planned
      BY <1>5 DEF Answered, AsksFor
    <2>2. \A v \in landed : Days(w) \cap Days(v) = {}
      BY <2>1, PlannedIsOpen
    <2> QED BY <1>5, <2>2 DEF Answered, AsksFor
  <1>6. ASSUME NEW w \in Windows, TooLong(w) PROVE HistoryIInv'
    <2>1. Length(w) \in Lengths
      BY DEF Windows, Lengths, Length
    <2>2. spent + 1 \in 0..AsksPerCycle
      BY <1>6 DEF TooLong, AsksFor
    <2>3. settled' \in BOOLEAN
      BY <1>6, Zenon DEF TooLong
    <2> QED BY <1>6, <2>1, <2>2, <2>3 DEF TooLong, AsksFor
  <1>7. ASSUME NEW w \in Windows, Transient(w) \/ SettledRefusal(w) PROVE HistoryIInv'
    <2>1. settled' \in BOOLEAN
      BY <1>7, Zenon DEF Transient, SettledRefusal
    <2> QED BY <1>7, <2>1 DEF Transient, SettledRefusal, AsksFor
  <1>8. CASE DiesMidway
    BY <1>8 DEF DiesMidway
  <1>9. CASE RetryPeriodPasses
    <2>1. settled' \in BOOLEAN
      BY <1>9, Zenon DEF RetryPeriodPasses
    <2>2. hitches' \in 0..MaxHitches
      BY <1>9 DEF RetryPeriodPasses
    <2> QED BY <1>9, <2>1, <2>2 DEF RetryPeriodPasses
  <1>10. CASE Replay
    BY <1>10 DEF Replay
  <1>11. CASE UNCHANGED historyVars
    BY <1>11 DEF historyVars
  <1> QED BY <1>1, <1>2, <1>3, <1>4, <1>5, <1>6, <1>7, <1>8, <1>9, <1>10, <1>11 DEF HistoryNext, HistoryGoes

(* THEOREM: no step takes a variable out of its type, and what is recorded  *)
(* as landed is held (_pull_closed_space_history).                          *)
THEOREM HistoryTypeCorrect == HistorySpec => []HistoryTypeOK
  <1>1. HistoryIInv => HistoryTypeOK
    BY DEF HistoryIInv
  <1> QED BY <1>1, HistoryBegins, HistoryKeeps, PTL DEF HistorySpec

(* THEOREM: however cycles end and resume, no day of the span is recorded   *)
(* twice (_pull_closed_space_history, uncovered, plan).                     *)
THEOREM NothingTwice == HistorySpec => []NoDayTwice
  <1>1. HistoryIInv => NoDayTwice
    BY DEF HistoryIInv
  <1> QED BY <1>1, HistoryBegins, HistoryKeeps, PTL DEF HistorySpec
=============================================================================
