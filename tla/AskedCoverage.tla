--------------------------- MODULE AskedCoverage ---------------------------
(***************************************************************************)
(* One aggregator connection's routine cycle (pull.py pull_truelayer and    *)
(* _heal_unasked_spans, tiers.py, asked_coverage.py): each account and then *)
(* each card is asked for the days of the tier that is due, then the days   *)
(* no landed ask ever covered are asked for, oldest first and within a      *)
(* bound, and the tier is stamped.  An account's refusal ends the cycle, a  *)
(* card's is noted; a refusal while healing ends the healing.               *)
(* The days asked for stand for the attempt ledger's landed windows; the    *)
(* ledger's row is committed before the answer itself is.                   *)
(***************************************************************************)
EXTENDS Spans

CONSTANTS Accounts, Cards,     \* sequences: the order the provider lists them in
          LastDay,             \* bound: the calendar stops here
          Window,              \* [weekly, daily, frequent |-> days asked for]
          WeekEvery, DayEvery, \* how often the wider tiers are due, in days
          Reach,               \* UNATTENDED_REACH_DAYS
          Overlap,             \* HEAL_OVERLAP_DAYS
          Bounds,              \* healing asks a cycle may spend (attended or not)
          Serves,              \* how far back the provider serves each target (external)
          MaxCrashes           \* bound: cycles that die under way

Order == Accounts \o Cards
Targets == Range(Order)
Calendar == 0..LastDay

ASSUME CoverageAssumption ==
    /\ Accounts \in Seq(Range(Accounts)) /\ Cards \in Seq(Range(Cards))
    /\ Range(Accounts) \cap Range(Cards) = {} /\ LastDay \in Nat
    /\ Window \in [{"weekly", "daily", "frequent"} -> Nat]
    /\ WeekEvery \in Nat /\ DayEvery \in Nat /\ Reach \in Nat /\ Overlap \in Nat
    /\ Bounds \subseteq Nat /\ Serves \in [Targets -> Nat] /\ MaxCrashes \in Nat

VARIABLES today,
          asked,      \* ledger: the days each target's landed asks covered
          held,       \* layer 0: the days whose answers were landed
          weeklyAgo, dailyAgo,  \* days since tier-last-weekly and tier-last-daily
          pc,         \* "idle", "asking", "landing", "pending", "healing" or "healed"
          day,        \* the cycle's own today
          tier,       \* the tier the cycle chose
          left,       \* whom the tier still has to ask, or what is still to heal
          hand,       \* the days of the answer in hand
          skip,       \* refused_cards
          crashes

facts == <<asked, held, weeklyAgo, dailyAgo>>
locals == <<pc, day, tier, left, hand, skip>>
vars == <<today, facts, locals, crashes>>

IsCard(t) == t \in Range(Cards)

\* The holes of a target the provider still serves.
HealableFrom(t, edge) == HealableHoles(asked[t], edge)

\* tiers.select: the widest that is due.
Selected ==
    IF weeklyAgo >= WeekEvery THEN "weekly"
    ELSE IF dailyAgo >= DayEvery THEN "daily" ELSE "frequent"

----------------------------------------------------------------------------
\* A cycle.

Begin ==
    /\ pc = "idle"
    /\ pc' = "asking" /\ day' = today /\ tier' = Selected /\ left' = Order /\ skip' = {}
    /\ UNCHANGED <<today, facts, hand, crashes>>

Asking(t) == pc = "asking" /\ left # <<>> /\ t = Head(left)

\* record_attempt: the ledger's row, then land_artefact the answer.
Recorded(t, days) ==
    /\ hand' = days \cap Calendar
    /\ asked' = [asked EXCEPT ![t] = @ \cup hand']
Landed(t) == held' = [held EXCEPT ![t] = @ \cup hand] /\ hand' = {}

\* An account's window begins by the cycle's day, a card's by the clock; both
\* end today.
TierAskAnswered(t) ==
    /\ Asking(t)
    /\ Recorded(t, ((IF IsCard(t) THEN today ELSE day) - Window[tier])..today)
    /\ pc' = "landing"
    /\ UNCHANGED <<today, held, weeklyAgo, dailyAgo, day, tier, left, skip, crashes>>

\* An account is next asked for its pending list.
TierAnswerLands ==
    /\ pc = "landing"
    /\ Landed(Head(left))
    /\ IF IsCard(Head(left)) THEN pc' = "asking" /\ left' = Tail(left)
                             ELSE pc' = "pending" /\ left' = left
    /\ UNCHANGED <<today, asked, weeklyAgo, dailyAgo, day, tier, skip, crashes>>

PendingAnswered ==
    /\ pc = "pending"
    /\ pc' = "asking" /\ left' = Tail(left)
    /\ UNCHANGED <<today, facts, day, tier, hand, skip, crashes>>

Over ==
    /\ pc' = "idle" /\ day' = 0 /\ tier' = "frequent"
    /\ left' = <<>> /\ hand' = {} /\ skip' = {}

AccountSkipped(t) ==     \* mutant: noted like a card's refusal
    /\ Asking(t) /\ ~IsCard(t)
    /\ left' = Tail(left)
    /\ UNCHANGED <<today, facts, pc, day, tier, hand, skip, crashes>>

\* A refused account raises out of the pull: nobody after it is asked, no
\* healing, no stamp.
AccountRefused(t) ==
    /\ Asking(t) /\ ~IsCard(t)
    /\ Over
    /\ UNCHANGED <<today, facts, crashes>>

PendingRefused ==
    /\ pc = "pending"
    /\ Over
    /\ UNCHANGED <<today, facts, crashes>>

\* A card list that is refused is every card of it refused.
CardRefused(t) ==
    /\ Asking(t) /\ IsCard(t)
    /\ left' = Tail(left) /\ skip' = skip \cup {t}
    /\ UNCHANGED <<today, facts, pc, day, tier, hand, crashes>>

\* heal_plan over the targets that were not refused, oldest first.
Heal(t, h) == [target |-> t, days |-> Days(HealWindow(h, day - Reach, day, Overlap))]
Asks == UNION {{Heal(t, h) : h \in HealableFrom(t, day - Reach)} :
                 t \in Targets \ skip}
FirstDay(a) == CHOOSE d \in a.days : \A e \in a.days : d <= e

HealAsks(bound) ==
    LET n == Least(Cardinality(Asks), bound)
    IN  {s \in [1..n -> Asks] :
           /\ \A j, k \in 1..n : j < k => s[j] # s[k] /\ FirstDay(s[j]) <= FirstDay(s[k])
           /\ \A a \in Asks \ Range(s) : \A k \in 1..n : FirstDay(s[k]) <= FirstDay(a)}

PlanHealing ==
    /\ pc = "asking" /\ left = <<>>
    /\ pc' = "healing"
    /\ \E bound \in Bounds : left' \in HealAsks(bound)
    /\ UNCHANGED <<today, facts, day, tier, hand, skip, crashes>>

HealAnswered ==
    /\ pc = "healing" /\ left # <<>>
    /\ FirstDay(Head(left)) >= today - Serves[Head(left).target]
    /\ Recorded(Head(left).target, Head(left).days)
    /\ pc' = "healed"
    /\ UNCHANGED <<today, held, weeklyAgo, dailyAgo, day, tier, left, skip, crashes>>

HealLands ==
    /\ pc = "healed"
    /\ Landed(Head(left).target)
    /\ pc' = "healing" /\ left' = Tail(left)
    /\ UNCHANGED <<today, asked, weeklyAgo, dailyAgo, day, tier, skip, crashes>>

\* A refusal ends the cycle's healing with no further call.
HealRefused ==
    /\ pc = "healing" /\ left # <<>>
    /\ left' = <<>>
    /\ UNCHANGED <<today, facts, pc, day, tier, hand, skip, crashes>>

\* tiers.stamp: a wider tier satisfies the narrower one.
Stamp ==
    /\ pc = "healing" /\ left = <<>>
    /\ weeklyAgo' = IF tier = "weekly" THEN 0 ELSE weeklyAgo
    /\ dailyAgo' = IF tier \in {"weekly", "daily"} THEN 0 ELSE dailyAgo
    /\ Over
    /\ UNCHANGED <<today, asked, held, crashes>>

Crash ==
    /\ pc # "idle" /\ crashes < MaxCrashes
    /\ crashes' = crashes + 1
    /\ Over
    /\ UNCHANGED <<today, facts>>

\* A cycle may run past one midnight.
NextDay ==
    /\ today < LastDay /\ (pc # "idle" => today = day)
    /\ today' = today + 1
    /\ weeklyAgo' = Least(weeklyAgo + 1, WeekEvery)
    /\ dailyAgo' = Least(dailyAgo + 1, DayEvery)
    /\ UNCHANGED <<asked, held, locals, crashes>>

Init ==
    /\ today = 0 /\ asked = [t \in Targets |-> {}] /\ held = asked
    /\ weeklyAgo = WeekEvery /\ dailyAgo = DayEvery
    /\ pc = "idle" /\ day = 0 /\ tier = "frequent"
    /\ left = <<>> /\ hand = {} /\ skip = {}
    /\ crashes = 0

Refusal == HealRefused \/ PendingRefused \/ \E t \in Targets : AccountRefused(t) \/ CardRefused(t)
Goes == PlanHealing \/ TierAnswerLands \/ HealLands \/ Stamp \/ Refusal
Next == \/ Begin \/ Goes \/ PendingAnswered \/ HealAnswered \/ Crash \/ NextDay
        \/ \E t \in Targets : TierAskAnswered(t)

Spec == Init /\ [][Next]_vars

\* The scheduler runs cycle after cycle, days pass, and an ask the provider
\* can serve is not refused for ever.
Fairness ==
    /\ WF_vars(Begin) /\ WF_vars(Goes) /\ WF_vars(NextDay)
    /\ SF_vars(HealAnswered) /\ SF_vars(PendingAnswered)
    /\ \A t \in Targets : SF_vars(TierAskAnswered(t))

FairSpec == Spec /\ Fairness

----------------------------------------------------------------------------
\* Properties.

\* Every variable stays within its type.
TypeOK ==
    /\ today \in Calendar /\ asked \in [Targets -> SUBSET Calendar]
    /\ held \in [Targets -> SUBSET Calendar] /\ hand \subseteq Calendar
    /\ weeklyAgo \in 0..WeekEvery /\ dailyAgo \in 0..DayEvery
    /\ pc \in {"idle", "asking", "landing", "pending", "healing", "healed"}
    /\ day \in Calendar
    /\ tier \in DOMAIN Window /\ skip \subseteq Range(Cards)
    /\ left \in Seq(Targets) \cup Seq([target : Targets, days : SUBSET Calendar])
    /\ crashes \in 0..MaxCrashes

\* A cadence that was stamped was asked: an account has no day unasked within
\* the weekly window as it stood at the stamp, whatever was refused, crashed
\* or slept through in between (tiers.py: the overlap "is the coverage
\* guarantee").
AccountsCovered ==
    weeklyAgo < WeekEvery =>
        \A t \in Range(Accounts) :
            ((today - weeklyAgo - Window["weekly"])..(today - weeklyAgo - 1)) \cap Calendar
                \subseteq asked[t]

\* A day between the asked ones that no ask covered, and that the provider
\* still serves, is asked for in the end or is served no longer
\* (asked_coverage.py:53-60: "a longer queue simply continues next cycle").
HolesClose ==
    \A t \in Targets :
        LET unasked == {d \in MissingIn(asked[t]) : d >= today - Reach}
        IN  (unasked # {}) ~> (unasked = {})
=============================================================================
