---------------------------- MODULE SpaceHistory ----------------------------
(***************************************************************************)
(* A closed Space's history fetched in bounded windows over several cycles *)
(* (pull.py _pull_closed_space_history, space_windows.py).  Everything a    *)
(* cycle knows is read from the attempt ledger: which windows landed, which *)
(* lengths were refused as too long, whether a settled refusal blocks it.   *)
(* An answer is landed, then recorded, then reconciled: three commits, and  *)
(* the process may die between any two.                                     *)
(***************************************************************************)
EXTENDS Spans

CONSTANTS Span,            \* <<first, end>> of the Space's known movements: fixed, as
                           \* it is once nothing new is known of the Space and the
                           \* margin after its last movement has passed (span_of)
          Ladder,          \* WINDOW_LADDER_DAYS, longest first
          AsksPerCycle,    \* WINDOW_ASKS_PER_CYCLE
          Limits,          \* the longest windows the provider may accept (external)
          MaxHitches       \* bound: deaths, faults and quiet retry periods

Lengths == 1..(Span[2] - Span[1])
Windows == {w \in (Span[1]..Span[2]) \X (Span[1]..Span[2]) : w[1] < w[2]}

ASSUME HistoryAssumption ==
    /\ Span \in Int \X Int /\ Span[1] < Span[2]
    /\ Ladder \in Seq(Nat \ {0}) /\ Ladder # <<>>
    /\ \A j, k \in DOMAIN Ladder : j < k => Ladder[j] > Ladder[k]
    /\ AsksPerCycle \in Nat \ {0} /\ Limits \subseteq Nat /\ MaxHitches \in Nat

VARIABLES landed,    \* ledger: windows recorded as landed
          answers,   \* layer 0: windows whose answer is there
          rows,      \* windows whose answer reached the rows
          refused,   \* ledger: lengths refused as too long in the retry period
          settled,   \* ledger: the newest answer is a settled refusal in that period
          stage,     \* "idle", "asking", "recording" or "reconciling"
          days,      \* the length the cycle asks for
          spent,     \* asks of this cycle
          answer,    \* the window whose answer is in hand, or <<>>
          limit,     \* what the provider accepts (external)
          hitches    \* deaths, faults and quiet retry periods so far

ledger == <<landed, refused, settled>>
historyVars == <<ledger, answers, rows, stage, days, spent, answer, limit, hitches>>

\* What no landed window covers, and the window to ask for: the first that is
\* planned over the oldest gap.
Gaps == Uncovered(Span, landed)
Oldest(g) == g \in Gaps /\ \A h \in Gaps : g[1] <= h[1]
Planned == {Laid(g, days) : g \in {h \in Gaps : Oldest(h)}}
Length(w) == w[2] - w[1]

Rungs == Range(Ladder)

\* The longest of the rungs, or none of none.
Longest(rungs) == {n \in rungs : \A m \in rungs : m <= n}

\* narrower: the next rung down; none when the ladder is exhausted.
Narrower(n) == Longest({rung \in Rungs : rung < n})

\* The longest rung shorter than every length refused of late, or the last.
WorkingLength ==
    LET shorter == {rung \in Rungs : \A m \in refused : rung < m}
    IN  IF shorter = {} THEN {Last(Ladder)} ELSE Longest(shorter)

BeginWindows ==
    /\ stage = "idle" /\ Gaps # {} /\ ~settled
    /\ stage' = "asking" /\ days' \in WorkingLength /\ spent' = 0
    /\ UNCHANGED <<ledger, answers, rows, answer, limit, hitches>>

CycleOver == stage' = "idle" /\ days' = Ladder[1] /\ spent' = 0 /\ answer' = <<>>

Hitch == hitches < MaxHitches /\ hitches' = hitches + 1

AsksFor(w) == stage = "asking" /\ spent < AsksPerCycle /\ w \in Planned

\* An answer, with rows or empty: land_artefact.
Answered(w) ==
    /\ AsksFor(w) /\ Length(w) <= limit
    /\ answer' = w /\ answers' = answers \cup {w}
    /\ spent' = spent + 1 /\ stage' = "recording"
    /\ UNCHANGED <<ledger, rows, days, limit, hitches>>

\* record_attempt, "landed": also the newest answer now.
RecordLanded ==
    /\ stage = "recording"
    /\ landed' = landed \cup {answer} /\ settled' = FALSE
    /\ stage' = "reconciling"
    /\ UNCHANGED <<answers, rows, refused, days, spent, answer, limit, hitches>>

\* reconcile_batch, and on to the next window.
Reconciled ==
    /\ stage = "reconciling"
    /\ rows' = rows \cup {answer}
    /\ stage' = "asking" /\ answer' = <<>>
    /\ UNCHANGED <<ledger, answers, days, spent, limit, hitches>>

TooLongForgotten(w) ==     \* mutant: the refusal does not say that it was about the range
    /\ AsksFor(w) /\ Length(w) > limit
    /\ settled' = FALSE
    /\ \/ days' \in Narrower(days) /\ spent' = spent + 1 /\ UNCHANGED <<stage, answer>>
       \/ Narrower(days) = {} /\ CycleOver
    /\ UNCHANGED <<landed, refused, answers, rows, limit, hitches>>

\* Refused as too long: the next rung down, while there is one.
TooLong(w) ==
    /\ AsksFor(w) /\ Length(w) > limit
    /\ refused' = refused \cup {Length(w)} /\ settled' = FALSE
    /\ \/ days' \in Narrower(days) /\ spent' = spent + 1 /\ UNCHANGED <<stage, answer>>
       \/ Narrower(days) = {} /\ CycleOver
    /\ UNCHANGED <<landed, answers, rows, limit, hitches>>

\* The quota, a server fault or no answer: over until the next cycle.
Transient(w) ==
    /\ AsksFor(w) /\ Hitch
    /\ settled' = FALSE /\ CycleOver
    /\ UNCHANGED <<landed, refused, answers, rows, limit>>

SettledRefusal(w) ==
    /\ AsksFor(w) /\ Hitch
    /\ settled' = TRUE /\ CycleOver
    /\ UNCHANGED <<landed, refused, answers, rows, limit>>

End ==
    /\ stage = "asking" /\ (spent = AsksPerCycle \/ Gaps = {})
    /\ CycleOver
    /\ UNCHANGED <<ledger, answers, rows, limit, hitches>>

DiesMidway ==
    /\ stage # "idle" /\ Hitch
    /\ CycleOver
    /\ UNCHANGED <<ledger, answers, rows, limit>>

\* CLOSED_SPACE_RETRY_DAYS pass: what was refused is no longer read.
RetryPeriodPasses ==
    /\ stage = "idle"
    /\ \/ settled /\ hitches' = hitches
       \/ ~settled /\ refused # {} /\ Hitch
    /\ settled' = FALSE /\ refused' = {}
    /\ UNCHANGED <<landed, answers, rows, stage, days, spent, answer, limit>>

\* A rebuild replays layer 0; nothing promises one.
Replay ==
    /\ stage = "idle"
    /\ rows' = answers
    /\ UNCHANGED <<ledger, answers, stage, days, spent, answer, limit, hitches>>

HistoryInit ==
    /\ landed = {} /\ answers = {} /\ rows = {} /\ refused = {} /\ settled = FALSE
    /\ stage = "idle" /\ days = Ladder[1] /\ spent = 0 /\ answer = <<>> /\ hitches = 0
    /\ limit \in Limits

HistoryGoes ==
    \/ BeginWindows \/ RecordLanded \/ Reconciled \/ End
    \/ \E w \in Windows : TooLong(w) \/ Answered(w)
HistoryNext ==
    \/ HistoryGoes \/ DiesMidway \/ RetryPeriodPasses \/ Replay
    \/ \E w \in Windows : Transient(w) \/ SettledRefusal(w)

HistorySpec == HistoryInit /\ [][HistoryNext]_historyVars

\* Cycles go on, the provider answers unless a hitch comes between, and a
\* settled refusal is forgotten in time.
HistoryFairSpec ==
    /\ HistorySpec
    /\ WF_historyVars(HistoryGoes)
    /\ WF_historyVars(settled /\ RetryPeriodPasses)

----------------------------------------------------------------------------
\* Properties.

\* Every variable stays within its type, and a window is recorded only when
\* its answer is held.
HistoryTypeOK ==
    /\ landed \subseteq answers /\ answers \subseteq Windows /\ rows \subseteq answers
    /\ refused \subseteq Lengths /\ settled \in BOOLEAN
    /\ stage \in {"idle", "asking", "recording", "reconciling"}
    /\ days \in Rungs /\ spent \in 0..AsksPerCycle /\ answer \in Windows \cup {<<>>}
    /\ limit \in Limits /\ hitches \in 0..MaxHitches

\* However cycles end and resume, no day of the span is recorded twice
\* (space_windows.py:10-13: a run "resumes at the first window not yet landed").
NoDayTwice == \A v, w \in landed : v = w \/ Days(v) \cap Days(w) = {}

\* The history is complete in the end, when the shortest rung is accepted.
HistoryFinishes == (\E n \in Rungs : n <= limit) => <>(Gaps = {})
=============================================================================
