----------------------------- MODULE FeedCursor -----------------------------
(***************************************************************************)
(* The rolling cursor of one category of the first-party feed               *)
(* (ingest/cursor.py, ingest/pull.py pull_starling): what a routine pull    *)
(* asks for, how the item that proves the ask (the canary) is checked, what *)
(* the pull falls back to, and the order in which it lands a response,      *)
(* moves the cursor, stamps the sweep and writes the rows.  Each of those   *)
(* is a commit of its own, so a pull may die between any two.               *)
(*                                                                          *)
(* The provider is external: an item is a uid with the stamp of its last    *)
(* change; a change may become visible up to Late after its stamp, and the  *)
(* filter may come to reach Shift less far back than it was asked to.       *)
(***************************************************************************)
EXTENDS Integers, Sequences

CONSTANTS Items,        \* feedItemUid values
          MaxTime,      \* bound: the last stamp the provider writes
          Overlap,      \* cursor.overlap()
          Late,         \* how long a change may stay invisible (external)
          SweepEvery,   \* cursor.sweep_interval(), in days
          Rungs,        \* RANGE_LADDER_DAYS, widest first
          Keep,         \* cursor._HISTORY_KEEP
          RangeLimited, \* may the provider refuse an ask for its range?
          MaxRange,     \* it does not when the ask reaches back no further
          Shift,        \* how much later than asked the filter begins (external)
          MayAmend,     \* whether an item may change once it is listed
          Windows,      \* the dates explicit pulls ask from
          Replays,      \* whether the rows are replayed meanwhile
          MaxCrashes    \* bound: pulls that die under way

ASSUME CursorAssumption ==
    /\ MaxTime \in Nat /\ Overlap \in Nat /\ Late \in Nat
    /\ SweepEvery \in Nat /\ Keep \in Nat /\ MaxCrashes \in Nat
    /\ RangeLimited \in BOOLEAN /\ MaxRange \in Nat
    /\ Shift \in Nat /\ MayAmend \in BOOLEAN
    /\ Windows \subseteq 0..MaxTime /\ Replays \in BOOLEAN
    /\ Rungs \in Seq(Nat)

NoCursor == <<>>
NotShown == -1          \* an item the provider does not list: not yet, or no longer
Times == 0..MaxTime
Revisions == Items \X Times

VARIABLES shown,     \* provider: the stamp each listed item wears
          removed,   \* provider: items taken out of the feed for good
          overdue,   \* items whose last change showed later than the overlap
          now,
          landed,    \* layer 0: the revisions held
          rows,      \* layer 1: revisions the rows were written from
          cursor,    \* provider_facts feed-cursor: <<uid, stamp>> or NoCursor
          history,   \* its prior anchors, newest first
          sweptAgo,  \* days since feed-last-sweep; SweepEvery: due
          bound,     \* the latest stamp a landed ladder ask began at: what is
                     \* older its note leaves to attended backfill
          pc, sweeping, step, cutoff, got,   \* the pull under way
          crashes

provider == <<shown, removed, overdue, now>>
store == <<landed, rows, cursor, history, sweptAgo, bound>>
locals == <<pc, sweeping, step, cutoff, got>>
vars == <<provider, store, locals, crashes>>

----------------------------------------------------------------------------
\* The provider.

Listed(i) == shown[i] # NotShown
Visible == {r \in Revisions : shown[r[1]] = r[2]}

\* An item appears or changes.  Its stamp says when it changed, which is up
\* to Late before it can be seen.
Change(i) ==
    /\ i \notin removed /\ (Listed(i) => MayAmend)
    /\ \E s \in Times :
         /\ s <= now /\ s >= now - Late /\ s > shown[i]
         /\ shown' = [shown EXCEPT ![i] = s]
         /\ overdue' = IF s < now - Overlap THEN overdue \cup {i} ELSE overdue \ {i}
    /\ UNCHANGED <<removed, now, store, locals, crashes>>

Remove(i) ==
    /\ Listed(i)
    /\ shown' = [shown EXCEPT ![i] = NotShown]
    /\ removed' = removed \cup {i}
    /\ UNCHANGED <<overdue, now, store, locals, crashes>>

Tick ==
    /\ now < MaxTime
    /\ now' = now + 1
    /\ UNCHANGED <<shown, removed, overdue, store, locals, crashes>>

Day ==
    /\ sweptAgo < SweepEvery
    /\ sweptAgo' = sweptAgo + 1
    /\ UNCHANGED <<provider, landed, rows, cursor, history, bound,
                   locals, crashes>>

\* The cursorless ask names no cutoff: it reaches further back than any.
Whole == -(Overlap + 1)

\* A refusal may carry RANGE_REFUSAL_MARK when the ask reached too far back.
TooFar(back) == RangeLimited /\ back > MaxRange

AskedFor(from) == {r \in Visible : r[2] >= from}
Response(from, shift) == IF from = Whole THEN Visible ELSE AskedFor(from + shift)

----------------------------------------------------------------------------
\* The cursor.

SinceAfter(anchor) == anchor[2] - Overlap + 1     \* mutant: strictly later
Since(anchor) == anchor[2] - Overlap
NeverDue == FALSE                    \* mutant: a full sweep is never due
SweepDue == sweptAgo >= SweepEvery

CanaryPresent(items, anchor) == \E r \in items : r[1] = anchor[1]

Newest(items) == {r \in items : \A q \in items : q[2] <= r[2]}

AdvancedBare(anchor) ==  \* mutant: the anchor is kept without its stamp
    /\ cursor' = <<anchor[1]>> /\ UNCHANGED history

\* FeedCursor.advanced: the anchor it leaves goes on top of the history.
Advanced(anchor) ==
    /\ cursor' = anchor
    /\ history' = IF cursor = NoCursor \/ anchor = cursor THEN history
                  ELSE SubSeq(<<cursor>> \o history, 1,
                              IF Len(history) < Keep THEN Len(history) + 1 ELSE Keep)

----------------------------------------------------------------------------
\* One pull of the category.

Begin ==
    /\ pc = "idle"
    /\ sweeping' = (cursor = NoCursor \/ SweepDue)
    /\ IF sweeping' THEN pc' = "whole" /\ cutoff' = Whole
       ELSE pc' = "ask" /\ cutoff' = Since(cursor)
    /\ step' = 0 /\ got' = {}
    /\ UNCHANGED <<provider, store, crashes>>

\* An explicit window (a backfill, a probe): neither narrowed by the cursor
\* nor moving it.
BeginWindow ==
    /\ pc = "idle"
    /\ pc' = "window" /\ sweeping' = FALSE /\ step' = 0 /\ got' = {}
    /\ cutoff' \in Windows
    /\ UNCHANGED <<provider, store, crashes>>

\* The pull is done with the category, or dies: its locals go.
Over ==
    /\ pc' = "idle" /\ sweeping' = FALSE /\ step' = 0 /\ cutoff' = 0 /\ got' = {}

\* fetch_and_land: the response is evidence and lands whatever it holds.
LandsFrom(shift) ==
    /\ got' = Response(cutoff, shift)
    /\ landed' = landed \cup got'
Lands == \E shift \in {0, Shift} : LandsFrom(shift)

\* The cutoff as an ask's cutoff, however many prior anchors it fell through.
StepBack(k) ==
    /\ step' = k
    /\ IF k <= Len(history)
       THEN pc' = "back" /\ cutoff' = Since(history[k]) /\ UNCHANGED sweeping
       ELSE pc' = "whole" /\ cutoff' = Whole /\ sweeping' = TRUE

Ask ==
    /\ pc = "ask"
    /\ Lands
    /\ IF CanaryPresent(got', cursor)
       THEN pc' = "landed" /\ UNCHANGED <<sweeping, step, cutoff>>
       ELSE StepBack(1)
    /\ UNCHANGED <<provider, rows, cursor, history, sweptAgo, bound, crashes>>

\* A refused incremental ask ends the category's cycle: the cursor stays.
AskRefused ==
    /\ pc = "ask"
    /\ Over
    /\ UNCHANGED <<provider, store, crashes>>

AskBack ==
    /\ pc = "back"
    /\ Lands
    /\ IF CanaryPresent(got', history[step])
       THEN pc' = "landed" /\ UNCHANGED <<sweeping, step, cutoff>>
       ELSE StepBack(step + 1)
    /\ UNCHANGED <<provider, rows, cursor, history, sweptAgo, bound, crashes>>

BackRefused ==
    /\ pc = "back"
    /\ StepBack(step + 1)
    /\ UNCHANGED <<provider, store, got, crashes>>

AskWhole ==
    /\ pc = "whole"
    /\ Lands
    /\ pc' = "landed"
    /\ UNCHANGED <<provider, rows, cursor, history, sweptAgo, bound,
                   sweeping, step, cutoff, crashes>>

AskWindow ==
    /\ pc = "window"
    /\ Lands
    /\ pc' = "reconcile"
    /\ UNCHANGED <<provider, rows, cursor, history, sweptAgo, bound,
                   sweeping, step, cutoff, crashes>>

\* A rung of the range ladder: `now` less so many days.
Rung(k) ==
    IF k <= Len(Rungs)
    THEN /\ pc' = "rung" /\ step' = k
         /\ cutoff' = IF now >= Rungs[k] THEN now - Rungs[k] ELSE 0
         /\ UNCHANGED <<sweeping, got>>
    ELSE Over

\* Only the range refusal leads to the ladder; any other ends the cycle.
WholeRefused ==
    /\ pc \in {"whole", "window"}
    /\ Over
    /\ UNCHANGED <<provider, store, crashes>>

WholeTooWide ==
    /\ pc = "whole" /\ RangeLimited
    /\ Rung(1)
    /\ UNCHANGED <<provider, store, crashes>>

AskRung ==
    /\ pc = "rung"
    /\ \E shift \in {0, Shift} :
         /\ LandsFrom(shift)
         /\ bound' = IF cutoff + shift > bound THEN cutoff + shift ELSE bound
    /\ pc' = "landed"
    /\ UNCHANGED <<provider, rows, cursor, history, sweptAgo,
                   sweeping, step, cutoff, crashes>>

RungRefused ==
    /\ pc = "rung"
    /\ Over
    /\ UNCHANGED <<provider, store, crashes>>

RungTooWide ==
    /\ pc = "rung" /\ TooFar(now - cutoff)
    /\ Rung(step + 1)
    /\ UNCHANGED <<provider, store, crashes>>

\* The sweep's note, then the cursor: moved only by a response with items.
SaveCursor ==
    /\ pc = "landed"
    /\ IF got = {} THEN UNCHANGED <<cursor, history>>
       ELSE \E a \in Newest(got) : Advanced(a)
    /\ pc' = IF sweeping THEN "stamp" ELSE "reconcile"
    /\ UNCHANGED <<provider, landed, rows, sweptAgo, bound, sweeping, step, cutoff,
                   got, crashes>>

StampSweep ==
    /\ pc = "stamp"
    /\ sweptAgo' = 0
    /\ pc' = "reconcile"
    /\ UNCHANGED <<provider, landed, rows, cursor, history, bound,
                   sweeping, step, cutoff, got, crashes>>

\* reconcile_batch: one commit, all the response's items or none.
Reconcile ==
    /\ pc = "reconcile"
    /\ rows' = rows \cup got
    /\ Over
    /\ UNCHANGED <<provider, landed, cursor, history, sweptAgo, bound, crashes>>

\* The rows are replayed from the raw layer.
Replay ==
    /\ Replays /\ pc = "idle"
    /\ rows' = landed
    /\ UNCHANGED <<provider, landed, cursor, history, sweptAgo, bound,
                   locals, crashes>>

\* The pull's process dies: its locals go, its commits stay.
Crash ==
    /\ pc # "idle" /\ crashes < MaxCrashes
    /\ crashes' = crashes + 1
    /\ Over
    /\ UNCHANGED <<provider, store>>

----------------------------------------------------------------------------
Init ==
    /\ shown = [i \in Items |-> NotShown] /\ removed = {} /\ overdue = {} /\ now = 0
    /\ landed = {} /\ rows = {} /\ bound = 0
    /\ cursor = NoCursor /\ history = <<>> /\ sweptAgo = SweepEvery
    /\ pc = "idle" /\ sweeping = FALSE /\ step = 0 /\ cutoff = 0 /\ got = {}
    /\ crashes = 0

Fetch == Ask \/ AskBack \/ AskWhole \/ AskWindow \/ AskRung
Refuse == AskRefused \/ BackRefused \/ WholeRefused \/ WholeTooWide \/ RungRefused \/ RungTooWide
Write == SaveCursor \/ StampSweep \/ Reconcile
Provider == Tick \/ \E i \in Items : Change(i) \/ Remove(i)

Next == \/ Begin \/ BeginWindow \/ Fetch \/ Refuse \/ Write \/ Replay \/ Crash
        \/ Day \/ Provider

Spec == Init /\ [][Next]_vars

\* The scheduler pulls again and again, the code of a pull does not stop by
\* itself and days pass.  The provider may refuse the cursorless ask and every
\* rung wider than MaxRange for its range for ever, and every incremental ask
\* for any reason; of one it is asked again and again for it does not for ever
\* give another refusal (a quota, an error) than that of its range.
Fairness ==
    /\ SF_vars(Begin) /\ WF_vars(Fetch \/ Refuse) /\ WF_vars(Write) /\ WF_vars(Day)
    /\ SF_vars(AskWhole \/ WholeTooWide)
    /\ \A k \in 1..Len(Rungs) : SF_vars(step = k /\ (AskRung \/ RungTooWide))

FairSpec == Spec /\ Fairness

----------------------------------------------------------------------------
\* Properties.

\* Every variable stays within its type.
TypeOK ==
    /\ shown \in [Items -> Times \cup {NotShown}] /\ removed \subseteq Items /\ overdue \subseteq Items
    /\ now \in Times
    /\ landed \subseteq Revisions /\ rows \subseteq Revisions
    /\ cursor \in Revisions \cup {NoCursor} /\ history \in Seq(Revisions)
    /\ sweptAgo \in 0..SweepEvery /\ bound \in 0..(MaxTime + Shift)
    /\ pc \in {"idle", "ask", "back", "whole", "window", "rung", "landed", "stamp",
               "reconcile"}
    /\ sweeping \in BOOLEAN /\ step \in Nat /\ cutoff \in Int /\ got \subseteq Revisions
    /\ crashes \in 0..MaxCrashes

\* Nothing falls behind the cursor unfetched: every listed item the next
\* incremental ask will not return is in layer 0, unless its change showed
\* later than the overlap allows for or it is older than a ladder ask whose
\* note said that history stops there.  Holds through crashes, refusals,
\* removed anchors, steps back and, where items do not change, a filter that
\* comes to begin past the overlap.  (cursor.py:1-27: the cursor less the
\* buffer "receives everything".)
NothingSkipped ==
    cursor # NoCursor =>
        \A r \in Visible : r[2] < Since(cursor) =>
            \/ r \in landed
            \/ r[1] \in overdue
            \/ r[2] < bound

\* Whatever the provider lists comes to be in the rows, unless it changes
\* again, goes, or is older than a ladder ask whose note left it to attended
\* backfill (pull.py:1210-1220).  This although changes show later than the
\* overlap, pulls die and the cursorless ask may be refused for its range for
\* ever: the sweep is what brings back what the incremental asks and the crash
\* lost.
RowsCatchUp ==
    \A r \in Revisions :
        (r \in Visible) ~> \/ r \in rows \/ r \notin Visible
                          \/ r[2] < bound
=============================================================================
