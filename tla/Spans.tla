------------------------------- MODULE Spans -------------------------------
(***************************************************************************)
(* The arithmetic of what an ask covered (ingest/space_windows.py and       *)
(* ingest/asked_coverage.py), over whole days.  A window is <<first, end>>, *)
(* end exclusive, as space_windows keeps it; the aggregator's asks name     *)
(* their last day and are widened by one before they get here.              *)
(***************************************************************************)
EXTENDS Integers, Sequences, FiniteSets, SequencesExt

Least(a, b) == IF a < b THEN a ELSE b
Most(a, b) == IF a > b THEN a ELSE b

Days(w) == w[1]..(w[2] - 1)
CoveredBy(windows) == UNION {Days(w) : w \in windows}

\* The days between the first and the last of a set that are not in it, and
\* the unbroken runs of a set, as windows.
MissingIn(days) == {d \in UNION {a..b : a, b \in days} : d \notin days}
HolesOf(days) == {<<r[1], r[2] + 1>> : r \in
    {q \in days \X days : q[1] <= q[2] /\ q[1]..q[2] \subseteq days
                           /\ q[1] - 1 \notin days /\ q[2] + 1 \notin days}}

\* mutant: the end of a landed window is taken for its last day
UncoveredFromLast(span, landed) ==
    HolesOf(Days(span) \ UNION {w[1]..(w[2] - 2) : w \in landed})

\* The parts of the span no landed window covers, whole and apart.
Uncovered(span, landed) == HolesOf(Days(span) \ CoveredBy(landed))

\* coverage_of: the holes between the first and the last day asked for, as far
\* as the provider still serves them.
HealableHoles(days, edge) == HolesOf({d \in MissingIn(days) : d >= edge})

\* mutant: the overlap reaches back for days that are not served unattended
HealWindowUnclipped(hole, edge, today, overlap) ==
    <<hole[1] - overlap, Least(hole[2] + overlap, today + 1)>>

\* heal_plan's window for a hole, clipped to what can be asked for unattended.
HealWindow(hole, edge, today, overlap) ==
    <<Most(hole[1] - overlap, edge), Least(hole[2] + overlap, today + 1)>>

\* The first of the windows of at most so many days that are laid over a gap.
Laid(gap, days) == <<gap[1], Least(gap[1] + days, gap[2])>>
=============================================================================
