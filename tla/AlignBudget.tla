---------------------------- MODULE AlignBudget ----------------------------
(***************************************************************************)
(* What a push, a prune and an align do to the rows of the Actual budget:  *)
(* applier/lib.mjs (linkTransfers), transfers.mjs (judgePair), audit.mjs   *)
(* (pruneAccounts, unlinkLeg) and align.mjs, one call on the budget per    *)
(* step.                                                                   *)
(*                                                                         *)
(* obdi keeps the rows it expects and the transfer pairs it confirmed.  A  *)
(* request carries both as they were when it was built; a push imports the *)
(* rows and links each pair, a prune removes what is no longer expected,   *)
(* an align does push, prune and, if a link was cleared, push again.  A    *)
(* person links, unlinks and reconciles rows between the jobs.             *)
(*                                                                         *)
(* A transfer is two rows that name each other.  The two updates that make *)
(* or clear it are separate calls, each may throw before or after it took  *)
(* effect, and the applier may die between any two.                        *)
(***************************************************************************)
EXTENDS Integers, FiniteSets, Sequences

CONSTANTS Rows,         \* rows that are or may come to be in the budget
          Ours,         \* those that carry an obdi imported id
          Debits,       \* those whose amount is negative
          Accounts,
          AccountOf,    \* the account of each row
          NoRow,        \* no link
          MaxChanges,   \* bound: changes by the store or by a person
          MaxFaults,    \* bound: calls that throw and deaths of the applier
          MaxShown      \* bound: the ceiling a person confirms

ASSUME RowsAssumption == IsFiniteSet(Rows)
ASSUME OursAssumption == Ours \subseteq Rows
ASSUME DebitsAssumption == Debits \subseteq Rows
ASSUME AccountAssumption == AccountOf \in [Rows -> Accounts]
ASSUME NoRowAssumption == NoRow \notin Rows
ASSUME BoundsAssumption == MaxChanges \in Nat /\ MaxFaults \in Nat /\ MaxShown \in Nat

VARIABLES held,      \* rows obdi expects in the budget
          pairs,     \* its confirmed transfer pairs
          present,   \* rows in the budget
          link,      \* transfer_id of each row
          locked,    \* reconciled rows
          pc,        \* what the applier does next
          request,   \* the request in hand
          round,     \* 1 for the push, 2 for an align's push again
          start,     \* the links as the linking stage first read them
          index,     \* the links as it judges the pairs by
          todo,      \* pairs or accounts this stage has still to take up
          plan,      \* orphans of the account in hand, each with its partner
          ops,       \* unlinks still to do for the pair or the row in hand
          inhand,    \* that pair, or that row
          released,  \* links cleared to re-link, each as its two rows
          barred,    \* pairs a failed release keeps from being linked
          failed,    \* a pair failed, or an account refused or stopped
          unlinked,  \* a removal cleared a partner's link
          removed,   \* rows the job deleted
          changes, faults

store == <<held, pairs>>
budget == <<present, link, locked>>
linking == <<start, index, released, barred>>
removing == <<unlinked, removed>>
work == <<todo, plan, ops, inhand>>
vars == <<store, budget, pc, request, round, linking, removing, work, failed,
          changes, faults>>

Of(account) == {r \in Rows : AccountOf[r] = account}
Legs(p) == {p[1], p[2]}
Mate(p, r) == IF r = p[1] THEN p[2] ELSE p[1]

(* A pair is a debit and a credit of two accounts, and no row is in two of *)
(* them: both columns of transfer_pairs are unique.                        *)
Opposite(r, s) == r \in Debits /\ s \notin Debits /\ AccountOf[r] # AccountOf[s]
Sides == {p \in Ours \X Ours : Opposite(p[1], p[2])}
Pairings(rows) ==
    {m \in SUBSET {p \in Sides : Legs(p) \subseteq rows} :
        \A p, q \in m : p # q => Legs(p) \cap Legs(q) = {}}

NoRequest == [kind |-> "none", pairs |-> {}, expected |-> {}, shown |-> 0]

-----------------------------------------------------------------------------
(* judgePair: the verdict on a pair, from the links l as they were read    *)

Usable(p) == Legs(p) \subseteq present /\ Legs(p) \cap locked = {}
Points(p, l) == l[p[1]] = p[2] /\ l[p[2]] = p[1]
Elsewhere(p, l) == {r \in Legs(p) : l[r] \notin {NoRow, Mate(p, r)}}

Linked(p, l) == Usable(p) /\ Points(p, l)
Linkable(p, l) == Usable(p) /\ ~Points(p, l) /\ Elsewhere(p, l) = {}

(* THE RE-LINK RULE: the partner a leg is to be released from is in the    *)
(* budget, obdi's own, not reconciled and not linked onward to a third.    *)
ReleasableAnyOwner(r, l) ==    \* mutant: the partner's owner is not asked
    /\ l[r] \in present \ locked
    /\ l[l[r]] \in {NoRow, r}
ReleasableOnward(r, l) ==      \* mutant: nor what the partner is linked to
    l[r] \in (present \cap Ours) \ locked
Releasable(r, l) ==
    /\ l[r] \in (present \cap Ours) \ locked
    /\ l[l[r]] \in {NoRow, r}

Relinkable(p, l) ==
    /\ Usable(p)
    /\ Elsewhere(p, l) # {}
    /\ \A r \in Elsewhere(p, l) : Releasable(r, l)

(* linkTransfers: a pair is not re-linked at the cost of one the same      *)
(* request keeps.                                                          *)
Kept(l) == UNION {Legs(p) : p \in {q \in request.pairs : Linked(q, l)}}
Involved(p, l) == Legs(p) \cup {l[r] : r \in Elsewhere(p, l)}
RelinkNothing(l) == {}   \* mutant: a leg linked to another row is left as it is
ToRelink(l) ==
    {p \in request.pairs : Relinkable(p, l) /\ Involved(p, l) \cap Kept(l) = {}}
ToLink(l) == {p \in request.pairs : Linked(p, l) \/ Linkable(p, l)} \cup ToRelink(l)

(* unlinkLeg: the partner first, where it was read as linked, then the     *)
(* leg.  The release is recorded once both are done.                       *)
UnlinkPartnerOnly(leg, l) ==   \* mutant: the leg keeps its own link
    IF l[l[leg]] = NoRow THEN <<>> ELSE <<[row |-> l[leg], ends |-> {leg, l[leg]}]>>
Unlink(leg, l) ==
    LET key == {leg, l[leg]}
        last == <<[row |-> leg, ends |-> key]>>
    IN  IF l[l[leg]] = NoRow THEN last
        ELSE <<[row |-> l[leg], ends |-> {}]>> \o last
ReleaseLegsOnly(p, l) ==   \* mutant: the old partners still name the legs
    LET Leg(r) == IF r \in Elsewhere(p, l) THEN <<[row |-> r, ends |-> {r, l[r]}]>> ELSE <<>>
    IN  Leg(p[1]) \o Leg(p[2])
Release(p, l) ==
    LET Leg(r) == IF r \in Elsewhere(p, l) /\ {r, l[r]} \notin released
                  THEN Unlink(r, l) ELSE <<>>
    IN  Leg(p[1]) \o Leg(p[2])

-----------------------------------------------------------------------------
Init ==
    /\ held = Ours
    /\ pairs \in Pairings(Ours)
    /\ present = Rows \ Ours
    /\ link = [r \in Rows |-> NoRow]
    /\ locked = {}
    /\ pc = "idle"
    /\ request = NoRequest
    /\ round = 1
    /\ start = link
    /\ index = link
    /\ todo = {}
    /\ plan = {}
    /\ ops = <<>>
    /\ inhand = NoRow
    /\ released = {}
    /\ barred = {}
    /\ failed = FALSE
    /\ unlinked = FALSE
    /\ removed = {}
    /\ changes = 0
    /\ faults = 0

(* Between the jobs, and while a request waits for the applier.            *)
Waiting == pc \in {"idle", "queued"}
Changed ==
    /\ Waiting
    /\ changes < MaxChanges
    /\ changes' = changes + 1
    /\ UNCHANGED <<pc, request, round, linking, removing, work, failed, faults>>

(* replace_transfer_pairs: the pairing pass found other pairs.             *)
Repair ==
    /\ Changed
    /\ pairs' \in Pairings(held)
    /\ UNCHANGED <<held, budget>>

(* A stored row is folded, reversed or void: it is not expected any more.  *)
(* (Bound: it never is again.)                                             *)
FoldKeepsPairs(r) ==   \* mutant: a pair is listed though a leg is not sent
    /\ Changed
    /\ r \in held
    /\ held' = held \ {r}
    /\ UNCHANGED <<pairs, budget>>
Fold(r) ==
    /\ Changed
    /\ r \in held
    /\ held' = held \ {r}
    /\ pairs' = {p \in pairs : r \notin Legs(p)}
    /\ UNCHANGED budget

PersonLinks(r, s) ==
    /\ Changed
    /\ {r, s} \subseteq present
    /\ Opposite(r, s)
    /\ link[r] = NoRow /\ link[s] = NoRow
    /\ link' = [link EXCEPT ![r] = s, ![s] = r]
    /\ UNCHANGED <<store, present, locked>>

PersonReconciles(r) ==
    /\ Changed
    /\ r \in present \ locked
    /\ locked' = locked \cup {r}
    /\ UNCHANGED <<store, present, link>>

(* build_envelope and its like: the request is what the store holds now,   *)
(* with the number of removals the person was shown and confirmed.  (A     *)
(* request that confirms no number is as one no account exceeds.)          *)
Press(kind, shown) ==
    /\ pc = "idle"
    /\ pc' = "queued"
    /\ request' = [kind |-> kind, pairs |-> pairs, expected |-> held,
                   shown |-> IF kind = "push" THEN 0 ELSE shown]
    /\ UNCHANGED <<store, budget, round, linking, removing, work, failed,
                   changes, faults>>

Begin ==
    /\ pc = "queued"
    /\ pc' = IF request.kind = "prune" THEN "prune" ELSE "import"
    /\ todo' = Accounts
    /\ UNCHANGED <<store, budget, request, round, linking, removing, plan, ops, inhand,
                   failed, changes, faults>>

-----------------------------------------------------------------------------
(* The push stage                                                          *)

(* applyAccounts: rows that are not there yet come in, account by account. *)
Import(account) ==
    /\ pc = "import"
    /\ account \in todo
    /\ present' = present \cup (request.expected \cap Of(account))
    /\ todo' = todo \ {account}
    /\ UNCHANGED <<store, link, locked, pc, request, round, linking, removing, plan, ops,
                   inhand, failed, changes, faults>>

(* Every pair is judged, and the legs to release chosen, on one reading.   *)
JudgePairs ==
    /\ pc = "import"
    /\ todo = {}
    /\ pc' = "release"
    /\ start' = link
    /\ index' = link
    /\ released' = {}
    /\ barred' = {}
    /\ todo' = ToRelink(link)
    /\ UNCHANGED <<store, budget, request, round, removing, plan, ops, inhand, failed,
                   changes, faults>>

TakeRelease(p) ==
    /\ pc = "release"
    /\ ops = <<>>
    /\ p \in todo
    /\ ops' = Release(p, start)
    /\ inhand' = p
    /\ todo' = todo \ {p}
    /\ UNCHANGED <<store, budget, pc, request, round, linking, removing, plan, failed,
                   changes, faults>>

Cleared == [link EXCEPT ![Head(ops).row] = NoRow]

(* One updateTransaction of unlinkLeg, read back as unlinked.              *)
UnlinkOne ==
    /\ ops # <<>>
    /\ link' = Cleared
    /\ ops' = Tail(ops)
    /\ released' = IF pc = "release" /\ Head(ops).ends # {}
                   THEN released \cup {Head(ops).ends} ELSE released
    /\ UNCHANGED <<store, present, locked, pc, request, round, start, index, barred,
                   removing, plan, todo, inhand, failed, changes, faults>>

Fault ==
    /\ faults < MaxFaults
    /\ faults' = faults + 1

(* It throws, or is not read back in time: no further pair is re-linked.   *)
ReleaseFails ==
    /\ Fault
    /\ pc = "release"
    /\ ops # <<>>
    /\ link' \in {link, Cleared}
    /\ ops' = <<>>
    /\ barred' = todo \cup {inhand}
    /\ todo' = {}
    /\ failed' = TRUE
    /\ UNCHANGED <<store, present, locked, pc, request, round, start, index, released,
                   removing, plan, inhand, changes>>

(* The budget is read again only if a release was recorded.                *)
ReadAgain ==
    /\ pc = "release"
    /\ ops = <<>>
    /\ todo = {}
    /\ pc' = "link"
    /\ index' = IF released = {} THEN start ELSE link
    /\ todo' = ToLink(start) \ barred
    /\ inhand' = NoRow
    /\ UNCHANGED <<store, budget, request, round, start, released, barred, removing, plan,
                   ops, failed, changes, faults>>

(* linkOne: judged again; only a linkable pair is touched.  One that was   *)
(* released and is not linkable is a failure.                              *)
PassOver(p) ==
    /\ pc = "link"
    /\ p \in todo
    /\ ~Linkable(p, index)
    /\ todo' = todo \ {p}
    /\ failed' = (failed \/ (p \in ToRelink(start) /\ ~Linked(p, index)))
    /\ UNCHANGED <<store, budget, pc, request, round, linking, removing, plan, ops, inhand,
                   changes, faults>>

LinkFirst(p) ==
    /\ pc = "link"
    /\ p \in todo
    /\ Linkable(p, index)
    /\ link' = [link EXCEPT ![p[1]] = p[2]]
    /\ todo' = todo \ {p}
    /\ inhand' = p
    /\ pc' = "second"
    /\ UNCHANGED <<store, present, locked, request, round, linking, removing, plan, ops,
                   failed, changes, faults>>

LinkSecond ==
    /\ pc = "second"
    /\ link' = [link EXCEPT ![inhand[2]] = inhand[1]]
    /\ inhand' = NoRow
    /\ pc' = "link"
    /\ UNCHANGED <<store, present, locked, request, round, linking, removing, plan, todo,
                   ops, failed, changes, faults>>

(* The first or the second update throws: the pair failed, the next is     *)
(* tried all the same.                                                     *)
LinkFails ==
    /\ Fault
    /\ failed' = TRUE
    /\ pc' = "link"
    /\ \/ \E p \in todo :
             /\ pc = "link" /\ Linkable(p, index)
             /\ link' \in {link, [link EXCEPT ![p[1]] = p[2]]}
             /\ todo' = todo \ {p}
             /\ UNCHANGED inhand
       \/ /\ pc = "second"
          /\ link' \in {link, [link EXCEPT ![inhand[2]] = inhand[1]]}
          /\ inhand' = NoRow
          /\ UNCHANGED todo
    /\ UNCHANGED <<store, present, locked, request, round, linking, removing, plan, ops, changes>>

(* The linked pairs read as linked; an align goes on where no pair failed. *)
Verify ==
    /\ pc = "link"
    /\ todo = {}
    /\ pc' = IF request.kind = "align" /\ ~failed /\ round = 1 THEN "prune" ELSE "ended"
    /\ todo' = IF pc' = "prune" THEN Accounts ELSE {}
    /\ UNCHANGED <<store, budget, request, round, linking, removing, plan, ops, inhand,
                   failed, changes, faults>>

-----------------------------------------------------------------------------
(* pruneAccounts                                                           *)

Orphans(account) == ((present \cap Ours) \cap Of(account)) \ request.expected

(* choosePrunable: an unlinked orphan goes; a linked one if its partner    *)
(* can be unlinked first, because deleting a leg deletes its partner.      *)
Movable(orphan) == orphan \notin locked /\ Releasable(orphan, link)
Prunable(account) == {r \in Orphans(account) : link[r] = NoRow \/ Movable(r)}

NothingInHand == plan = {} /\ inhand = NoRow

(* An account nothing is expected in is never pruned blind, and one that   *)
(* holds more than was confirmed is refused.                               *)
PassQuietly(account) ==   \* mutant: a refused account does not stop the align
    /\ pc = "prune" /\ NothingInHand
    /\ account \in todo
    /\ todo' = todo \ {account}
    /\ \/ request.expected \cap Of(account) = {}
       \/ Cardinality(Prunable(account)) > request.shown
    /\ UNCHANGED <<store, budget, pc, request, round, linking, removing, plan, ops,
                   inhand, failed, changes, faults>>
PassAccount(account) ==
    /\ pc = "prune" /\ NothingInHand
    /\ account \in todo
    /\ todo' = todo \ {account}
    /\ \/ request.expected \cap Of(account) = {} /\ UNCHANGED failed
       \/ /\ request.expected \cap Of(account) # {}
          /\ Cardinality(Prunable(account)) > request.shown
          /\ failed' = TRUE
    /\ UNCHANGED <<store, budget, pc, request, round, linking, removing, plan, ops,
                   inhand, changes, faults>>

PlanAccount(account) ==
    /\ pc = "prune" /\ NothingInHand
    /\ account \in todo
    /\ request.expected \cap Of(account) # {}
    /\ Cardinality(Prunable(account)) <= request.shown
    /\ todo' = todo \ {account}
    /\ plan' = {[row |-> r, partner |-> link[r]] : r \in Prunable(account)}
    /\ UNCHANGED <<store, budget, pc, request, round, linking, removing, ops, inhand,
                   failed, changes, faults>>

(* removeOrphan: an orphan that was planned unlinked is deleted unread; of  *)
(* another the two rows are read again: gone, or changed since, it is left; *)
(* unlinked by now, it is deleted; else it is unlinked first.               *)
TakeOrphan(target) ==
    /\ pc = "prune" /\ inhand = NoRow
    /\ target \in plan
    /\ plan' = plan \ {target}
    /\ LET orphan == target.row
           bare == target.partner = NoRow \/ (orphan \in present /\ link[orphan] = NoRow)
           same == orphan \in present /\ link[orphan] = target.partner
       IN  \/ /\ bare
              /\ inhand' = orphan
              /\ UNCHANGED <<ops, unlinked>>
           \/ /\ ~bare /\ same /\ Movable(orphan)
              /\ inhand' = orphan
              /\ ops' = Unlink(orphan, link)
              /\ unlinked' = TRUE
           \/ /\ ~bare /\ ~(same /\ Movable(orphan))
              /\ UNCHANGED <<inhand, ops, unlinked>>
    /\ UNCHANGED <<store, budget, pc, request, round, linking, removed, todo, failed,
                   changes, faults>>

(* deleteTransaction: the engine deletes the row a linked one names, too.  *)
Deletion(orphan) == {orphan} \cup ({link[orphan]} \ {NoRow})
DeleteRows(rows) ==
    /\ present' = present \ rows
    /\ link' = [r \in Rows |-> IF r \in rows THEN NoRow ELSE link[r]]
    /\ removed' = removed \cup (present \cap rows)

DeleteOrphan ==
    /\ pc = "prune" /\ inhand # NoRow
    /\ ops = <<>>
    /\ DeleteRows(Deletion(inhand))
    /\ inhand' = NoRow
    /\ UNCHANGED <<store, locked, pc, request, round, linking, unlinked, todo, plan,
                   ops, failed, changes, faults>>

(* A call throws: the account is stopped.  A delete that no unlink came    *)
(* before ends the whole job.                                              *)
RemovalFails ==
    /\ Fault
    /\ pc = "prune" /\ inhand # NoRow
    /\ \/ /\ ops # <<>>
          /\ link' \in {link, Cleared}
          /\ UNCHANGED <<present, removed, todo>>
       \/ /\ ops = <<>>
          /\ DeleteRows(Deletion(inhand)) \/ UNCHANGED <<present, link, removed>>
          /\ todo' \in {todo, {}}
    /\ plan' = {}
    /\ ops' = <<>>
    /\ inhand' = NoRow
    /\ failed' = TRUE
    /\ UNCHANGED <<store, locked, pc, request, round, linking, unlinked, changes>>

(* An align pushes again if a link was cleared and nothing went wrong.     *)
EndPrune ==
    /\ pc = "prune" /\ NothingInHand
    /\ todo = {}
    /\ IF request.kind = "align" /\ ~failed /\ unlinked
       THEN pc' = "import" /\ todo' = Accounts /\ round' = 2
       ELSE pc' = "ended" /\ UNCHANGED <<todo, round>>
    /\ UNCHANGED <<store, budget, request, linking, removing, plan, ops, inhand, failed,
                   changes, faults>>

-----------------------------------------------------------------------------
Working == pc \in {"import", "release", "link", "second", "prune"}

(* A reading or an import throws, an align's audit among them.             *)
JobRaises ==
    /\ Fault
    /\ pc \in {"import", "release", "link", "prune"} /\ ops = <<>> /\ NothingInHand
    /\ pc' = "ended"
    /\ todo' = {}
    /\ failed' = TRUE
    /\ UNCHANGED <<store, budget, request, round, linking, removing, plan, ops, inhand,
                   changes>>

Fresh ==
    /\ round' = 1
    /\ start' = [r \in Rows |-> NoRow]
    /\ index' = [r \in Rows |-> NoRow]
    /\ todo' = {} /\ plan' = {} /\ ops' = <<>> /\ inhand' = NoRow
    /\ released' = {} /\ barred' = {}
    /\ failed' = FALSE /\ unlinked' = FALSE /\ removed' = {}

(* The container dies and takes the request up again when it is back.      *)
ApplierDies ==
    /\ Fault
    /\ Working
    /\ pc' = "queued"
    /\ Fresh
    /\ UNCHANGED <<store, budget, request, changes>>

Close ==
    /\ pc = "ended"
    /\ pc' = "idle"
    /\ request' = NoRequest
    /\ Fresh
    /\ UNCHANGED <<store, budget, changes, faults>>

JobStep ==
    \/ Begin \/ JudgePairs \/ UnlinkOne \/ ReadAgain \/ LinkSecond \/ Verify
    \/ DeleteOrphan \/ EndPrune \/ Close
    \/ \E a \in Accounts : Import(a) \/ PassAccount(a) \/ PlanAccount(a)
    \/ \E p \in todo : TakeRelease(p) \/ PassOver(p) \/ LinkFirst(p)
    \/ \E target \in plan : TakeOrphan(target)

Next ==
    \/ JobStep
    \/ \E kind \in {"push", "prune", "align"}, shown \in 0..MaxShown : Press(kind, shown)
    \/ Repair \/ \E r \in Rows : Fold(r) \/ PersonReconciles(r)
    \/ \E r, s \in Rows : PersonLinks(r, s)
    \/ ReleaseFails \/ LinkFails \/ RemovalFails \/ JobRaises \/ ApplierDies

Spec == Init /\ [][Next]_vars

(* The applier works its queue off, and a push is pressed now and then.    *)
FairSpec ==
    Spec /\ WF_vars(JobStep) /\ SF_vars(\E shown \in 0..MaxShown : Press("push", shown))

-----------------------------------------------------------------------------
TypeOK ==
    /\ held \subseteq Ours
    /\ pairs \in Pairings(held)
    /\ present \subseteq Rows
    /\ link \in [Rows -> Rows \cup {NoRow}]
    /\ locked \subseteq Rows
    /\ pc \in {"idle", "queued", "import", "release", "link", "second", "prune", "ended"}
    /\ request.pairs \in Pairings(request.expected)
    /\ round \in {1, 2}
    /\ {start, index} \subseteq [Rows -> Rows \cup {NoRow}]
    /\ removed \subseteq Ours
    /\ failed \in BOOLEAN /\ unlinked \in BOOLEAN
    /\ changes \in 0..MaxChanges /\ faults \in 0..MaxFaults

(* "is never touched, not even to unlink it" (judgePair, LEFT_REASONS): a  *)
(* job changes no link that a row of somebody else's or a reconciled row   *)
(* has part in, and deletes no row on either end of one.                   *)
NotOurs(r) == r \notin Ours \/ r \in locked
HandsOff ==
    [][Working => \A r \in present :
          NotOurs(r) \/ (link[r] \in present /\ NotOurs(link[r])) =>
              link'[r] = link[r] /\ (r \in present' \/ link[r] = NoRow)]_vars

(* Whatever is linked to what, a job deletes rows of its own that the      *)
(* request does not expect and nothing else, and in no account more than   *)
(* the person confirmed.                                                   *)
OnlyConfirmedOrphans ==
    /\ removed \cap request.expected = {}
    /\ \A a \in Accounts : Cardinality(removed \cap Of(a)) <= request.shown

(* A pair the request names and that is linked stays linked while the job  *)
(* runs, at every one of its steps, whatever it releases and removes for   *)
(* the others.                                                             *)
KeepsPairs ==
    [][Working => \A p \in request.pairs : Linked(p, link) => Points(p, link')
                                            /\ Legs(p) \subseteq present']_vars

(* "The result therefore cannot depend on the order the pairs arrive in":  *)
(* where nothing failed, the links are a function of those the push began  *)
(* with.                                                                   *)
Freed(l) == UNION {{l[r] : r \in Elsewhere(p, l)} : p \in ToRelink(l)}
Outcome(l) ==
    [r \in Rows |->
        CASE \E p \in ToLink(l) : r \in Legs(p) ->
                 Mate(CHOOSE p \in ToLink(l) : r \in Legs(p), r)
          [] OTHER -> IF r \in Freed(l) THEN NoRow ELSE l[r]]
OrderFree ==
    pc = "link" /\ todo = {} /\ inhand = NoRow /\ ~failed => link = Outcome(start)

(* What "complete" vouches for, and the sync marker after it: everything   *)
(* expected is in, no pair that could have been linked is left, and every  *)
(* orphan still there is one the removal may not touch - or names a row    *)
(* that does not name it back: half a pair left by an earlier failure may  *)
(* come free when another orphan goes, and then waits for the next align.  *)
CompleteMeansAligned ==
    pc = "ended" /\ request.kind = "align" /\ ~failed =>
        /\ request.expected \subseteq present
        /\ \A p \in request.pairs : ~Linkable(p, link)
        /\ \A a \in Accounts : request.expected \cap Of(a) # {} =>
              \A r \in Prunable(a) : link[r] # NoRow /\ link[link[r]] = NoRow

(* Unless a reconciled row or a row of somebody else's stands in its way,  *)
(* every confirmed pair ends up linked, however often the store re-pairs   *)
(* rows and a person links them, and through a death of the applier: as    *)
(* long as no failure leaves a row naming one that does not name it back.  *)
Blocked(r) == link[r] # NoRow /\ NotOurs(link[r])
InTheWay(p) ==
    \E r \in Legs(p) :
        r \in locked \/ Blocked(r) \/ (link[r] # NoRow /\ Blocked(link[r]))
Settled == \A p \in pairs : Points(p, link) \/ InTheWay(p)
HalfDone == pc = "idle" /\ \E r \in present : link[r] # NoRow /\ link[link[r]] # r
PairsSettle == []~HalfDone => <>[]Settled
=============================================================================
