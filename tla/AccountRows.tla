------------------------------ MODULE AccountRows ------------------------------
(***************************************************************************)
(* One account's rows while its bank moves on.  A pull asks the            *)
(* aggregator for the booked list and then for the pending one; a person   *)
(* imports exports.  Each answer is landed as an artefact, in a commit of  *)
(* its own, then reconciled, and a pending list is then asked which        *)
(* pending rows have vanished from it.  A rebuild forgets the rows and     *)
(* replays the artefacts.                                                  *)
(*                                                                         *)
(* All payments are of one size, and of one wording where `facts.alike`:   *)
(* what is hard to tell apart.  Every date lies in the matcher's window    *)
(* unless WindowDays is smaller than LastDay - 1.  The passes that end a    *)
(* pull, an import and a rebuild (declined items, Space copies, same money) *)
(* need the bank's own feed, Spaces or a statement to act on, and have      *)
(* none here.                                                              *)
(***************************************************************************)
EXTENDS Matching

CONSTANTS Payments,
          Keeps,         \* whether payments keep their ids when they settle: a set of BOOLEAN
          Alikes,        \* whether all sources word a payment alike: a set of BOOLEAN
          MaxAmended,    \* how many payments settle at another amount than was held
          MaxEvents      \* pulls, exports, rebuilds and pulls cut short: the bound of the model

ASSUME RowsAssumption ==
    /\ IsFiniteSet(Payments) /\ Keeps \subseteq BOOLEAN /\ Alikes \subseteq BOOLEAN
    /\ MaxAmended \in Nat /\ MaxEvents \in Nat

VARIABLES facts,     \* what the bank says of each payment, once and for all
          bank,      \* where each payment stands
          landed,    \* raw_artefacts: Seq of [list, items], in arrival order
          rows,      \* transactions and transaction_sources, in insertion order
          pc,        \* where the pull stands
          reply,     \* the items of the answer in hand
          left,      \* what the bounds still allow
          odd        \* what was not plain about the answers so far

vars == <<facts, bank, landed, rows, pc, reply, left, odd>>

Source(list) == IF list = "export" THEN "export" ELSE "aggregator"

(* An item as list `list` states payment p.                                *)
Item(p, list) ==
    [id |-> IF list = "export" THEN NoId ELSE <<p, IF facts.keeps THEN "kept" ELSE list>>,
     amt |-> IF p \in facts.amended /\ list # "pending" THEN "amended" ELSE "held",
     day |-> facts.days[p][list],
     word |-> IF facts.alike THEN "same" ELSE Source(list)]

(* to_transaction and the export's parser.                                 *)
Records(list, items) ==
    [n \in DOMAIN items |->
        [id |-> items[n].id, amt |-> items[n].amt, day |-> items[n].day,
         word |-> items[n].word, src |-> Source(list),
         status |-> IF list = "pending" THEN "pending" ELSE "booked",
         occ |-> 0]]

Settled == {p \in Payments : bank[p] = "settled"}
Held == {p \in Payments : bank[p] = "held"}

(* A list names its payments in any order.                                 *)
Listings(S, list) ==
    {[n \in DOMAIN s |-> Item(s[n], list)] : s \in SetToSeqs(S)}

(* Where an artefact stands among those landed, or 0; where it will.       *)
Position(artefact) ==
    LET at == {n \in DOMAIN landed : landed[n] = artefact}
    IN IF at = {} THEN 0 ELSE Min(at)

Arrival(artefact) ==
    IF Position(artefact) = 0 THEN Len(landed) + 1 ELSE Position(artefact)

-----------------------------------------------------------------------------
(* Mutant: a rebuild does not ask what has vanished.                       *)
KeptNeverVoids(store, a, result) ==
    [rows |-> result.rows, order |-> result.order, fits |-> result.fits]

(* One artefact replayed.  Candidates stay in memory from batch to batch,   *)
(* and are read again after each pending list, empty ones included.         *)
Kept(store, a, result) ==
    LET resolved == ResolveVanished(result.rows, {item.id : item \in ToSet(a.items)})
    IN IF ~store.fits \/ ~result.fits
         THEN [rows |-> store.rows, order |-> store.order, fits |-> FALSE]
       ELSE IF a.list = "pending"
         THEN [rows |-> resolved, order |-> LoadOrder(resolved), fits |-> TRUE]
         ELSE [rows |-> result.rows, order |-> result.order, fits |-> TRUE]

Replayed(store, a, n) ==
    Kept(store, a, ReconcileBatch(store.rows, store.order, Records(a.list, a.items), a.list, n))

(* _rebuild_from_raw: the store after each artefact.                       *)
Replay(artefacts) ==
    LET store[n \in 0..Len(artefacts)] ==
            IF n = 0 THEN [rows |-> <<>>, order |-> {}, fits |-> TRUE]
            ELSE Replayed(store[n - 1], artefacts[n], n)
    IN store[Len(artefacts)]

-----------------------------------------------------------------------------
(* The day a payment has in each list.                                     *)
Dated == {d \in [{"pending", "booked", "export"} -> 1..LastDay] :
              d["pending"] <= d["booked"] /\ d["pending"] <= d["export"]}

Init ==
    /\ facts \in [days : [Payments -> Dated],
                  amended : {S \in SUBSET Payments : Cardinality(S) <= MaxAmended},
                  keeps : Keeps, alike : Alikes]
    /\ bank = [p \in Payments |-> "unheard"]
    /\ landed = <<>> /\ rows = <<>>
    /\ pc = "idle" /\ reply = <<>>
    /\ left = MaxEvents
    /\ odd = {}

(* The bank: a payment is held, then settles or is released, or settles    *)
(* outright.                                                               *)
BankMoves(p) ==
    /\ pc \in {"idle", "booked done"}
    /\ \E to \in {"held", "settled", "released"} :
           /\ \/ bank[p] = "unheard" /\ to # "released"
              \/ bank[p] = "held" /\ to # "held"
           /\ bank' = [bank EXCEPT ![p] = to]
    /\ UNCHANGED <<facts, landed, rows, pc, reply, left, odd>>

(* land_artefact: INSERT OR IGNORE on the bytes.                           *)
Landed(list, items) ==
    LET artefact == [list |-> list, items |-> items] IN
    IF Position(artefact) = 0 THEN Append(landed, artefact) ELSE landed

(* The answer just landed had been heard before.                           *)
Repeated == IF landed' = landed THEN {"repeat"} ELSE {}

(* fetch_transactions, and the answer landed.                              *)
AskBooked ==
    /\ pc = "idle" /\ left > 0
    /\ \E items \in Listings(Settled, "booked") :
           /\ landed' = Landed("booked", items)
           /\ odd' = odd \cup Repeated
           /\ reply' = items
    /\ pc' = IF reply' = <<>> THEN "booked done" ELSE "booked landed"
    /\ left' = left - 1
    /\ UNCHANGED <<facts, bank, rows>>

(* The list may still name payments that have settled.  `if not records:   *)
(* continue` leaves an empty one at that.                                  *)
AskPending ==
    /\ pc = "booked done"
    /\ \E stale \in SUBSET Settled : \E items \in Listings(Held \cup stale, "pending") :
           /\ landed' = Landed("pending", items)
           /\ odd' = odd \cup Repeated \cup (IF items = <<>> THEN {"empty"} ELSE {})
                          \cup {"stale" : p \in stale}
           /\ reply' = items
    /\ pc' = IF reply' = <<>> THEN "idle" ELSE "pending landed"
    /\ UNCHANGED <<facts, bank, rows, left>>

(* What reconcile_batch makes of a list, live.                             *)
Outcome(list, items) ==
    ReconcileBatch(rows, LoadOrder(rows), Records(list, items), list,
                   Position([list |-> list, items |-> items]))

(* An answer met rows it had brought before for other records of its own.  *)
Recurring(result) == IF result.recurs THEN {"recurs"} ELSE {}

(* Something was decided by the order the rows were asked in, and a replay  *)
(* will ask them in another when it comes to this artefact.                *)
Reordered(result, artefact) ==
    IF result.tied /\ LoadOrder(rows) # Replay(SubSeq(landed, 1, artefact - 1)).order
      THEN {"reordered"} ELSE {}

(* A write the store refuses raises, and the pull goes no further.         *)
ReconcileReply(list, next) ==
    \E result \in {Outcome(list, reply)} :
        \/ /\ result.fits
           /\ rows' = result.rows
           /\ odd' = odd \cup Recurring(result)
                         \cup Reordered(result, Position([list |-> list, items |-> reply]))
           /\ pc' = next /\ UNCHANGED reply
        \/ /\ ~result.fits
           /\ pc' = "idle" /\ reply' = <<>> /\ odd' = odd \cup {"cut short"}
           /\ UNCHANGED rows

ReconcileBooked ==
    /\ pc = "booked landed"
    /\ ReconcileReply("booked", "booked done")
    /\ UNCHANGED <<facts, bank, landed, left>>

ReconcilePending ==
    /\ pc = "pending landed"
    /\ ReconcileReply("pending", "pending placed")
    /\ UNCHANGED <<facts, bank, landed, left>>

Vanish ==
    /\ pc = "pending placed"
    /\ rows' = ResolveVanished(rows, {item.id : item \in ToSet(reply)})
    /\ pc' = "idle" /\ reply' = <<>>
    /\ UNCHANGED <<facts, bank, landed, left, odd>>

(* The process dies, or the provider refuses the next question.            *)
PullStops ==
    /\ pc # "idle" /\ left > 0
    /\ pc' = "idle" /\ reply' = <<>>
    /\ left' = left - 1
    /\ odd' = odd \cup {"cut short"}
    /\ UNCHANGED <<facts, bank, landed, rows>>

(* import_file: an export of the days lo..hi, whenever the person likes.   *)
Import ==
    /\ left > 0 /\ pc # "pending placed"
    /\ \E lo, hi \in 1..LastDay :
       \E items \in Listings({p \in Settled : facts.days[p]["export"] \in lo..hi}, "export") :
       \E artefact \in {Arrival([list |-> "export", items |-> items])} :
       \E result \in {ReconcileBatch(rows, LoadOrder(rows), Records("export", items), "export",
                                     artefact)} :
           /\ items # <<>>
           /\ landed' = Landed("export", items)
           /\ odd' = odd \cup Repeated \cup (IF pc = "idle" THEN {} ELSE {"amid a pull"})
                          \cup (IF result.fits
                                   THEN Recurring(result) \cup Reordered(result, artefact)
                                   ELSE {"cut short"})
           /\ rows' = IF result.fits THEN result.rows ELSE rows
    /\ left' = left - 1
    /\ UNCHANGED <<facts, bank, pc, reply>>

(* A rebuild that raises leaves what it had rebuilt.                       *)
Rebuild ==
    /\ pc = "idle" /\ left > 0
    /\ rows' = Replay(landed).rows
    /\ left' = left - 1
    /\ UNCHANGED <<facts, bank, landed, pc, reply, odd>>

Next ==
    \/ \E p \in Payments : BankMoves(p)
    \/ AskBooked \/ ReconcileBooked
    \/ AskPending \/ ReconcilePending \/ Vanish
    \/ PullStops \/ Import \/ Rebuild

Spec == Init /\ [][Next]_vars

-----------------------------------------------------------------------------
Booked == {k \in DOMAIN rows : rows[k].status = "booked"}
Exported == \E artefact \in ToSet(landed) : artefact.list = "export"

(* No answer has met a row that it had itself brought before for another    *)
(* of its records: "the tuple cannot legally recur" (entity_id_for).        *)
NeverRecurred == "recurs" \notin odd

(* A row carries an id exactly when the aggregator's facts stand in it, and *)
(* was sighted under it: what transactions and transaction_sources state of *)
(* one row agrees, whatever superseded what.                                *)
TypeOK ==
    /\ bank \in [Payments -> {"unheard", "held", "settled", "released"}]
    /\ pc \in {"idle", "booked landed", "booked done", "pending landed", "pending placed"}
    /\ left \in 0..MaxEvents
    /\ \A k \in DOMAIN rows :
           /\ rows[k].status \in {"pending", "booked", "void"}
           /\ rows[k].src = "export" <=> rows[k].id = NoId
           /\ NeverRecurred /\ rows[k].id # NoId =>
                  \E sighting \in rows[k].ids : sighting.id = rows[k].id

(* Never more booked rows than settled payments.                           *)
NoneTwice == Cardinality(Booked) <= Cardinality(Settled)

(* No payment is counted twice while only the aggregator reports the         *)
(* account, through held, settled and stale listings, ids kept or changed,   *)
(* pulls cut short and rebuilds: what resolve and claim are for.             *)
NoneTwiceOneSource == ~Exported => NoneTwice

(* A void row, "Kept in the store as history, excluded from spending and     *)
(* replay", is not brought back as spending beside the rows the settled      *)
(* payments already have.  Not so: an export that lists such a payment does. *)
VoidIsHistory ==
    [][\A k \in DOMAIN rows :
          ~Rebuild /\ rows[k].status = "void" /\ rows'[k].status = "booked" => NoneTwice']_vars

(* No payment is lost in another: once an answer is reconciled, each of its  *)
(* records has a row of its own that has been sighted under its id, booked   *)
(* if the answer was the booked list.  Two payments of one size a day apart  *)
(* must not share a row (claim, plan_partners, free_occurrence).             *)
OwnRow ==
    NeverRecurred /\ pc \in {"booked done", "pending placed"} =>
        \E row \in [DOMAIN reply -> DOMAIN rows] :
            /\ \A m, n \in DOMAIN reply : m # n => row[m] # row[n]
            /\ \A n \in DOMAIN reply :
                   /\ \E sighting \in rows[row[n]].ids : sighting.id = reply[n].id
                   /\ rows[row[n]].status # "void"
                   /\ pc = "booked done" => rows[row[n]].status = "booked"

(* Rows stay apart in what the rest of the system tells them by.  No two     *)
(* have one content key and occurrence, from which the id pushed to Actual   *)
(* is derived; and unless an answer repeats an earlier one byte for byte, no *)
(* row is founded under an entity id that is taken, and overwritten by it.   *)
OneIdentity ==
    /\ \A k, m \in DOMAIN rows : k # m =>
           <<ContentKey(rows[k]), rows[k].occ>> # <<ContentKey(rows[m]), rows[m].occ>>
    /\ "repeat" \notin odd => NeverRecurred

(* "Settlement runs one way": no pull, stale list or export turns a booked   *)
(* row back into a pending or a void one, as long as none is overwritten.    *)
SettlementStands ==
    [][\A k \in DOMAIN rows : ~Rebuild /\ NeverRecurred' /\ rows[k].status = "booked"
          => rows'[k].status = "booked"]_vars

(* "replaying in arrival order ... reproduces the history the store actually *)
(* lived through": between pulls, the rows a replay gives are the rows there *)
(* are, for an account whose every answer was news: no repeat, no empty      *)
(* pending list, no settled payment still listed as pending, nothing cut     *)
(* short, no export in the middle of a pull, and nothing decided by an order *)
(* of the rows that the replay does not have.                                *)
Reproduced == pc = "idle" => Replay(landed).rows = rows
ReplayReproducesPlainly == odd = {} => Reproduced

(* The same where, besides, a pending list may be empty: "absence ... is      *)
(* meaningful", live as in a replay.  Not so: a pull passes an empty list by. *)
ReplayReproducesAbsence == odd \subseteq {"empty"} => Reproduced
=============================================================================
