------------------------------- MODULE Matching -------------------------------
(***************************************************************************)
(* How one response about one account becomes rows: matching.py decides   *)
(* which stored row a record is, pipeline.py writes what was decided.      *)
(*                                                                         *)
(* Two sources report the account.  The aggregator names a payment by an   *)
(* id, and may give it another one once it has settled; an export states   *)
(* none.  Left out: the bank's own feed with its links and settlement      *)
(* days, rows a person typed, Spaces, and the review queue.                *)
(*                                                                         *)
(* A record is [id, amt, day, word, src, status, occ].  A row is a record  *)
(* with `born`, what its entity id is derived from, and `ids`, its         *)
(* sightings: id, kind of list and artefact.  A book is what a batch works *)
(* on: `rows` as stored; `order`, the pairs of rows of which the first is  *)
(* asked before the second; `claims`, the id each row has answered to in   *)
(* this batch; `fits`, whether the store still takes the writes; `recurs`, *)
(* whether a record met a row that its own artefact had brought before for *)
(* another one; `tied`, whether the order decided anything.                *)
(***************************************************************************)
EXTENDS Integers, FiniteSets, SequencesExt

CONSTANTS LastDay,     \* days are 1..LastDay
          WindowDays   \* FUZZY_WINDOW_DAYS, on that scale

ASSUME DaysAssumption == LastDay \in Nat \ {0} /\ WindowDays \in Nat

NoId == <<>>
Pending(r) == r.status = "pending"
ContentKey(r) == <<r.amt, r.day, r.word>>
Distance(x, row) == IF x.day < row.day THEN row.day - x.day ELSE x.day - row.day

(* The first of the rows S in an order, or 0.                              *)
FirstOf(order, S) ==
    LET first == {k \in S : \A m \in S \ {k} : <<k, m>> \in order}
    IN IF first = {} THEN 0 ELSE CHOOSE k \in first : TRUE

(* More than one to choose from.                                           *)
Undecided(S) == \E k, m \in S : k # m

(* In date order; those of one date in the order given.                    *)
ByDate(stated, given) ==
    {pair \in (DOMAIN stated) \X (DOMAIN stated) :
        \/ stated[pair[1]].day < stated[pair[2]].day
        \/ stated[pair[1]].day = stated[pair[2]].day /\ pair \in given}
AsListed(stated) == {pair \in (DOMAIN stated) \X (DOMAIN stated) : pair[1] < pair[2]}
InOrder(S, order) == SetToSortSeq(S, LAMBDA k, m : <<k, m>> \in order)

Numbered(batch) ==
    [n \in DOMAIN batch |->
        [batch[n] EXCEPT !.occ = Cardinality({m \in 1..(n - 1) :
                                     ContentKey(batch[m]) = ContentKey(batch[n])})]]

-----------------------------------------------------------------------------
(* Whether a record and a row could be one payment.                        *)

(* "Two durable ids from one source settle it outright"; two records of a  *)
(* source without ids are told apart by content and occurrence.            *)
CouldBeOnePayment(x, row, sameContent) ==
    \/ row.src # x.src
    \/ /\ Pending(x) # Pending(row)
       /\ ~(Pending(x) /\ x.day > row.day)
    \/ /\ row.src = x.src /\ Pending(x) = Pending(row)
       /\ IF x.id # NoId /\ row.id # NoId
            THEN x.id = row.id
            ELSE sameContent /\ x.occ = row.occ

CouldBeReissue(x, row) == Pending(x) /\ ~Pending(row) /\ x.day <= row.day

SightedSettledUnderAnotherId(x, row) ==
    x.id # NoId /\ \E sighting \in row.ids :
                       sighting.id # x.id /\ sighting.list = "booked"

(* Mutant: the claims are not asked.                                       *)
ClaimedByNobody(book, k, x) == FALSE

ClaimedUnderAnotherId(book, k, x) ==
    x.id # NoId /\ book.claims[k] \notin {NoId, x.id}

OnePayment(book, k, x, sameContent) ==
    LET row == book.rows[k] IN
    /\ ~ClaimedUnderAnotherId(book, k, x)
    /\ IF row.src # x.src /\ SightedSettledUnderAnotherId(x, row)
         THEN CouldBeReissue(x, row)
         ELSE CouldBeOnePayment(x, row, sameContent)

-----------------------------------------------------------------------------
(* Which row a record is.                                                  *)

(* by_source_id: the rows that carry the id now, and those that only did.   *)
Carrying(book, x) == {k \in DOMAIN book.rows : book.rows[k].src = x.src /\ book.rows[k].id = x.id}
Sighted(book, x) == {k \in DOMAIN book.rows : \E sighting \in book.rows[k].ids : sighting.id = x.id}

(* The id settles it, where there is one; the content does otherwise.        *)
ExactRows(book, x) ==
    LET Unclaimed(S) == {k \in S : x.id # NoId /\ ~ClaimedUnderAnotherId(book, k, x)}
        carrying == Unclaimed(Carrying(book, x))
        sighted == Unclaimed(Sighted(book, x))
        alike == {k \in DOMAIN book.rows : /\ ContentKey(book.rows[k]) = ContentKey(x)
                                          /\ OnePayment(book, k, x, TRUE)}
    IN CASE carrying # {} -> carrying
         [] carrying = {} /\ sighted # {} -> sighted
         [] OTHER -> alike

Exact(book, x) == FirstOf(book.order, ExactRows(book, x))

Near(book, x) ==
    {k \in DOMAIN book.rows :
        /\ book.rows[k].amt = x.amt
        /\ Distance(x, book.rows[k]) <= WindowDays
        /\ OnePayment(book, k, x, ContentKey(book.rows[k]) = ContentKey(x))}

(* Pairs of one date, in date order, then in the order offered.            *)
SameDatePairs(held, batch, records, rows, allowed) ==
    FoldLeft(LAMBDA paired, n :
                 LET free == SelectSeq(rows, LAMBDA k :
                                 /\ k \in allowed[n] \ {p[2] : p \in paired}
                                 /\ held[k].day = batch[n].day)
                 IN IF free = <<>> THEN paired ELSE paired \cup {<<n, Head(free)>>},
             {}, records)

(* The rest: as few left over as can be, then the least total distance,    *)
(* then the first record left over, or given the earliest row, that allows *)
(* it.                                                                     *)
LeastDistance(held, batch, records, rows, allowed) ==
    LET choices == {f \in [ToSet(records) -> 0..Len(rows)] :
                       /\ \A n \in DOMAIN f : f[n] # 0 => rows[f[n]] \in allowed[n]
                       /\ \A m, n \in DOMAIN f : m # n /\ f[m] # 0 => f[m] # f[n]}
        Far == LastDay * (Len(records) + 1)
        Rank(f) ==
            FoldLeft(LAMBDA sum, n :
                         sum + (IF f[n] = 0 THEN Far
                                ELSE Distance(batch[n], held[rows[f[n]]])),
                     0, records)
        Tie(f) == FoldLeft(LAMBDA sum, n : sum * (Len(rows) + 1) + f[n], 0, records)
        best == CHOOSE f \in choices : \A g \in choices :
                    Rank(f) < Rank(g) \/ (Rank(f) = Rank(g) /\ Tie(f) <= Tie(g))
    IN {<<n, rows[best[n]]>> : n \in {m \in DOMAIN best : best[m] # 0}}

AssignAsASet(held, batch, records, rows, allowed) ==
    LET dated == SameDatePairs(held, batch, records, rows, allowed)
    IN dated \cup LeastDistance(held, batch,
                     SelectSeq(records, LAMBDA n : n \notin {p[1] : p \in dated}),
                     SelectSeq(rows, LAMBDA k : k \notin {p[2] : p \in dated}),
                     allowed)

(* The near rows a record without an exact match may be planned for: those *)
(* no record matches exactly.                                              *)
Options(book, batch) ==
    LET exact == [n \in DOMAIN batch |-> Exact(book, batch[n])]
    IN [n \in DOMAIN batch |->
           IF exact[n] # 0 THEN {}
           ELSE Near(book, batch[n]) \ {exact[m] : m \in DOMAIN batch}]

Sharing(allowed) ==
    {n \in DOMAIN allowed : \E m \in DOMAIN allowed \ {n} : allowed[m] \cap allowed[n] # {}}

(* Rows are offered by the records in turn, by each in the order asked.    *)
AsOffered(order, allowed) ==
    LET offered == UNION {allowed[n] : n \in Sharing(allowed)}
        by == [k \in offered |-> Min({n \in Sharing(allowed) : k \in allowed[n]})]
    IN {pair \in offered \X offered :
           \/ by[pair[1]] < by[pair[2]]
           \/ by[pair[1]] = by[pair[2]] /\ pair[1] # pair[2] /\ pair \in order}

(* plan_partners: the records that share a near row with another are given *)
(* their rows together.  Far fewer than ASSIGNMENT_SET_LIMIT.              *)
PlanPartners(book, batch) ==
    LET allowed == Options(book, batch)
        sharing == Sharing(allowed)
        given == AsOffered(book.order, allowed)
    IN AssignAsASet(book.rows, batch,
                    InOrder(sharing, ByDate(batch, AsListed(batch))),
                    InOrder(UNION {allowed[n] : n \in sharing}, ByDate(book.rows, given)),
                    allowed)

(* The order asked decides something of the plan: which of two rows a      *)
(* record matches exactly, or which of two of one date comes first.        *)
PlanTied(book, batch) ==
    LET allowed == Options(book, batch) IN
    \/ \E n \in DOMAIN batch : Undecided(ExactRows(book, batch[n]))
    \/ \E n \in Sharing(allowed) : \E k, m \in allowed[n] :
           k # m /\ book.rows[k].day = book.rows[m].day

(* resolve: the exact row, the planned one, the nearest one, or none.      *)
Candidates(book, x, n, plan) ==
    LET exact == ExactRows(book, x)
        near == {k \in Near(book, x) : <<n, k>> \in plan \/ k \notin {p[2] : p \in plan}}
        planned == {k \in near : <<n, k>> \in plan}
        nearest == {k \in near : \A m \in near :
                       Distance(x, book.rows[k]) <= Distance(x, book.rows[m])}
    IN CASE exact # {} -> exact
         [] exact = {} /\ planned # {} -> planned
         [] OTHER -> nearest

Resolve(book, x, n, plan) == FirstOf(book.order, Candidates(book, x, n, plan))

-----------------------------------------------------------------------------
(* What is written.                                                        *)

(* Mutant: a batch's own numbering is taken as it comes.                   *)
WantedOccurrence(book, content, wanted, excluding) == wanted

FreeOccurrence(book, content, wanted, excluding) ==
    LET taken == {book.rows[k].occ : k \in {m \in DOMAIN book.rows :
                      m # excluding /\ ContentKey(book.rows[m]) = content}}
    IN IF wanted \notin taken THEN wanted
       ELSE CHOOSE free \in 0..Len(book.rows) :
                free \notin taken /\ \A less \in 0..(free - 1) : less \in taken

(* transaction_sources holds one sighting of a row in an artefact.          *)
Sighting(row, x, list, artefact) ==
    IF x.id = NoId \/ \E sighting \in row.ids : sighting.artefact = artefact THEN {}
    ELSE {[id |-> x.id, list |-> list, artefact |-> artefact]}

(* A row with the facts of a record.                                       *)
Stating(x, occ, born, ids) ==
    [id |-> x.id, amt |-> x.amt, day |-> x.day, word |-> x.word, src |-> x.src,
     status |-> x.status, occ |-> occ, born |-> born, ids |-> ids]

(* Mutants: a sighting is not recorded; any record supersedes; a row keeps  *)
(* the id its source founded it under, and no memory of another.           *)
MergedUnsighted(book, k, x, list, artefact) ==
    Stating(x, FreeOccurrence(book, ContentKey(x), x.occ, k), book.rows[k].born, book.rows[k].ids)

(* upsert_transaction on a row that is there: the record's facts, the       *)
(* number it had while its content is unchanged.                           *)
Merged(book, k, x, list, artefact) ==
    LET row == book.rows[k]
        occ == IF ContentKey(x) = ContentKey(row) THEN row.occ
               ELSE FreeOccurrence(book, ContentKey(x), x.occ, k)
    IN Stating(x, occ, row.born, row.ids \cup Sighting(row, x, list, artefact))

SupersededKeepsId(book, k, x, list, artefact) ==
    LET row == book.rows[k] IN
    IF Pending(x) /\ row.status = "booked" THEN row
    ELSE IF x.src = row.src
      THEN [MergedUnsighted(book, k, x, list, artefact) EXCEPT !.id = row.id]
      ELSE Merged(book, k, x, list, artefact)

(* "Settlement runs one way": a pending record of a settled row only adds  *)
(* a sighting; any other record of a row it is supersedes its facts.       *)
Superseded(book, k, x, list, artefact) ==
    LET row == book.rows[k] IN
    IF Pending(x) /\ row.status = "booked"
      THEN [row EXCEPT !.ids = @ \cup Sighting(row, x, list, artefact)]
      ELSE Merged(book, k, x, list, artefact)

(* entity_id_for: "a pure function of its first sighting".                  *)
Entity(x, occ, artefact) == <<artefact, IF x.id = NoId THEN <<ContentKey(x), occ>> ELSE x.id>>

Founded(book, x, list, artefact) ==
    LET occ == FreeOccurrence(book, ContentKey(x), x.occ, 0)
    IN Stating(x, occ, Entity(x, occ, artefact), Sighting([ids |-> {}], x, list, artefact))

(* ux_txn_source_id: no two rows of a source carry one id.                 *)
Distinct(rows) ==
    \A k, m \in DOMAIN rows : k # m /\ rows[k].id # NoId => rows[k].id # rows[m].id

(* claim: the first id a row answers to in a batch.                        *)
Claim(book, k, x) == [book.claims EXCEPT ![k] = IF @ = NoId THEN x.id ELSE @]

(* This artefact, reconciled before, named the row by another id.           *)
NamedBefore(book, k, x, artefact) ==
    /\ x.id # NoId /\ book.claims[k] = NoId
    /\ \E sighting \in book.rows[k].ids :
           sighting.artefact = artefact /\ sighting.id # x.id

(* The book once `rows` are in the store, unless it refuses them.           *)
Written(book, rows, order, claims, recurs) ==
    [rows |-> rows, order |-> order, claims |-> claims,
     fits |-> book.fits /\ Distinct(rows), recurs |-> book.recurs \/ recurs,
     tied |-> book.tied]

Join(book, k, x, list, artefact) ==
    Written(book, [book.rows EXCEPT ![k] = Superseded(book, k, x, list, artefact)],
            book.order, Claim(book, k, x), NamedBefore(book, k, x, artefact))

(* The order with row k asked after all the others of `known`.             *)
LastAsked(order, known, k) ==
    {pair \in order : k \notin {pair[1], pair[2]}} \cup ((known \ {k}) \X {k})

Add(book, x, row) ==
    Written(book, Append(book.rows, row), LastAsked(book.order, DOMAIN book.rows, Len(book.rows) + 1),
            Append(book.claims, x.id), FALSE)

(* A new row whose entity id the store has: ON CONFLICT(entity_id) DO UPDATE. *)
Overwrite(book, k, x, list, artefact) ==
    Written(book, [book.rows EXCEPT ![k] = Merged(book, k, x, list, artefact)],
            LastAsked(book.order, DOMAIN book.rows, k), Claim(book, k, x), TRUE)

(* One record written: on the row it was found to be, or on one of its own. *)
Place(book, found, x, fresh, list, artefact) ==
    LET same == {k \in DOMAIN book.rows : book.rows[k].born = fresh.born}
    IN IF found # 0 THEN Join(book, found, x, list, artefact)
       ELSE IF same = {} THEN Add(book, x, fresh)
       ELSE Overwrite(book, Min(same), x, list, artefact)

Reconcile(book, x, n, plan, list, artefact) ==
    [Place(book, Resolve(book, x, n, plan), x, Founded(book, x, list, artefact), list, artefact)
        EXCEPT !.tied = @ \/ Undecided(Candidates(book, x, n, plan))]

(* _reconcile_all: the book after each record of a batch.                  *)
Course(start, batch, list, artefact) ==
    LET plan == PlanPartners(start, batch)
        book[n \in 0..Len(batch)] ==
            IF n = 0 THEN start
            ELSE Reconcile(book[n - 1], batch[n], n, plan, list, artefact)
    IN book

(* reconcile_batch: one response, written in one transaction.              *)
ReconcileBatch(rows, order, records, list, artefact) ==
    LET batch == Numbered(records)
        loaded == [rows |-> rows, order |-> order, claims |-> [k \in DOMAIN rows |-> NoId],
                   fits |-> TRUE, recurs |-> FALSE, tied |-> FALSE]
    IN Course([loaded EXCEPT !.tied = PlanTied(loaded, batch)], batch, list, artefact)[Len(records)]

(* transactions_for_account reads through the index on (account, date).    *)
LoadOrder(rows) == ByDate(rows, AsListed(rows))

(* resolve_vanished_pending: what the complete pending list no longer      *)
(* names is void.                                                          *)
ResolveVanished(rows, present) ==
    [k \in DOMAIN rows |->
        IF Pending(rows[k]) /\ rows[k].id \notin present
          THEN [rows[k] EXCEPT !.status = "void"] ELSE rows[k]]
=============================================================================
