------------------------- MODULE AccountRowsProofs -------------------------
(***************************************************************************)
(* Proved of AccountRows, for any payments, days, window and bounds: that   *)
(* rows keep their types and their identities apart, that each record of a  *)
(* reconciled answer has a row of its own, that no payment counts twice     *)
(* while one source reports, that what is booked stays booked, and that a   *)
(* history without surprises replays to the rows it has.                    *)
(*                                                                         *)
(* The argument goes up the code: what one record does to the book of its   *)
(* batch (Joins, Adds or Overwrites), what a batch does to the rows         *)
(* (CourseRight, BatchRight), what a replay makes of artefacts              *)
(* (ReplayRight), and the actions.  Which row resolve picks matters little: *)
(* what protects the rows is what is asked of any row picked, and how it is *)
(* written.                                                                *)
(*                                                                         *)
(* The replay is argued apart, at the end: one more artefact is one more   *)
(* step of it (ReplayAppend), and that step does to the rows what the live *)
(* batch did (OrderDecidesOnlyTies), so the rows follow the replay of what *)
(* has landed from step to step of a pull (ReplayInv).                     *)
(***************************************************************************)
EXTENDS AccountRows, FiniteSetTheorems, SequenceTheorems, WellFoundedInduction, TLAPS

\* Every set of naturals has a least one: {1..n : n \in T} has a least set.
LEMMA LeastNat ==
  ASSUME NEW T \in SUBSET Nat, T # {}
  PROVE  \E n \in T : \A m \in T : n <= m
  <1> DEFINE W == {1..n : n \in T}
  <1>1. W \subseteq FiniteSubsetsOf(Nat) /\ W # {}
    <2>1. \A n \in T : IsFiniteSet(1..n) /\ 1..n \subseteq Nat
      BY FS_Interval
    <2>2. ASSUME NEW w \in W PROVE w \in FiniteSubsetsOf(Nat)
      BY <2>1 DEF FiniteSubsetsOf
    <2> QED BY <2>2
  <1>2. IsWellFoundedOn(StrictSubsetOrdering(Nat), FiniteSubsetsOf(Nat))
    BY FS_StrictSubsetOrderingWellFounded
  <1>3. PICK w \in W : \A v \in W : ~(<<v, w>> \in StrictSubsetOrdering(Nat))
    <2> HIDE DEF W
    <2> QED BY <1>1, <1>2, WFMin
  <1>4. PICK n \in T : w = 1..n
    BY <1>3
  <1>5. ASSUME NEW m \in T, m < n PROVE FALSE
    <2>1. 1..m \in W /\ 1..m \subseteq 1..n /\ n \in 1..n /\ n \notin 1..m
      BY <1>5
    <2>2. 1..m \in SUBSET Nat /\ 1..n \in SUBSET Nat /\ 1..m # 1..n
      BY <2>1
    <2>3. <<1..m, 1..n>> \in StrictSubsetOrdering(Nat)
      BY <2>1, <2>2 DEF StrictSubsetOrdering
    <2> QED BY <1>3, <1>4, <2>1, <2>3
  <1>6. \A m \in T : n <= m
    BY <1>5
  <1> QED BY <1>6

(* Min of a set of naturals is in it, and no more than any of it.          *)
LEMMA MinIn ==
  ASSUME NEW S \in SUBSET Nat, S # {}
  PROVE  Min(S) \in S /\ \A n \in S : Min(S) <= n
  BY LeastNat DEF Min

(* Induction up to N, for a set: what the library states with an operator. *)
LEMMA StepByStep ==
  ASSUME NEW N \in Nat, NEW S, 0 \in S, \A n \in 1..N : n - 1 \in S => n \in S
  PROVE  0..N \subseteq S
  <1> DEFINE T == (0..N) \ S
  <1>1. ASSUME T # {} PROVE FALSE
    <2>1. PICK n \in T : \A m \in T : n <= m
      <3>1. T \in SUBSET Nat OBVIOUS
      <3> HIDE DEF T
      <3> QED BY <1>1, <3>1, LeastNat
    <2>2. n \in 1..N OBVIOUS
    <2>3. n - 1 \in 0..N /\ n - 1 \notin T BY <2>1, <2>2
    <2> QED BY <2>2, <2>3
  <1> QED BY <1>1

(* The first row in the order asked is one of those asked for.             *)
LEMMA FirstIn ==
  ASSUME NEW order, NEW S, FirstOf(order, S) # 0
  PROVE  FirstOf(order, S) \in S
  BY DEF FirstOf
-----------------------------------------------------------------------------
(* What kinds of list, amounts, wordings, sources, ids and contents there  *)
(* are.                                                                    *)
Lists == {"pending", "booked", "export"}
Amounts == {"held", "amended"}
Words == {"same", "aggregator", "export"}
Sources == {"aggregator", "export"}
Ids == {NoId} \cup (Payments \X {"kept", "pending", "booked"})
Contents == Amounts \X Int \X Words

(* A record of a batch, a sighting of a row, and a row.                    *)
Record == [id : Ids, amt : Amounts, day : Int, word : Words, src : Sources,
           status : {"pending", "booked"}, occ : Nat]

Sightings == [id : Ids, list : Lists, artefact : Nat]

Row == [id : Ids, amt : Amounts, day : Int, word : Words, src : Sources,
        status : {"pending", "booked", "void"}, occ : Nat,
        born : Nat \X (Ids \cup (Contents \X Nat)), ids : SUBSET Sightings]

(* Exports carry no id and are booked; a booked id is one under which a    *)
(* settled payment is listed. True of records and of rows.                 *)
Lawful(r, settled) ==
    /\ r.src = "export" <=> r.id = NoId
    /\ r.src = "export" => r.status = "booked"
    /\ r.status = "booked" /\ r.id # NoId => r.id \in settled

(* Rows of their type, each of them lawful.                                *)
Ledger(rowsOf, settled) == rowsOf \in Seq(Row) /\ \A k \in DOMAIN rowsOf : Lawful(rowsOf[k], settled)

(* What the id pushed to Actual is derived from.                           *)
Key(r) == <<ContentKey(r), r.occ>>

KeysApart(rowsOf) == \A k, m \in DOMAIN rowsOf : k # m => Key(rowsOf[k]) # Key(rowsOf[m])

(* free_occurrence finds one: of the numbers 0..N for N rows, one is not   *)
(* taken.                                                                  *)
LEMMA FreeIs ==
  ASSUME NEW book, book.rows \in Seq(Row), NEW content, NEW wanted \in Nat, NEW excluding
  PROVE  /\ FreeOccurrence(book, content, wanted, excluding) \in Nat
         /\ \A k \in DOMAIN book.rows : k # excluding /\ ContentKey(book.rows[k]) = content
              => book.rows[k].occ # FreeOccurrence(book, content, wanted, excluding)
  <1> DEFINE M == {m \in DOMAIN book.rows : m # excluding /\ ContentKey(book.rows[m]) = content}
             taken == {book.rows[k].occ : k \in M}
             N == Len(book.rows)
             free == {n \in 0..N : n \notin taken}
  <1>1. DOMAIN book.rows = 1..N /\ N \in Nat /\ M \subseteq 1..N
    OBVIOUS
  <1>2. IsFiniteSet(M) /\ Cardinality(M) <= N /\ Cardinality(M) \in Nat
    <2> HIDE DEF M, N
    <2>1. IsFiniteSet(1..N) /\ Cardinality(1..N) = N
      BY <1>1, FS_Interval
    <2> QED BY <1>1, <2>1, FS_Subset, FS_CardinalityType
  <1>3. free # {}
    <2> SUFFICES ASSUME 0..N \subseteq taken PROVE FALSE
      OBVIOUS
    <2> DEFINE at == [n \in 0..N |-> CHOOSE k \in M : book.rows[k].occ = n]
    <2>1. \A n \in 0..N : at[n] \in M /\ book.rows[at[n]].occ = n
      <3>1. \A n \in 0..N : \E k \in M : book.rows[k].occ = n
        OBVIOUS
      <3> HIDE DEF M
      <3> QED BY <3>1
    <2>2. at \in Injection(0..N, M)
      <3>1. at \in [0..N -> M] BY <2>1
      <3>2. \A m, n \in 0..N : at[m] = at[n] => m = n BY <2>1
      <3> HIDE DEF at, M
      <3> QED BY <3>1, <3>2 DEF Injection, IsInjective
    <2>3. Cardinality(0..N) = N + 1
      <3> HIDE DEF N
      <3> QED BY <1>1, FS_Interval
    <2>4. Cardinality(0..N) <= Cardinality(M)
      <3> HIDE DEF at, M, N
      <3> QED BY <1>2, <2>2, FS_Injection
    <2> HIDE DEF M, N
    <2> QED BY <1>1, <1>2, <2>3, <2>4
  <1>4. PICK f \in free : \A n \in free : f <= n
    <2>1. free \in SUBSET Nat OBVIOUS
    <2> HIDE DEF free
    <2> QED BY <1>3, <2>1, LeastNat
  <1>5. f \in 0..N /\ f \notin taken /\ \A less \in 0..(f - 1) : less \in taken
    <2>1. f \in Nat /\ f <= N OBVIOUS
    <2>2. \A less \in 0..(f - 1) : less \in 0..N /\ less < f BY <2>1
    <2> QED BY <1>4, <2>2
  <1>6. /\ FreeOccurrence(book, content, wanted, excluding) \in Nat
        /\ FreeOccurrence(book, content, wanted, excluding) \notin taken
    <2>1. FreeOccurrence(book, content, wanted, excluding) =
             IF wanted \notin taken THEN wanted
             ELSE CHOOSE n \in 0..N : n \notin taken /\ \A less \in 0..(n - 1) : less \in taken
      BY DEF FreeOccurrence
    <2> HIDE DEF taken, N
    <2>2. CASE wanted \notin taken
      BY <2>1, <2>2
    <2>3. CASE wanted \in taken
      BY <1>5, <2>1, <2>3
    <2> QED BY <2>2, <2>3
  <1> QED BY <1>6

(* A row that a record resolves to is there, has answered to no other id   *)
(* in this batch and, where the record has none, could be one payment with *)
(* it.                                                                     *)
LEMMA SettlesIt ==
  ASSUME NEW book, NEW x, NEW n, NEW plan, NEW k, k = Resolve(book, x, n, plan), k # 0
  PROVE  /\ k \in DOMAIN book.rows /\ ~ClaimedUnderAnotherId(book, k, x)
         /\ x.id = NoId => OnePayment(book, k, x, ContentKey(book.rows[k]) = ContentKey(x))
  <1> DEFINE Right(S) == \A m \in S :
                 /\ m \in DOMAIN book.rows /\ ~ClaimedUnderAnotherId(book, m, x)
                 /\ x.id = NoId => OnePayment(book, m, x, ContentKey(book.rows[m]) = ContentKey(x))
  <1>1. Right(ExactRows(book, x))
    <2> DEFINE Unclaimed(S) == {m \in S : x.id # NoId /\ ~ClaimedUnderAnotherId(book, m, x)}
               carrying == Unclaimed(Carrying(book, x))
               sighted == Unclaimed(Sighted(book, x))
               alike == {m \in DOMAIN book.rows : /\ ContentKey(book.rows[m]) = ContentKey(x)
                                                  /\ OnePayment(book, m, x, TRUE)}
    <2>1. Right(carrying) /\ Right(sighted)
      BY DEF Carrying, Sighted
    <2>2. Right(alike)
      <3> SUFFICES ASSUME NEW m \in alike
                   PROVE  /\ m \in DOMAIN book.rows /\ ~ClaimedUnderAnotherId(book, m, x)
                          /\ OnePayment(book, m, x, ContentKey(book.rows[m]) = ContentKey(x))
        OBVIOUS
      <3>1. ContentKey(book.rows[m]) = ContentKey(x) /\ OnePayment(book, m, x, TRUE)
        OBVIOUS
      <3>2. ~ClaimedUnderAnotherId(book, m, x)
        BY <3>1 DEF OnePayment
      <3>3. OnePayment(book, m, x, ContentKey(book.rows[m]) = ContentKey(x))
        BY <3>1 DEF OnePayment, CouldBeOnePayment
      <3> QED BY <3>2, <3>3
    <2>3. ExactRows(book, x) \in {carrying, sighted, alike}
      BY DEF ExactRows
    <2> HIDE DEF carrying, sighted, alike, Right
    <2> QED BY <2>1, <2>2, <2>3
  <1>2. Right(Candidates(book, x, n, plan))
    <2> DEFINE near == {m \in Near(book, x) : <<n, m>> \in plan \/ m \notin {p[2] : p \in plan}}
               planned == {m \in near : <<n, m>> \in plan}
               nearest == {m \in near : \A j \in near :
                             Distance(x, book.rows[m]) <= Distance(x, book.rows[j])}
    <2>1. Right(Near(book, x))
      BY DEF Near, OnePayment
    <2>2. Right(planned) /\ Right(nearest)
      BY <2>1
    <2>3. Candidates(book, x, n, plan) \in {ExactRows(book, x), planned, nearest}
      BY DEF Candidates
    <2> HIDE DEF planned, nearest, Right
    <2> QED BY <1>1, <2>2, <2>3
  <1>3. k \in Candidates(book, x, n, plan)
    BY FirstIn DEF Resolve
  <1> QED BY <1>2, <1>3
-----------------------------------------------------------------------------
(* Row r may stand in place k: born as that row was, its sightings that    *)
(* row's and the record's, its key no other row's.                         *)
Succeeds(r, book, k, x, list, artefact, settled) ==
    /\ r \in Row /\ Lawful(r, settled)
    /\ r.born = book.rows[k].born
    /\ r.ids = book.rows[k].ids \cup Sighting(book.rows[k], x, list, artefact)
    /\ \A m \in DOMAIN book.rows \ {k} : Key(book.rows[m]) # Key(r)

(* A row with a record's facts may stand in its place.                     *)
LEMMA MergedIs ==
  ASSUME NEW settled, NEW book, Ledger(book.rows, settled), KeysApart(book.rows),
         NEW k \in DOMAIN book.rows, NEW x \in Record, Lawful(x, settled),
         NEW list \in Lists, NEW artefact \in Nat,
         NEW r, r = Merged(book, k, x, list, artefact)
  PROVE  /\ Succeeds(r, book, k, x, list, artefact, settled)
         /\ r.id = x.id /\ r.src = x.src /\ r.status = x.status /\ ContentKey(r) = ContentKey(x)
         /\ ContentKey(x) = ContentKey(book.rows[k]) => r.occ = book.rows[k].occ
  <1> DEFINE row == book.rows[k]
             free == FreeOccurrence(book, ContentKey(x), x.occ, k)
             occ == IF ContentKey(x) = ContentKey(row) THEN row.occ ELSE free
             ids == row.ids \cup Sighting(row, x, list, artefact)
  <1>1. r = Stating(x, occ, row.born, ids)
    BY DEF Merged
  <1>2. row \in Row
    BY DEF Ledger
  <1>3. free \in Nat /\ \A m \in DOMAIN book.rows \ {k} :
           ContentKey(book.rows[m]) = ContentKey(x) => book.rows[m].occ # free
    <2>1. x.occ \in Nat /\ book.rows \in Seq(Row) BY DEF Record, Ledger
    <2> QED BY <2>1, FreeIs
  <1>4. Sighting(row, x, list, artefact) \subseteq Sightings
    BY DEF Sighting, Sightings, Record
  <1>5. occ \in Nat /\ ids \in SUBSET Sightings
    <2> HIDE DEF free
    <2> QED BY <1>2, <1>3, <1>4 DEF Row
  <1>6. /\ r.id = x.id /\ r.src = x.src /\ r.status = x.status /\ ContentKey(r) = ContentKey(x)
        /\ r.born = row.born /\ r.ids = ids /\ r.occ = occ
    <2> HIDE DEF row, occ, ids
    <2> QED BY <1>1 DEF Stating, ContentKey
  <1>7. r \in Row /\ Lawful(r, settled)
    <2>1. row.born \in Nat \X (Ids \cup (Contents \X Nat))
      BY <1>2 DEF Row
    <2> HIDE DEF row, occ, ids
    <2>2. r \in Row
      BY <1>1, <1>5, <2>1 DEF Stating, Row, Record
    <2> QED BY <1>6, <2>2 DEF Lawful
  <1>8. ASSUME NEW m \in DOMAIN book.rows, m # k PROVE Key(book.rows[m]) # Key(r)
    <2> HIDE DEF free, row
    <2>1. CASE ContentKey(x) = ContentKey(row)
      <3>1. Key(row) = Key(r) BY <1>6, <2>1 DEF Key
      <3>2. Key(book.rows[m]) # Key(row) BY <1>8 DEF KeysApart, row
      <3> QED BY <3>1, <3>2
    <2>2. CASE ContentKey(x) # ContentKey(row)
      BY <1>3, <1>6, <1>8, <2>2 DEF Key
    <2> QED BY <2>1, <2>2
  <1> QED BY <1>6, <1>7, <1>8 DEF Succeeds

(* So may a superseded one, which is booked still if it was.               *)
LEMMA SupersededIs ==
  ASSUME NEW settled, NEW book, Ledger(book.rows, settled), KeysApart(book.rows),
         NEW k \in DOMAIN book.rows, NEW x \in Record, Lawful(x, settled),
         NEW list \in Lists, NEW artefact \in Nat,
         NEW r, r = Superseded(book, k, x, list, artefact)
  PROVE  /\ Succeeds(r, book, k, x, list, artefact, settled)
         /\ IF Pending(x) /\ book.rows[k].status = "booked"
              THEN r.id = book.rows[k].id /\ r.status = "booked"
              ELSE r = Merged(book, k, x, list, artefact)
  <1> DEFINE row == book.rows[k]
  <1>1. row \in Row /\ Lawful(row, settled)
    BY DEF Ledger
  <1>2. CASE Pending(x) /\ row.status = "booked"
    <2> DEFINE ids == row.ids \cup Sighting(row, x, list, artefact)
    <2>1. r = [row EXCEPT !.ids = ids]
      BY <1>2 DEF Superseded
    <2>2. ids \in SUBSET Sightings
      BY <1>1 DEF Sighting, Sightings, Record, Row
    <2>3. /\ r \in Row /\ r.id = row.id /\ r.src = row.src /\ r.status = row.status
          /\ r.born = row.born /\ r.ids = ids /\ r.occ = row.occ
          /\ r.amt = row.amt /\ r.day = row.day /\ r.word = row.word
      <3> HIDE DEF row, ids
      <3> QED BY <1>1, <2>1, <2>2 DEF Row
    <2>4. Key(r) = Key(row) /\ Lawful(r, settled)
      <3> HIDE DEF row, ids
      <3> QED BY <1>1, <2>3 DEF Key, ContentKey, Lawful
    <2>5. \A m \in DOMAIN book.rows \ {k} : Key(book.rows[m]) # Key(r)
      BY <2>4 DEF KeysApart
    <2>6. Succeeds(r, book, k, x, list, artefact, settled)
      BY <2>3, <2>4, <2>5 DEF Succeeds
    <2> QED BY <1>2, <2>3, <2>6
  <1>3. CASE ~(Pending(x) /\ row.status = "booked")
    <2>1. r = Merged(book, k, x, list, artefact)
      BY <1>3 DEF Superseded
    <2>2. Succeeds(r, book, k, x, list, artefact, settled)
      BY <2>1, MergedIs
    <2> QED BY <1>3, <2>1, <2>2
  <1> QED BY <1>2, <1>3

(* Row r may be added for record x of this artefact.                       *)
Stands(r, book, x, list, artefact, settled) ==
    /\ r \in Row /\ Lawful(r, settled)
    /\ r.id = x.id /\ r.src = x.src /\ r.status = x.status /\ ContentKey(r) = ContentKey(x)
    /\ r.born = <<artefact, IF x.id = NoId THEN Key(r) ELSE x.id>>
    /\ r.ids = IF x.id = NoId THEN {} ELSE {[id |-> x.id, list |-> list, artefact |-> artefact]}
    /\ \A m \in DOMAIN book.rows : Key(book.rows[m]) # Key(r)

(* A founded row may be added.                                             *)
LEMMA FoundedIs ==
  ASSUME NEW settled, NEW book, Ledger(book.rows, settled), KeysApart(book.rows),
         NEW x \in Record, Lawful(x, settled),
         NEW list \in Lists, NEW artefact \in Nat,
         NEW r, r = Founded(book, x, list, artefact)
  PROVE  Stands(r, book, x, list, artefact, settled)
  <1> DEFINE occ == FreeOccurrence(book, ContentKey(x), x.occ, 0)
             ids == Sighting([ids |-> {}], x, list, artefact)
             born == Entity(x, occ, artefact)
  <1>1. r = Stating(x, occ, born, ids)
    BY DEF Founded
  <1>2. occ \in Nat /\ \A m \in DOMAIN book.rows :
           ContentKey(book.rows[m]) = ContentKey(x) => book.rows[m].occ # occ
    <2>1. x.occ \in Nat /\ book.rows \in Seq(Row) BY DEF Record, Ledger
    <2>2. \A m \in DOMAIN book.rows : m # 0 BY <2>1
    <2> QED BY <2>1, <2>2, FreeIs
  <1>3. ids = IF x.id = NoId THEN {} ELSE {[id |-> x.id, list |-> list, artefact |-> artefact]}
    BY DEF Sighting
  <1>4. ContentKey(x) \in Contents
    BY DEF ContentKey, Contents, Record
  <1>5. born \in Nat \X (Ids \cup (Contents \X Nat))
    <2> HIDE DEF occ
    <2> QED BY <1>2, <1>4 DEF Entity, Record
  <1>6. ids \in SUBSET Sightings
    BY <1>3 DEF Sightings, Record
  <1>7. /\ r.id = x.id /\ r.src = x.src /\ r.status = x.status /\ ContentKey(r) = ContentKey(x)
        /\ r.born = born /\ r.ids = ids /\ r.occ = occ
    <2> HIDE DEF occ, ids, born
    <2> QED BY <1>1 DEF Stating, ContentKey
  <1>8. r \in Row /\ Lawful(r, settled)
    <2> HIDE DEF occ, ids, born
    <2>1. r \in Row
      BY <1>1, <1>2, <1>5, <1>6 DEF Stating, Row, Record
    <2> QED BY <1>7, <2>1 DEF Lawful
  <1>9. r.born = <<artefact, IF x.id = NoId THEN Key(r) ELSE x.id>>
    <2> HIDE DEF occ, ids
    <2> QED BY <1>7 DEF Entity, Key
  <1>10. \A m \in DOMAIN book.rows : Key(book.rows[m]) # Key(r)
    <2> HIDE DEF occ, ids, born
    <2> QED BY <1>2, <1>7 DEF Key
  <1> QED BY <1>3, <1>7, <1>8, <1>9, <1>10 DEF Stands
-----------------------------------------------------------------------------
(* A book in the middle of a batch: a claim for each row, and ids apart    *)
(* unless a write was refused.                                             *)
BookOK(book, settled) ==
    /\ Ledger(book.rows, settled) /\ KeysApart(book.rows)
    /\ book.claims \in Seq(Ids) /\ Len(book.claims) = Len(book.rows)
    /\ book.fits \in BOOLEAN /\ book.recurs \in BOOLEAN
    /\ book.fits => Distinct(book.rows)

(* One record written: row k of the book becomes r, and answers to the     *)
(* record's id.                                                            *)
Rewrites(book, next, k, r, x, list, artefact, settled) ==
    /\ Succeeds(r, book, k, x, list, artefact, settled)
    /\ next.rows = [book.rows EXCEPT ![k] = r]
    /\ next.claims = Claim(book, k, x)
    /\ next.fits \in BOOLEAN /\ next.recurs \in BOOLEAN
    /\ next.fits <=> (book.fits /\ Distinct(next.rows))

(* The record joined a row it resolved to.                                 *)
Joins(book, next, k, r, x, list, artefact, settled) ==
    /\ Rewrites(book, next, k, r, x, list, artefact, settled)
    /\ next.recurs <=> (book.recurs \/ NamedBefore(book, k, x, artefact))
    /\ ~ClaimedUnderAnotherId(book, k, x)
    /\ x.id = NoId => OnePayment(book, k, x, ContentKey(book.rows[k]) = ContentKey(x))
    /\ IF Pending(x) /\ book.rows[k].status = "booked"
         THEN r.id = book.rows[k].id /\ r.status = "booked"
         ELSE /\ r.id = x.id /\ r.src = x.src /\ r.status = x.status
              /\ ContentKey(r) = ContentKey(x)
              /\ ContentKey(x) = ContentKey(book.rows[k]) => r.occ = book.rows[k].occ

(* The record got a row of its own.                                        *)
Adds(book, next, r, x, list, artefact, settled) ==
    /\ Stands(r, book, x, list, artefact, settled)
    /\ next.rows = Append(book.rows, r)
    /\ next.claims = Append(book.claims, x.id)
    /\ next.fits \in BOOLEAN /\ next.recurs \in BOOLEAN
    /\ next.fits <=> (book.fits /\ Distinct(next.rows))
    /\ next.recurs <=> book.recurs

(* The record got the row that its entity id had.                          *)
Overwrites(book, next, k, r, x, list, artefact, settled) ==
    /\ Rewrites(book, next, k, r, x, list, artefact, settled)
    /\ next.recurs = TRUE /\ r.id = x.id
    /\ book.rows[k].born[1] = artefact
    /\ IF x.id # NoId THEN book.rows[k].born[2] = x.id
       ELSE \E key : /\ book.rows[k].born[2] = key
                     /\ \A m \in DOMAIN book.rows : Key(book.rows[m]) # key

(* Written states what it is given.                                        *)
LEMMA WrittenIs ==
  ASSUME NEW book, NEW rowsOf, NEW order, NEW claims, NEW recurs,
         NEW next, next = Written(book, rowsOf, order, claims, recurs)
  PROVE  /\ next.rows = rowsOf /\ next.claims = claims
         /\ next.fits \in BOOLEAN /\ next.recurs \in BOOLEAN
         /\ next.fits <=> (book.fits /\ Distinct(next.rows))
         /\ next.recurs <=> (book.recurs \/ recurs)
  <1>1. next.rows = rowsOf /\ next.claims = claims
    BY DEF Written
  <1>2. next.fits \in BOOLEAN /\ next.recurs \in BOOLEAN
    BY DEF Written
  <1>3. next.fits <=> (book.fits /\ Distinct(rowsOf))
    BY DEF Written
  <1>4. next.recurs <=> (book.recurs \/ recurs)
    BY DEF Written
  <1> QED BY <1>1, <1>2, <1>3, <1>4

(* That the order decided something changes nothing of what is written.    *)
LEMMA ReconcilePlaces ==
  ASSUME NEW book, NEW x, NEW n, NEW plan, NEW list, NEW artefact,
         NEW next, next = Reconcile(book, x, n, plan, list, artefact),
         NEW place, place = Place(book, Resolve(book, x, n, plan), x,
                                  Founded(book, x, list, artefact), list, artefact)
  PROVE  /\ next.rows = place.rows /\ next.claims = place.claims /\ next.order = place.order
         /\ next.fits = place.fits /\ next.recurs = place.recurs
         /\ next.tied = (place.tied \/ Undecided(Candidates(book, x, n, plan)))
  <1> DEFINE decided == Undecided(Candidates(book, x, n, plan))
  <1>1. PICK rowsOf, order, claims, fits, recurs, tied :
            place = [rows |-> rowsOf, order |-> order, claims |-> claims, fits |-> fits,
                     recurs |-> recurs, tied |-> tied]
    BY DEF Place, Join, Add, Overwrite, Written
  <1>2. next = [place EXCEPT !.tied = @ \/ decided]
    BY DEF Reconcile
  <1> HIDE DEF decided
  <1>3. next = [rows |-> rowsOf, order |-> order, claims |-> claims, fits |-> fits,
                recurs |-> recurs, tied |-> (tied \/ decided)]
    BY <1>1, <1>2
  <1> QED BY <1>1, <1>3 DEF decided

(* One record is written in one of the three ways.                         *)
LEMMA ReconcileIs ==
  ASSUME NEW settled, NEW book, BookOK(book, settled), NEW x \in Record, Lawful(x, settled),
         NEW n, NEW plan, NEW list \in Lists, NEW artefact \in Nat,
         NEW next, next = Reconcile(book, x, n, plan, list, artefact)
  PROVE  \/ \E k \in DOMAIN book.rows : \E r : Joins(book, next, k, r, x, list, artefact, settled)
         \/ \E r : Adds(book, next, r, x, list, artefact, settled)
         \/ \E k \in DOMAIN book.rows : \E r : Overwrites(book, next, k, r, x, list, artefact, settled)
  <1> DEFINE found == Resolve(book, x, n, plan)
             fresh == Founded(book, x, list, artefact)
             same == {k \in DOMAIN book.rows : book.rows[k].born = fresh.born}
             place == Place(book, found, x, fresh, list, artefact)
  <1>1. /\ next.rows = place.rows /\ next.claims = place.claims
        /\ next.fits = place.fits /\ next.recurs = place.recurs
    BY ReconcilePlaces
  <1>2. Ledger(book.rows, settled) /\ KeysApart(book.rows)
    BY DEF BookOK
  <1>3. CASE found # 0
    <2> DEFINE k == found
               r == Superseded(book, k, x, list, artefact)
    <2>1. /\ k \in DOMAIN book.rows /\ ~ClaimedUnderAnotherId(book, k, x)
          /\ x.id = NoId => OnePayment(book, k, x, ContentKey(book.rows[k]) = ContentKey(x))
      BY <1>3, SettlesIt
    <2>2. place = Join(book, k, x, list, artefact)
      BY <1>3 DEF Place
    <2> HIDE DEF found, k, place
    <2>3. /\ next.rows = [book.rows EXCEPT ![k] = r] /\ next.claims = Claim(book, k, x)
          /\ next.fits \in BOOLEAN /\ next.recurs \in BOOLEAN
          /\ next.fits <=> (book.fits /\ Distinct(next.rows))
          /\ next.recurs <=> (book.recurs \/ NamedBefore(book, k, x, artefact))
      <3>1. /\ place.rows = [book.rows EXCEPT ![k] = r] /\ place.claims = Claim(book, k, x)
            /\ place.fits \in BOOLEAN /\ place.recurs \in BOOLEAN
            /\ place.fits <=> (book.fits /\ Distinct(place.rows))
            /\ place.recurs <=> (book.recurs \/ NamedBefore(book, k, x, artefact))
        BY <2>2, WrittenIs DEF Join
      <3> HIDE DEF r
      <3> QED BY <1>1, <3>1, Zenon
    <2> HIDE DEF r
    <2>4. /\ Succeeds(r, book, k, x, list, artefact, settled)
          /\ IF Pending(x) /\ book.rows[k].status = "booked"
              THEN r.id = book.rows[k].id /\ r.status = "booked"
              ELSE r = Merged(book, k, x, list, artefact)
      BY <1>2, <2>1, SupersededIs DEF r
    <2>5. ~(Pending(x) /\ book.rows[k].status = "booked")
             => /\ r.id = x.id /\ r.src = x.src /\ r.status = x.status
                /\ ContentKey(r) = ContentKey(x)
                /\ ContentKey(x) = ContentKey(book.rows[k]) => r.occ = book.rows[k].occ
      BY <1>2, <2>1, <2>4, MergedIs
    <2>6. Joins(book, next, k, r, x, list, artefact, settled)
      BY <2>1, <2>3, <2>4, <2>5, Zenon DEF Joins, Rewrites
    <2> QED BY <2>1, <2>6
  <1>4. CASE found = 0 /\ same = {}
    <2>1. place = Add(book, x, fresh)
      BY <1>4 DEF Place
    <2> HIDE DEF found, fresh, same, place
    <2>2. /\ next.rows = Append(book.rows, fresh) /\ next.claims = Append(book.claims, x.id)
          /\ next.fits \in BOOLEAN /\ next.recurs \in BOOLEAN
          /\ next.fits <=> (book.fits /\ Distinct(next.rows))
          /\ next.recurs <=> (book.recurs \/ FALSE)
      <3> DEFINE added == Append(book.rows, fresh)
                 order == LastAsked(book.order, DOMAIN book.rows, Len(book.rows) + 1)
                 claims == Append(book.claims, x.id)
      <3>1. PICK flag : flag = FALSE
        OBVIOUS
      <3>2. place = Written(book, added, order, claims, flag)
        BY <2>1, <3>1, Zenon DEF Add
      <3> HIDE DEF added, order, claims
      <3>3. /\ place.rows = added /\ place.claims = claims
            /\ place.fits \in BOOLEAN /\ place.recurs \in BOOLEAN
            /\ place.fits <=> (book.fits /\ Distinct(place.rows))
            /\ place.recurs <=> (book.recurs \/ flag)
        BY <3>2, WrittenIs
      <3> QED BY <1>1, <3>1, <3>3, Zenon DEF added, claims
    <2>3. Stands(fresh, book, x, list, artefact, settled)
      BY <1>2, FoundedIs DEF fresh
    <2>5. Adds(book, next, fresh, x, list, artefact, settled)
      BY <2>2, <2>3, Zenon DEF Adds
    <2> QED BY <2>5
  <1>5. CASE found = 0 /\ same # {}
    <2> DEFINE k == Min(same)
               r == Merged(book, k, x, list, artefact)
    <2>1. place = Overwrite(book, k, x, list, artefact)
      BY <1>5 DEF Place
    <2>2. same \in SUBSET Nat
      BY <1>2 DEF Ledger
    <2>3. k \in same
      <3> HIDE DEF same
      <3> QED BY <1>5, <2>2, MinIn
    <2>4. k \in DOMAIN book.rows /\ book.rows[k].born = fresh.born
      <3> HIDE DEF fresh, k
      <3> QED BY <2>3
    <2> HIDE DEF found, fresh, same, k, place
    <2>5. /\ next.rows = [book.rows EXCEPT ![k] = r] /\ next.claims = Claim(book, k, x)
          /\ next.fits \in BOOLEAN /\ next.recurs \in BOOLEAN
          /\ next.fits <=> (book.fits /\ Distinct(next.rows))
          /\ next.recurs <=> (book.recurs \/ TRUE)
      <3>1. PICK flag : flag = TRUE
        OBVIOUS
      <3>2. place = Written(book, [book.rows EXCEPT ![k] = r],
                                  LastAsked(book.order, DOMAIN book.rows, k), Claim(book, k, x), flag)
        BY <2>1, <3>1, Zenon DEF Overwrite, r
      <3>3. /\ place.rows = [book.rows EXCEPT ![k] = r] /\ place.claims = Claim(book, k, x)
            /\ place.fits \in BOOLEAN /\ place.recurs \in BOOLEAN
            /\ place.fits <=> (book.fits /\ Distinct(place.rows))
            /\ place.recurs <=> (book.recurs \/ flag)
        BY <3>2, WrittenIs
      <3> HIDE DEF r
      <3> QED BY <1>1, <3>1, <3>3, Zenon
    <2> HIDE DEF r
    <2>6. Succeeds(r, book, k, x, list, artefact, settled) /\ r.id = x.id
      BY <1>2, <2>4, MergedIs DEF r
    <2>7. Stands(fresh, book, x, list, artefact, settled)
      BY <1>2, FoundedIs DEF fresh
    <2>8. /\ book.rows[k].born[1] = artefact
          /\ IF x.id # NoId THEN book.rows[k].born[2] = x.id
             ELSE \E key : /\ book.rows[k].born[2] = key
                           /\ \A m \in DOMAIN book.rows : Key(book.rows[m]) # key
      BY <2>4, <2>7 DEF Stands
    <2>9. Rewrites(book, next, k, r, x, list, artefact, settled)
      BY <2>5, <2>6, Zenon DEF Rewrites
    <2>10. next.recurs = TRUE
      BY <2>5
    <2>11. Overwrites(book, next, k, r, x, list, artefact, settled)
      BY <2>6, <2>8, <2>9, <2>10, Zenon DEF Overwrites
    <2> QED BY <2>4, <2>11
  <1> QED BY <1>3, <1>4, <1>5

(* Each of them leaves a book.                                             *)
LEMMA StepOK ==
  ASSUME NEW settled, NEW book, BookOK(book, settled), NEW x \in Record, Lawful(x, settled),
         NEW n, NEW plan, NEW list \in Lists, NEW artefact \in Nat,
         NEW next, next = Reconcile(book, x, n, plan, list, artefact)
  PROVE  BookOK(next, settled)
  <1> USE DEF BookOK
  <1>0. x.id \in Ids
    BY DEF Record
  <1>1. ASSUME NEW k \in DOMAIN book.rows, NEW r,
               Rewrites(book, next, k, r, x, list, artefact, settled)
        PROVE  BookOK(next, settled)
    <2>1. Ledger(next.rows, settled)
      BY <1>1 DEF Rewrites, Succeeds, Ledger
    <2>2. KeysApart(next.rows)
      BY <1>1 DEF Rewrites, Succeeds, Ledger, KeysApart
    <2>3. next.claims \in Seq(Ids) /\ Len(next.claims) = Len(book.claims)
      <3> DEFINE c == IF book.claims[k] = NoId THEN x.id ELSE book.claims[k]
      <3>1. next.claims = [book.claims EXCEPT ![k] = c]
        BY <1>1 DEF Rewrites, Claim
      <3>2. k \in DOMAIN book.claims /\ c \in Ids
        BY <1>0, <1>1 DEF Ledger
      <3> HIDE DEF c
      <3> QED BY <3>1, <3>2
    <2>4. Len(next.rows) = Len(book.rows)
      BY <1>1 DEF Rewrites, Ledger
    <2>5. next.fits \in BOOLEAN /\ next.recurs \in BOOLEAN /\ (next.fits => Distinct(next.rows))
      BY <1>1, Zenon DEF Rewrites
    <2> QED BY <1>1, <2>1, <2>2, <2>3, <2>4, <2>5
  <1>2. ASSUME NEW r, Adds(book, next, r, x, list, artefact, settled)
        PROVE  BookOK(next, settled)
    <2>1. Ledger(next.rows, settled)
      BY <1>2 DEF Adds, Stands, Ledger
    <2>2. KeysApart(next.rows)
      BY <1>2 DEF Adds, Stands, Ledger, KeysApart
    <2>3. /\ next.claims \in Seq(Ids) /\ Len(next.claims) = Len(book.claims) + 1
          /\ Len(next.rows) = Len(book.rows) + 1
      BY <1>0, <1>2 DEF Adds, Stands, Ledger
    <2>4. next.fits \in BOOLEAN /\ (next.fits => Distinct(next.rows)) /\ next.recurs \in BOOLEAN
      BY <1>2, Zenon DEF Adds
    <2> QED BY <2>1, <2>2, <2>3, <2>4
  <1>3. ASSUME NEW k \in DOMAIN book.rows, NEW r, Joins(book, next, k, r, x, list, artefact, settled)
        PROVE  BookOK(next, settled)
    BY <1>1, <1>3 DEF Joins
  <1>4. ASSUME NEW k \in DOMAIN book.rows, NEW r, Overwrites(book, next, k, r, x, list, artefact, settled)
        PROVE  BookOK(next, settled)
    BY <1>1, <1>4 DEF Overwrites
  <1> HIDE DEF BookOK
  <1> QED BY <1>2, <1>3, <1>4, ReconcileIs
-----------------------------------------------------------------------------
(* From old to new: no row goes, no sighting goes, and what was booked is  *)
(* booked unless an answer recurred.                                       *)
Grown(old, new, recurs) ==
    /\ Len(old) <= Len(new)
    /\ \A k \in DOMAIN old : /\ old[k].ids \subseteq new[k].ids
                             /\ ~recurs /\ old[k].status = "booked" => new[k].status = "booked"

(* A row that carries an id was sighted under it.                          *)
Known(rowsOf) ==
    \A k \in DOMAIN rowsOf : rowsOf[k].id # NoId =>
        \E sighting \in rowsOf[k].ids : sighting.id = rowsOf[k].id

(* A row was sighted under the id it answers to.                           *)
Answering(book) ==
    \A k \in DOMAIN book.rows : book.claims[k] # NoId =>
        \E sighting \in book.rows[k].ids : sighting.id = book.claims[k]

(* All that the rows were born of and sighted in is among `stamps`.        *)
Stamped(rowsOf, stamps) ==
    \A k \in DOMAIN rowsOf : /\ rowsOf[k].born[1] \in stamps
                             /\ \A sighting \in rowsOf[k].ids : sighting.artefact \in stamps

(* Row k answers to record x: it is not void, and booked if x is.          *)
Answers(book, k, x) ==
    /\ book.claims[k] = x.id /\ book.rows[k].status # "void"
    /\ x.status = "booked" => book.rows[k].status = "booked"

(* The row was sighted in the artefact.                                    *)
Seeing(row, artefact) == \E sighting \in row.ids : sighting.artefact = artefact

(* A batch with ids under way for an artefact never reconciled: the rows   *)
(* sighted in it have answered, those born of it were born under ids       *)
(* heard.                                                                  *)
FreshIds(book, artefact, heard) ==
    \A k \in DOMAIN book.rows :
        /\ Seeing(book.rows[k], artefact) => book.claims[k] # NoId
        /\ book.rows[k].born[1] = artefact => book.rows[k].born[2] \in heard

(* The same for a batch without ids: no row is sighted in it, and those    *)
(* born of it were born under the key they have.                           *)
FreshKeys(book, artefact) ==
    \A k \in DOMAIN book.rows :
        /\ ~Seeing(book.rows[k], artefact)
        /\ book.rows[k].born[1] = artefact =>
               book.rows[k].src = "export" /\ book.rows[k].born[2] = Key(book.rows[k])

(* All rows carry an id: no export has been imported.                      *)
Named(rowsOf) == \A k \in DOMAIN rowsOf : rowsOf[k].id # NoId

(* What one record does to the rows as a whole.                            *)
Grows(book, next, x, artefact) ==
    /\ Grown(book.rows, next.rows, next.recurs)
    /\ book.recurs => next.recurs
    /\ \A stamps : Stamped(book.rows, stamps) => Stamped(next.rows, stamps \cup {artefact})
    /\ Named(book.rows) /\ x.id # NoId => Named(next.rows)

(* Each way of writing a record lets the rows grow.                        *)
LEMMA StepGrows ==
  ASSUME NEW settled, NEW book, BookOK(book, settled), NEW x \in Record, Lawful(x, settled),
         NEW n, NEW plan, NEW list \in Lists, NEW artefact \in Nat,
         NEW next, next = Reconcile(book, x, n, plan, list, artefact)
  PROVE  Grows(book, next, x, artefact)
  <1>0. book.rows \in Seq(Row)
    BY DEF BookOK, Ledger
  <1>1. ASSUME NEW k \in DOMAIN book.rows, NEW r,
               Rewrites(book, next, k, r, x, list, artefact, settled),
               ~next.recurs /\ book.rows[k].status = "booked" => r.status = "booked",
               r.id \in {x.id, book.rows[k].id}
        PROVE  /\ Grown(book.rows, next.rows, next.recurs)
               /\ \A stamps : Stamped(book.rows, stamps) => Stamped(next.rows, stamps \cup {artefact})
               /\ Named(book.rows) /\ x.id # NoId => Named(next.rows)
    <2>1. /\ next.rows = [book.rows EXCEPT ![k] = r] /\ r.born = book.rows[k].born
          /\ r.ids = book.rows[k].ids \cup Sighting(book.rows[k], x, list, artefact)
      BY <1>1 DEF Rewrites, Succeeds
    <2>2. Grown(book.rows, next.rows, next.recurs)
      <3>1. Len(next.rows) = Len(book.rows) /\ DOMAIN next.rows = DOMAIN book.rows
        BY <1>0, <2>1
      <3>2. \A m \in DOMAIN book.rows : next.rows[m] = IF m = k THEN r ELSE book.rows[m]
        BY <2>1
      <3>3. Len(book.rows) <= Len(next.rows)
        BY <1>0, <3>1
      <3> QED BY <1>1, <2>1, <3>2, <3>3 DEF Grown
    <2>3. \A sighting \in Sighting(book.rows[k], x, list, artefact) : sighting.artefact = artefact
      BY DEF Sighting
    <2>4. ASSUME NEW stamps, Stamped(book.rows, stamps)
          PROVE  Stamped(next.rows, stamps \cup {artefact})
      <3>1. DOMAIN next.rows = DOMAIN book.rows
        BY <2>1
      <3>2. \A m \in DOMAIN book.rows : next.rows[m] = IF m = k THEN r ELSE book.rows[m]
        BY <2>1
      <3> QED BY <2>1, <2>3, <2>4, <3>1, <3>2 DEF Stamped
    <2>5. Named(book.rows) /\ x.id # NoId => Named(next.rows)
      BY <1>1, <2>1 DEF Named
    <2> QED BY <2>2, <2>4, <2>5
  <1>2. ASSUME NEW r, Adds(book, next, r, x, list, artefact, settled)
        PROVE  Grows(book, next, x, artefact)
    <2>1. /\ Len(next.rows) = Len(book.rows) + 1 /\ DOMAIN next.rows = 1..(Len(book.rows) + 1)
          /\ DOMAIN book.rows = 1..Len(book.rows) /\ Len(book.rows) \in Nat
      BY <1>0, <1>2 DEF Adds, Stands
    <2>2. \A m \in DOMAIN next.rows :
              next.rows[m] = IF m = Len(book.rows) + 1 THEN r ELSE book.rows[m]
      BY <1>0, <1>2, <2>1 DEF Adds, Stands
    <2>3. Grown(book.rows, next.rows, next.recurs)
      BY <2>1, <2>2 DEF Grown
    <2>4. book.recurs => next.recurs
      BY <1>2, Zenon DEF Adds
    <2>5. r.born[1] = artefact /\ \A sighting \in r.ids : sighting.artefact = artefact
      BY <1>2 DEF Adds, Stands
    <2>6. ASSUME NEW stamps, Stamped(book.rows, stamps)
          PROVE  Stamped(next.rows, stamps \cup {artefact})
      BY <2>1, <2>2, <2>5, <2>6 DEF Stamped
    <2>7. Named(book.rows) /\ x.id # NoId => Named(next.rows)
      BY <1>2, <2>1, <2>2 DEF Named, Adds, Stands
    <2> QED BY <2>3, <2>4, <2>6, <2>7 DEF Grows
  <1>3. ASSUME NEW k \in DOMAIN book.rows, NEW r, Joins(book, next, k, r, x, list, artefact, settled)
        PROVE  Grows(book, next, x, artefact)
    <2>1. Rewrites(book, next, k, r, x, list, artefact, settled)
      BY <1>3 DEF Joins
    <2>2. /\ book.rows[k].status = "booked" => r.status = "booked"
          /\ r.id \in {x.id, book.rows[k].id}
      BY <1>3 DEF Joins, Pending, Record
    <2>3. book.recurs => next.recurs
      BY <1>3, Zenon DEF Joins
    <2> QED BY <1>1, <2>1, <2>2, <2>3 DEF Grows
  <1>4. ASSUME NEW k \in DOMAIN book.rows, NEW r, Overwrites(book, next, k, r, x, list, artefact, settled)
        PROVE  Grows(book, next, x, artefact)
    BY <1>1, <1>4 DEF Overwrites, Grows
  <1> QED BY <1>2, <1>3, <1>4, ReconcileIs

(* Each way but an overwriting keeps rows sighted under what they carry    *)
(* and answer to.                                                          *)
LEMMA StepKnows ==
  ASSUME NEW settled, NEW book, BookOK(book, settled), NEW x \in Record, Lawful(x, settled),
         NEW n, NEW plan, NEW list \in Lists, NEW artefact \in Nat,
         NEW next, next = Reconcile(book, x, n, plan, list, artefact),
         Answering(book), ~next.recurs
  PROVE  Answering(next) /\ (Known(book.rows) => Known(next.rows))
  <1>0. /\ book.rows \in Seq(Row) /\ book.claims \in Seq(Ids) /\ Len(book.claims) = Len(book.rows)
        /\ DOMAIN book.rows = 1..Len(book.rows) /\ DOMAIN book.claims = DOMAIN book.rows
        /\ Len(book.rows) \in Nat
    BY DEF BookOK, Ledger
  <1>1. ASSUME NEW k \in DOMAIN book.rows, NEW r, Joins(book, next, k, r, x, list, artefact, settled)
        PROVE  Answering(next) /\ (Known(book.rows) => Known(next.rows))
    <2>1. /\ next.rows = [book.rows EXCEPT ![k] = r] /\ next.claims = Claim(book, k, x)
          /\ r.ids = book.rows[k].ids \cup Sighting(book.rows[k], x, list, artefact)
      BY <1>1 DEF Joins, Rewrites, Succeeds
    <2>2. ~NamedBefore(book, k, x, artefact) /\ ~ClaimedUnderAnotherId(book, k, x)
      BY <1>1, Zenon DEF Joins
    <2>3. /\ DOMAIN next.rows = DOMAIN book.rows
          /\ \A m \in DOMAIN book.rows : next.rows[m] = IF m = k THEN r ELSE book.rows[m]
      BY <2>1
    <2>4. \A m \in DOMAIN book.rows : next.claims[m] =
              IF m = k /\ book.claims[k] = NoId THEN x.id ELSE book.claims[m]
      BY <1>0, <2>1 DEF Claim
    <2>5. x.id # NoId => \E sighting \in r.ids : sighting.id = x.id
      <3> SUFFICES ASSUME x.id # NoId PROVE \E sighting \in r.ids : sighting.id = x.id
        OBVIOUS
      <3>1. CASE \E sighting \in book.rows[k].ids : sighting.artefact = artefact
        <4>1. CASE book.claims[k] = NoId
          BY <2>1, <2>2, <3>1, <4>1 DEF NamedBefore
        <4>2. CASE book.claims[k] # NoId
          BY <2>1, <2>2, <4>2 DEF ClaimedUnderAnotherId, Answering
        <4> QED BY <4>1, <4>2
      <3>2. CASE ~\E sighting \in book.rows[k].ids : sighting.artefact = artefact
        <4>1. [id |-> x.id, list |-> list, artefact |-> artefact] \in r.ids
          BY <2>1, <3>2 DEF Sighting
        <4> QED BY <4>1
      <3> QED BY <3>1, <3>2
    <2>6. book.rows[k].ids \subseteq r.ids
      BY <2>1
    <2>7. Answering(next)
      BY <2>3, <2>4, <2>5, <2>6 DEF Answering
    <2>8. r.id = x.id \/ r.id = book.rows[k].id
      BY <1>1 DEF Joins
    <2>9. Known(book.rows) => Known(next.rows)
      BY <2>3, <2>5, <2>6, <2>8 DEF Known
    <2> QED BY <2>7, <2>9
  <1>2. ASSUME NEW r, Adds(book, next, r, x, list, artefact, settled)
        PROVE  Answering(next) /\ (Known(book.rows) => Known(next.rows))
    <2>1. DOMAIN next.rows = 1..(Len(book.rows) + 1)
      BY <1>0, <1>2 DEF Adds, Stands
    <2>2. \A m \in DOMAIN next.rows :
              /\ next.rows[m] = IF m = Len(book.rows) + 1 THEN r ELSE book.rows[m]
              /\ next.claims[m] = IF m = Len(book.rows) + 1 THEN x.id ELSE book.claims[m]
      BY <1>0, <1>2, <2>1 DEF Adds, Stands, Record
    <2>3. r.id = x.id /\ (x.id # NoId => \E sighting \in r.ids : sighting.id = x.id)
      <3>1. x.id # NoId => [id |-> x.id, list |-> list, artefact |-> artefact] \in r.ids
        BY <1>2 DEF Adds, Stands
      <3> QED BY <1>2, <3>1 DEF Adds, Stands
    <2>4. Answering(next)
      BY <1>0, <2>1, <2>2, <2>3 DEF Answering
    <2>5. Known(book.rows) => Known(next.rows)
      BY <1>0, <2>1, <2>2, <2>3 DEF Known
    <2> QED BY <2>4, <2>5
  <1>3. \A k, r : ~Overwrites(book, next, k, r, x, list, artefact, settled)
    BY DEF Overwrites
  <1> QED BY <1>1, <1>2, <1>3, ReconcileIs
(* The record has its row, and no other record with an id lost its own.    *)
Owns(book, next, x) ==
    /\ \E k \in DOMAIN next.rows : Answers(next, k, x)
    /\ \A y : \A k \in DOMAIN book.rows :
          y.id \notin {NoId, x.id} /\ Answers(book, k, y)
            => k \in DOMAIN next.rows /\ Answers(next, k, y)

(* Each way but an overwriting gives the record a row and takes none: this *)
(* is what the claims are for.                                             *)
LEMMA StepOwns ==
  ASSUME NEW settled, NEW book, BookOK(book, settled), NEW x \in Record, Lawful(x, settled),
         NEW n, NEW plan, NEW list \in Lists, NEW artefact \in Nat,
         NEW next, next = Reconcile(book, x, n, plan, list, artefact),
         ~next.recurs, x.id # NoId
  PROVE  Owns(book, next, x)
  <1>0. /\ book.rows \in Seq(Row) /\ book.claims \in Seq(Ids) /\ Len(book.claims) = Len(book.rows)
        /\ DOMAIN book.rows = 1..Len(book.rows) /\ DOMAIN book.claims = DOMAIN book.rows
        /\ Len(book.rows) \in Nat
    BY DEF BookOK, Ledger
  <1>1. ASSUME NEW k \in DOMAIN book.rows, NEW r, Joins(book, next, k, r, x, list, artefact, settled)
        PROVE  Owns(book, next, x)
    <2>1. /\ next.rows = [book.rows EXCEPT ![k] = r] /\ next.claims = Claim(book, k, x)
      BY <1>1 DEF Joins, Rewrites
    <2>2. book.claims[k] \in {NoId, x.id}
      BY <1>1, Zenon DEF Joins, ClaimedUnderAnotherId
    <2>3. /\ DOMAIN next.rows = DOMAIN book.rows
          /\ \A m \in DOMAIN book.rows : next.rows[m] = IF m = k THEN r ELSE book.rows[m]
      BY <2>1
    <2>4. \A m \in DOMAIN book.rows : next.claims[m] =
              IF m = k THEN x.id ELSE book.claims[m]
      BY <1>0, <2>1, <2>2 DEF Claim
    <2>5. r.status # "void" /\ (x.status = "booked" => r.status = "booked")
      BY <1>1 DEF Joins, Pending, Record
    <2>6. Answers(next, k, x)
      BY <2>3, <2>4, <2>5 DEF Answers
    <2>7. ASSUME NEW y, NEW j \in DOMAIN book.rows, y.id \notin {NoId, x.id}, Answers(book, j, y)
          PROVE  j \in DOMAIN next.rows /\ Answers(next, j, y)
      <3>1. j # k
        BY <2>2, <2>7 DEF Answers
      <3> QED BY <2>3, <2>4, <2>7, <3>1 DEF Answers
    <2> QED BY <2>3, <2>6, <2>7 DEF Owns
  <1>2. ASSUME NEW r, Adds(book, next, r, x, list, artefact, settled)
        PROVE  Owns(book, next, x)
    <2>1. DOMAIN next.rows = 1..(Len(book.rows) + 1)
      BY <1>0, <1>2 DEF Adds, Stands
    <2>2. \A m \in DOMAIN next.rows :
              /\ next.rows[m] = IF m = Len(book.rows) + 1 THEN r ELSE book.rows[m]
              /\ next.claims[m] = IF m = Len(book.rows) + 1 THEN x.id ELSE book.claims[m]
      BY <1>0, <1>2, <2>1 DEF Adds, Stands, Record
    <2>3. r.status # "void" /\ (x.status = "booked" => r.status = "booked")
      BY <1>2 DEF Adds, Stands, Record
    <2>4. Answers(next, Len(book.rows) + 1, x)
      BY <1>0, <2>1, <2>2, <2>3 DEF Answers
    <2>5. ASSUME NEW y, NEW j \in DOMAIN book.rows, Answers(book, j, y)
          PROVE  j \in DOMAIN next.rows /\ Answers(next, j, y)
      BY <1>0, <2>1, <2>2, <2>5 DEF Answers
    <2> QED BY <1>0, <2>1, <2>4, <2>5 DEF Owns
  <1>3. \A k, r : ~Overwrites(book, next, k, r, x, list, artefact, settled)
    BY DEF Overwrites
  <1> QED BY <1>1, <1>2, <1>3, ReconcileIs

(* A record whose id its batch has not heard meets no row that an earlier  *)
(* reconciling of the artefact founded.                                    *)
LEMMA StepFreshIds ==
  ASSUME NEW settled, NEW book, BookOK(book, settled), NEW x \in Record, Lawful(x, settled),
         NEW n, NEW plan, NEW list \in Lists, NEW artefact \in Nat,
         NEW next, next = Reconcile(book, x, n, plan, list, artefact),
         NEW heard, x.id # NoId, x.id \notin heard, NEW since, since = heard \cup {x.id},
         FreshIds(book, artefact, heard), ~book.recurs
  PROVE  FreshIds(next, artefact, since) /\ ~next.recurs
  <1>0. /\ book.rows \in Seq(Row) /\ book.claims \in Seq(Ids) /\ Len(book.claims) = Len(book.rows)
        /\ DOMAIN book.rows = 1..Len(book.rows) /\ DOMAIN book.claims = DOMAIN book.rows
        /\ Len(book.rows) \in Nat
    BY DEF BookOK, Ledger
  <1>1. ASSUME NEW k \in DOMAIN book.rows, NEW r, Joins(book, next, k, r, x, list, artefact, settled)
        PROVE  FreshIds(next, artefact, since) /\ ~next.recurs
    <2>1. /\ next.rows = [book.rows EXCEPT ![k] = r] /\ next.claims = Claim(book, k, x)
          /\ r.born = book.rows[k].born
      BY <1>1 DEF Joins, Rewrites, Succeeds
    <2>2. ~NamedBefore(book, k, x, artefact)
      BY DEF NamedBefore, FreshIds, Seeing
    <2>3. /\ DOMAIN next.rows = DOMAIN book.rows
          /\ \A m \in DOMAIN book.rows : next.rows[m] = IF m = k THEN r ELSE book.rows[m]
      BY <2>1
    <2>4. \A m \in DOMAIN book.rows : next.claims[m] =
              IF m = k /\ book.claims[k] = NoId THEN x.id ELSE book.claims[m]
      BY <1>0, <2>1 DEF Claim
    <2>5. ~next.recurs
      BY <1>1, <2>2, Zenon DEF Joins
    <2>6. FreshIds(next, artefact, since)
      BY <2>1, <2>3, <2>4 DEF FreshIds
    <2> QED BY <2>5, <2>6
  <1>2. ASSUME NEW r, Adds(book, next, r, x, list, artefact, settled)
        PROVE  FreshIds(next, artefact, since) /\ ~next.recurs
    <2>1. DOMAIN next.rows = 1..(Len(book.rows) + 1)
      BY <1>0, <1>2 DEF Adds, Stands
    <2>2. \A m \in DOMAIN next.rows :
              /\ next.rows[m] = IF m = Len(book.rows) + 1 THEN r ELSE book.rows[m]
              /\ next.claims[m] = IF m = Len(book.rows) + 1 THEN x.id ELSE book.claims[m]
      BY <1>0, <1>2, <2>1 DEF Adds, Stands, Record
    <2>3. r.born[2] = x.id
      BY <1>2 DEF Adds, Stands
    <2>4. FreshIds(next, artefact, since)
      BY <1>0, <2>1, <2>2, <2>3 DEF FreshIds
    <2>5. ~next.recurs
      BY <1>2, Zenon DEF Adds
    <2> QED BY <2>4, <2>5
  <1>3. ASSUME NEW k \in DOMAIN book.rows, NEW r,
               Overwrites(book, next, k, r, x, list, artefact, settled)
        PROVE  FALSE
    BY <1>3 DEF Overwrites, FreshIds
  <1> QED BY <1>1, <1>2, <1>3, ReconcileIs

(* Nor does a record without id: the rows born of the artefact have the    *)
(* keys they were born under, and it is founded under a free one.          *)
LEMMA StepFreshKeys ==
  ASSUME NEW settled, NEW book, BookOK(book, settled), NEW x \in Record, Lawful(x, settled),
         NEW n, NEW plan, NEW list \in Lists, NEW artefact \in Nat,
         NEW next, next = Reconcile(book, x, n, plan, list, artefact),
         x.id = NoId, FreshKeys(book, artefact), ~book.recurs
  PROVE  FreshKeys(next, artefact) /\ ~next.recurs
  <1>0. /\ book.rows \in Seq(Row) /\ DOMAIN book.rows = 1..Len(book.rows) /\ Len(book.rows) \in Nat
        /\ \A k \in DOMAIN book.rows : book.rows[k] \in Row /\ Lawful(book.rows[k], settled)
    BY DEF BookOK, Ledger
  <1>1. ASSUME NEW k \in DOMAIN book.rows, NEW r, Joins(book, next, k, r, x, list, artefact, settled)
        PROVE  FreshKeys(next, artefact) /\ ~next.recurs
    <2>1. /\ next.rows = [book.rows EXCEPT ![k] = r] /\ r.born = book.rows[k].born
          /\ r.ids = book.rows[k].ids
      BY <1>1 DEF Joins, Rewrites, Succeeds, Sighting
    <2>2. ~next.recurs
      <3>1. ~NamedBefore(book, k, x, artefact)
        BY DEF NamedBefore
      <3> QED BY <1>1, <3>1, Zenon DEF Joins
    <2>3. /\ DOMAIN next.rows = DOMAIN book.rows
          /\ \A m \in DOMAIN book.rows : next.rows[m] = IF m = k THEN r ELSE book.rows[m]
      BY <2>1
    <2>4. ASSUME r.born[1] = artefact
          PROVE  r.src = "export" /\ r.born[2] = Key(r)
      <3>1. book.rows[k].src = "export" /\ r.born[2] = Key(book.rows[k])
        BY <2>1, <2>4 DEF FreshKeys
      <3>2. x.src = "export" /\ x.status = "booked" /\ book.rows[k].status = "booked"
        BY <1>0, <3>1 DEF Lawful
      <3>3. OnePayment(book, k, x, ContentKey(book.rows[k]) = ContentKey(x))
        BY <1>1 DEF Joins
      <3>4. ContentKey(book.rows[k]) = ContentKey(x)
        BY <3>1, <3>2, <3>3 DEF OnePayment, CouldBeOnePayment, Pending
      <3>5. r.src = "export" /\ ContentKey(r) = ContentKey(x) /\ r.occ = book.rows[k].occ
        BY <1>1, <3>2, <3>4 DEF Joins, Pending
      <3> QED BY <3>1, <3>4, <3>5 DEF Key
    <2>5. FreshKeys(next, artefact)
      BY <2>1, <2>3, <2>4 DEF FreshKeys, Seeing
    <2> QED BY <2>2, <2>5
  <1>2. ASSUME NEW r, Adds(book, next, r, x, list, artefact, settled)
        PROVE  FreshKeys(next, artefact) /\ ~next.recurs
    <2>1. DOMAIN next.rows = 1..(Len(book.rows) + 1)
      BY <1>0, <1>2 DEF Adds, Stands
    <2>2. \A m \in DOMAIN next.rows :
              next.rows[m] = IF m = Len(book.rows) + 1 THEN r ELSE book.rows[m]
      BY <1>0, <1>2, <2>1 DEF Adds, Stands
    <2>3. r.ids = {} /\ r.src = "export" /\ r.born[2] = Key(r)
      BY <1>2 DEF Adds, Stands, Lawful
    <2>4. FreshKeys(next, artefact)
      BY <1>0, <2>1, <2>2, <2>3 DEF FreshKeys, Seeing
    <2>5. ~next.recurs
      BY <1>2, Zenon DEF Adds
    <2> QED BY <2>4, <2>5
  <1>3. ASSUME NEW k \in DOMAIN book.rows, NEW r,
               Overwrites(book, next, k, r, x, list, artefact, settled)
        PROVE  FALSE
    <2>1. PICK key : /\ book.rows[k].born[2] = key
                     /\ \A m \in DOMAIN book.rows : Key(book.rows[m]) # key
      BY <1>3 DEF Overwrites
    <2>2. book.rows[k].born[2] = Key(book.rows[k])
      BY <1>3 DEF Overwrites, FreshKeys
    <2> QED BY <2>1, <2>2
  <1> QED BY <1>1, <1>2, <1>3, ReconcileIs
-----------------------------------------------------------------------------
(* The book after each record of a batch is defined, and is that of        *)
(* _reconcile_all: the function of Course exists.                          *)
LEMMA CourseIs ==
  ASSUME NEW start, NEW batch, Len(batch) \in Nat, NEW list, NEW artefact
  PROVE  LET book == Course(start, batch, list, artefact)
             plan == PlanPartners(start, batch)
         IN /\ book[0] = start
            /\ \A n \in 1..Len(batch) :
                   book[n] = Reconcile(book[n - 1], batch[n], n, plan, list, artefact)
  <1> DEFINE N == Len(batch)
             After(b, n) == Reconcile(b, batch[n], n, PlanPartners(start, batch), list, artefact)
             P(f, m) == f = [n \in 0..m |-> IF n = 0 THEN start ELSE After(f[n - 1], n)]
             S == {m \in 0..N : \E f : P(f, m)}
  <1> HIDE DEF After
  <1>1. 0 \in S
    <2>1. P([n \in 0..0 |-> start], 0)
      OBVIOUS
    <2> HIDE DEF P
    <2> QED BY <2>1
  <1>2. ASSUME NEW m \in 1..N, m - 1 \in S PROVE m \in S
    <2>1. PICK f : P(f, m - 1)
      BY <1>2
    <2> DEFINE g == [n \in 0..m |-> IF n < m THEN f[n] ELSE After(f[m - 1], m)]
    <2>2. \A n \in 0..m : g[n] = IF n = 0 THEN start ELSE After(g[n - 1], n)
      <3> SUFFICES ASSUME NEW n \in 0..m PROVE g[n] = IF n = 0 THEN start ELSE After(g[n - 1], n)
        OBVIOUS
      <3>1. CASE n = m
        BY <3>1
      <3>2. CASE n # m
        <4>1. n \in 0..(m - 1) /\ g[n] = f[n] BY <3>2
        <4>2. n # 0 => n - 1 \in 0..(m - 1) /\ g[n - 1] = f[n - 1] BY <3>2
        <4>3. f[n] = IF n = 0 THEN start ELSE After(f[n - 1], n) BY <2>1, <4>1
        <4> QED BY <4>1, <4>2, <4>3
      <3> QED BY <3>1, <3>2
    <2>3. P(g, m)
      <3>1. g = [n \in 0..m |-> g[n]] OBVIOUS
      <3> HIDE DEF g
      <3> QED BY <2>2, <3>1
    <2> HIDE DEF P, g
    <2> QED BY <2>3
  <1>3. \E f : P(f, N)
    <2>1. 0..N \subseteq S
      <3> HIDE DEF S
      <3> QED BY <1>1, <1>2, StepByStep
    <2>2. N \in S BY <2>1
    <2> QED BY <2>2
  <1>4. Course(start, batch, list, artefact) = CHOOSE f : P(f, N)
    BY DEF Course, After
  <1>5. P(CHOOSE f : P(f, N), N)
    <2> HIDE DEF P
    <2> QED BY <1>3
  <1> DEFINE book == Course(start, batch, list, artefact)
  <1>6. P(book, N)
    <2> HIDE DEF P
    <2> QED BY <1>4, <1>5
  <1>7. book[0] = start /\ \A n \in 1..N : book[n] = After(book[n - 1], n)
    <2> HIDE DEF book
    <2> QED BY <1>6
  <1> QED BY <1>7 DEF After
(* Growing is transitive.                                                  *)
LEMMA GrownOn ==
  ASSUME NEW old \in Seq(Row), NEW mid \in Seq(Row), NEW new \in Seq(Row), NEW before, NEW after,
         Grown(old, mid, before), Grown(mid, new, after), before => after
  PROVE  Grown(old, new, after)
  <1>1. Len(old) <= Len(mid) /\ Len(mid) <= Len(new)
    BY DEF Grown
  <1>2. Len(old) <= Len(new) /\ DOMAIN old \subseteq DOMAIN mid
    BY <1>1
  <1>3. ASSUME NEW k \in DOMAIN old
        PROVE  /\ old[k].ids \subseteq new[k].ids
               /\ ~after /\ old[k].status = "booked" => new[k].status = "booked"
    <2>1. /\ old[k].ids \subseteq mid[k].ids
          /\ ~before /\ old[k].status = "booked" => mid[k].status = "booked"
      BY DEF Grown
    <2>2. /\ mid[k].ids \subseteq new[k].ids
          /\ ~after /\ mid[k].status = "booked" => new[k].status = "booked"
      BY <1>2 DEF Grown
    <2> QED BY <2>1, <2>2
  <1> QED BY <1>2, <1>3 DEF Grown

(* A batch of lawful records: all without ids, or all under different      *)
(* ones.                                                                   *)
Batch(batch, settled) ==
    /\ batch \in Seq(Record) /\ \A n \in DOMAIN batch : Lawful(batch[n], settled)
    /\ \/ \A n \in DOMAIN batch : batch[n].id = NoId
       \/ \A n \in DOMAIN batch : /\ batch[n].id # NoId
                                  /\ \A m \in DOMAIN batch : m # n => batch[m].id # batch[n].id

(* Nothing has recurred in a batch whose artefact was never reconciled.    *)
Fresh(book, batch, artefact, n) ==
    /\ ~book.recurs
    /\ \/ FreshIds(book, artefact, {batch[m].id : m \in 1..n}) /\ \A m \in DOMAIN batch : batch[m].id # NoId
       \/ FreshKeys(book, artefact) /\ \A m \in DOMAIN batch : batch[m].id = NoId

(* What holds after n records of a batch.                                  *)
Underway(start, book, batch, artefact, settled, n) ==
    /\ BookOK(book, settled)
    /\ Grown(start.rows, book.rows, book.recurs)
    /\ ~book.recurs => Answering(book) /\ (Known(start.rows) => Known(book.rows))
    /\ \A stamps : Stamped(start.rows, stamps) => Stamped(book.rows, stamps \cup {artefact})
    /\ Named(start.rows) /\ (\A m \in DOMAIN batch : batch[m].id # NoId) => Named(book.rows)
    /\ ~book.recurs => \A m \in 1..n : batch[m].id # NoId => \E k \in DOMAIN book.rows : Answers(book, k, batch[m])
    /\ \A stamps : Stamped(start.rows, stamps) /\ artefact \notin stamps => Fresh(book, batch, artefact, n)

(* It holds after all of them.                                             *)
LEMMA CourseRight ==
  ASSUME NEW settled, NEW start, BookOK(start, settled), ~start.recurs,
         \A k \in DOMAIN start.rows : start.claims[k] = NoId,
         NEW batch, Batch(batch, settled), NEW list \in Lists, NEW artefact \in Nat
  PROVE  Underway(start, Course(start, batch, list, artefact)[Len(batch)], batch, artefact, settled, Len(batch))
  <1> DEFINE N == Len(batch)
             book == Course(start, batch, list, artefact)
             S == {n \in 0..N : Underway(start, book[n], batch, artefact, settled, n)}
  <1>1. N \in Nat /\ DOMAIN batch = 1..N
    BY DEF Batch
  <1>2. /\ book[0] = start
        /\ \A n \in 1..N : book[n] = Reconcile(book[n - 1], batch[n], n, PlanPartners(start, batch), list, artefact)
    BY <1>1, CourseIs
  <1> HIDE DEF book
  <1>3. 0 \in S
    <2>1. Grown(start.rows, start.rows, start.recurs)
      BY DEF Grown, BookOK, Ledger
    <2>2. Answering(start)
      BY DEF Answering
    <2>3. \A stamps : Stamped(start.rows, stamps) => Stamped(start.rows, stamps \cup {artefact})
      BY DEF Stamped
    <2>4. ASSUME NEW stamps, Stamped(start.rows, stamps), artefact \notin stamps
          PROVE  Fresh(start, batch, artefact, 0)
      <3>1. \A k \in DOMAIN start.rows : ~Seeing(start.rows[k], artefact) /\ start.rows[k].born[1] # artefact
        BY <2>4 DEF Seeing, Stamped
      <3>2. FreshKeys(start, artefact) /\ FreshIds(start, artefact, {batch[m].id : m \in 1..0})
        BY <3>1 DEF FreshKeys, FreshIds
      <3>3. \/ \A m \in DOMAIN batch : batch[m].id # NoId
            \/ \A m \in DOMAIN batch : batch[m].id = NoId
        BY DEF Batch
      <3> QED BY <3>2, <3>3 DEF Fresh
    <2>5. Underway(start, start, batch, artefact, settled, 0)
      BY <2>1, <2>2, <2>3, <2>4 DEF Underway
    <2> QED BY <1>1, <1>2, <2>5
  <1>4. ASSUME NEW n \in 1..N, n - 1 \in S PROVE n \in S
    <2> DEFINE b == book[n - 1]
               next == book[n]
               x == batch[n]
               plan == PlanPartners(start, batch)
    <2>1. next = Reconcile(b, x, n, plan, list, artefact)
      BY <1>2
    <2>2. Underway(start, b, batch, artefact, settled, n - 1)
      BY <1>4
    <2>3. BookOK(b, settled) /\ BookOK(start, settled)
      BY <2>2 DEF Underway
    <2>4. x \in Record /\ Lawful(x, settled)
      BY <1>1 DEF Batch
    <2> HIDE DEF b, next, x, plan
    <2>5. BookOK(next, settled)
      BY <2>1, <2>3, <2>4, StepOK
    <2>6. /\ Grown(b.rows, next.rows, next.recurs)
          /\ b.recurs => next.recurs
          /\ \A stamps : Stamped(b.rows, stamps) => Stamped(next.rows, stamps \cup {artefact})
          /\ Named(b.rows) /\ x.id # NoId => Named(next.rows)
      <3>1. Grows(b, next, x, artefact)
        BY <2>1, <2>3, <2>4, StepGrows
      <3> QED BY <3>1 DEF Grows
    <2>7. Grown(start.rows, next.rows, next.recurs)
      <3>1. start.rows \in Seq(Row) /\ b.rows \in Seq(Row) /\ next.rows \in Seq(Row)
        BY <2>3, <2>5 DEF BookOK, Ledger
      <3>2. Grown(start.rows, b.rows, b.recurs)
        BY <2>2 DEF Underway
      <3>3. b.recurs => next.recurs
        BY <2>6
      <3>4. Grown(b.rows, next.rows, next.recurs)
        BY <2>6
      <3> QED BY <3>1, <3>2, <3>3, <3>4, GrownOn
    <2>8. ASSUME ~next.recurs
          PROVE  Answering(next) /\ (Known(start.rows) => Known(next.rows))
      <3>1. Answering(b) /\ (Known(start.rows) => Known(b.rows))
        BY <2>2, <2>6, <2>8 DEF Underway
      <3>2. Answering(next) /\ (Known(b.rows) => Known(next.rows))
        BY <2>1, <2>3, <2>4, <2>8, <3>1, StepKnows
      <3> QED BY <3>1, <3>2
    <2>9. ASSUME NEW stamps, Stamped(start.rows, stamps)
          PROVE  Stamped(next.rows, stamps \cup {artefact})
      <3>1. Stamped(b.rows, stamps \cup {artefact})
        BY <2>2, <2>9 DEF Underway
      <3>2. Stamped(next.rows, (stamps \cup {artefact}) \cup {artefact})
        BY <2>6, <3>1
      <3>3. (stamps \cup {artefact}) \cup {artefact} = stamps \cup {artefact}
        OBVIOUS
      <3> QED BY <3>2, <3>3
    <2>10. ASSUME ~next.recurs, NEW m \in 1..n, batch[m].id # NoId
           PROVE  \E k \in DOMAIN next.rows : Answers(next, k, batch[m])
      <3>1. x.id # NoId /\ (m # n => batch[m].id # x.id)
        BY <1>1, <2>10 DEF Batch, x
      <3>2. Owns(b, next, x)
        BY <2>1, <2>3, <2>4, <2>10, <3>1, StepOwns
      <3>3. CASE m = n
        BY <3>2, <3>3 DEF x, Owns
      <3>4. CASE m # n
        <4>1. PICK k \in DOMAIN b.rows : Answers(b, k, batch[m])
          <5>1. m \in 1..(n - 1) /\ ~b.recurs
            BY <2>6, <2>10, <3>4
          <5> QED BY <2>2, <2>10, <5>1 DEF Underway
        <4> QED BY <2>10, <3>1, <3>2, <3>4, <4>1 DEF Owns
      <3> QED BY <3>3, <3>4
    <2>11. ASSUME NEW stamps, Stamped(start.rows, stamps), artefact \notin stamps
           PROVE  Fresh(next, batch, artefact, n)
      <3>1. Fresh(b, batch, artefact, n - 1)
        BY <2>2, <2>11 DEF Underway
      <3>2. CASE x.id = NoId
        <4>1. FreshKeys(b, artefact) /\ ~b.recurs /\ \A m \in DOMAIN batch : batch[m].id = NoId
          BY <1>1, <3>1, <3>2 DEF Fresh, x
        <4>2. FreshKeys(next, artefact) /\ ~next.recurs
          BY <2>1, <2>3, <2>4, <3>2, <4>1, StepFreshKeys
        <4> QED BY <4>1, <4>2 DEF Fresh
      <3>3. CASE x.id # NoId
        <4> DEFINE heard == {batch[m].id : m \in 1..(n - 1)}
        <4>1. FreshIds(b, artefact, heard) /\ ~b.recurs /\ \A m \in DOMAIN batch : batch[m].id # NoId
          BY <1>1, <3>1, <3>3 DEF Fresh, x
        <4>2. x.id \notin heard
          BY <1>1, <3>3 DEF Batch, x
        <4> DEFINE since == {batch[m].id : m \in 1..n}
        <4>3. since = heard \cup {x.id}
          BY <1>1 DEF x
        <4> HIDE DEF heard, since
        <4>4. FreshIds(next, artefact, since) /\ ~next.recurs
          BY <2>1, <2>3, <2>4, <3>3, <4>1, <4>2, <4>3, StepFreshIds
        <4> QED BY <4>1, <4>4 DEF Fresh, since
      <3> QED BY <3>2, <3>3
    <2>12. Named(start.rows) /\ (\A m \in DOMAIN batch : batch[m].id # NoId) => Named(next.rows)
      BY <1>1, <2>2, <2>6 DEF Underway, x
    <2>13. Underway(start, next, batch, artefact, settled, n)
      BY <2>5, <2>7, <2>8, <2>9, <2>10, <2>11, <2>12 DEF Underway
    <2> QED BY <2>13 DEF next
  <1>5. 0..N \subseteq S
    <2> HIDE DEF S, N
    <2> QED BY <1>1, <1>3, <1>4, StepByStep
  <1>6. N \in S
    BY <1>1, <1>5
  <1> QED BY <1>6 DEF book
-----------------------------------------------------------------------------
(* An item of an answer.                                                   *)
Items == [id : Ids, amt : Amounts, day : Int, word : Words]

(* An answer a source may give: ids exactly where it states them, none     *)
(* twice, and booked ones of settled payments.                             *)
Answer(list, items, settled) ==
    /\ list \in Lists
    /\ items \in Seq(Items)
    /\ \A n \in DOMAIN items :
           /\ list = "export" <=> items[n].id = NoId
           /\ list = "booked" => items[n].id \in settled
           /\ list # "export" => \A m \in DOMAIN items : m # n => items[m].id # items[n].id

(* Each item has a row of its own, sighted under its id, booked if the     *)
(* list is the booked one.                                                 *)
RowsFor(items, rowsOf, list) ==
    \E row \in [DOMAIN items -> DOMAIN rowsOf] :
        /\ \A m, n \in DOMAIN items : m # n => row[m] # row[n]
        /\ \A n \in DOMAIN items :
               /\ \E sighting \in rowsOf[row[n]].ids : sighting.id = items[n].id
               /\ rowsOf[row[n]].status # "void"
               /\ list = "booked" => rowsOf[row[n]].status = "booked"

(* What reconcile_batch makes of an answer.                                *)
Reconciled(old, result, list, items, artefact, settled) ==
    /\ result.fits \in BOOLEAN /\ result.recurs \in BOOLEAN
    /\ Ledger(result.rows, settled) /\ KeysApart(result.rows)
    /\ result.fits => Distinct(result.rows)
    /\ Grown(old, result.rows, result.recurs)
    /\ ~result.recurs /\ Known(old) => Known(result.rows)
    /\ \A stamps : Stamped(old, stamps) => Stamped(result.rows, stamps \cup {artefact})
    /\ \A stamps : Stamped(old, stamps) /\ artefact \notin stamps => ~result.recurs
    /\ Named(old) /\ list # "export" => Named(result.rows)
    /\ ~result.recurs /\ list # "export" => RowsFor(items, result.rows, list)

(* An answer becomes a batch.                                              *)
LEMMA RecordsAre ==
  ASSUME NEW settled, NEW list, NEW items, Answer(list, items, settled),
         NEW batch, batch = Numbered(Records(list, items))
  PROVE  /\ Batch(batch, settled) /\ Len(batch) = Len(items) /\ Len(items) \in Nat
         /\ DOMAIN batch = DOMAIN items /\ Len(Records(list, items)) = Len(items)
         /\ \A n \in DOMAIN items : /\ batch[n].id = items[n].id
                                    /\ list = "booked" => batch[n].status = "booked"
  <1> DEFINE N == Len(items)
             records == Records(list, items)
             status == IF list = "pending" THEN "pending" ELSE "booked"
             before(n) == {m \in 1..(n - 1) : ContentKey(records[m]) = ContentKey(records[n])}
  <1>1. N \in Nat /\ DOMAIN items = 1..N
    BY DEF Answer
  <1>2. Source(list) \in Sources /\ status \in {"pending", "booked"}
    BY DEF Source, Sources, Words
  <1>3. records = [n \in 1..N |-> [id |-> items[n].id, amt |-> items[n].amt, day |-> items[n].day,
                                   word |-> items[n].word, src |-> Source(list), status |-> status, occ |-> 0]]
    BY <1>1 DEF Records
  <1> HIDE DEF N, status, records
  <1>4. \A n \in 1..N : items[n] \in Items
    <2>1. items \in Seq(Items) BY DEF Answer
    <2> QED BY <1>1, <2>1
  <1>5. \A n \in 1..N : records[n] \in Record
    <2> SUFFICES ASSUME NEW n \in 1..N PROVE records[n] \in Record
      OBVIOUS
    <2>1. items[n].id \in Ids /\ items[n].amt \in Amounts /\ items[n].day \in Int /\ items[n].word \in Words
      BY <1>4 DEF Items
    <2> QED BY <1>2, <1>3, <2>1 DEF Record
  <1>6. DOMAIN records = 1..N /\ Len(records) = N
    BY <1>1, <1>3
  <1>7. ASSUME NEW n \in 1..N PROVE Cardinality(before(n)) \in Nat
    <2>1. n - 1 \in Int /\ 1 \in Int /\ before(n) \in SUBSET (1..(n - 1))
      OBVIOUS
    <2> HIDE DEF before
    <2>2. IsFiniteSet(1..(n - 1))
      BY <2>1, FS_Interval
    <2>3. IsFiniteSet(before(n))
      BY <2>1, <2>2, FS_Subset
    <2> QED BY <2>3, FS_CardinalityType
  <1>8. batch = [n \in 1..N |-> [records[n] EXCEPT !.occ = Cardinality(before(n))]]
    BY <1>6 DEF Numbered, records
  <1> HIDE DEF before
  <1>9. ASSUME NEW n \in 1..N
        PROVE  /\ batch[n] \in Record /\ batch[n].id = items[n].id
               /\ batch[n].src = Source(list) /\ batch[n].status = status
    <2>1. batch[n] = [records[n] EXCEPT !.occ = Cardinality(before(n))]
      BY <1>8
    <2>2. records[n] \in Record /\ Cardinality(before(n)) \in Nat
      BY <1>5, <1>7
    <2>3. /\ batch[n] \in Record /\ batch[n].id = records[n].id
          /\ batch[n].src = records[n].src /\ batch[n].status = records[n].status
      <3> DEFINE c == Cardinality(before(n))
                 r == records[n]
      <3> HIDE DEF c, r
      <3>1. r \in Record /\ c \in Nat /\ batch[n] = [r EXCEPT !.occ = c]
        BY <2>1, <2>2 DEF c, r
      <3>2. /\ batch[n] \in Record /\ batch[n].id = r.id
            /\ batch[n].src = r.src /\ batch[n].status = r.status
        BY <3>1 DEF Record
      <3> QED BY <3>2 DEF r
    <2> QED BY <1>3, <2>3
  <1>10. DOMAIN batch = 1..N /\ Len(batch) = N /\ batch \in Seq(Record)
    <2>1. batch = [n \in 1..N |-> batch[n]] BY <1>8
    <2>2. \A n \in 1..N : batch[n] \in Record BY <1>9
    <2> QED BY <1>1, <2>1, <2>2
  <1>11. ASSUME NEW n \in 1..N PROVE Lawful(batch[n], settled)
    <2>1. /\ list = "export" <=> items[n].id = NoId
          /\ list = "booked" => items[n].id \in settled
          /\ list \in Lists
      BY <1>1 DEF Answer
    <2> QED BY <1>9, <2>1 DEF Lawful, Source, status, Lists
  <1>12. \/ \A n \in DOMAIN batch : batch[n].id = NoId
         \/ \A n \in DOMAIN batch : /\ batch[n].id # NoId
                                    /\ \A m \in DOMAIN batch : m # n => batch[m].id # batch[n].id
    <2>1. CASE list = "export"
      BY <1>1, <1>9, <1>10, <2>1 DEF Answer
    <2>2. CASE list # "export"
      <3>1. \A n \in 1..N : /\ items[n].id # NoId
                            /\ \A m \in 1..N : m # n => items[m].id # items[n].id
        BY <1>1, <2>2 DEF Answer
      <3>2. \A n \in 1..N : batch[n].id = items[n].id
        BY <1>9
      <3> QED BY <1>10, <3>1, <3>2
    <2> QED BY <2>1, <2>2
  <1>13. Batch(batch, settled)
    BY <1>10, <1>11, <1>12 DEF Batch
  <1> QED BY <1>1, <1>6, <1>9, <1>10, <1>13 DEF N, records, status

(* An answer reconciled with sound rows leaves them sound, each item with  *)
(* a row of its own; and where the artefact was never reconciled, nothing  *)
(* recurs.                                                                 *)
LEMMA BatchRight ==
  ASSUME NEW settled, NEW old, Ledger(old, settled), KeysApart(old), Distinct(old),
         NEW order, NEW list, NEW items, Answer(list, items, settled), NEW artefact \in Nat,
         NEW result, result = ReconcileBatch(old, order, Records(list, items), list, artefact)
  PROVE  Reconciled(old, result, list, items, artefact, settled)
  <1> DEFINE batch == Numbered(Records(list, items))
             loaded == [rows |-> old, order |-> order, claims |-> [k \in DOMAIN old |-> NoId],
                        fits |-> TRUE, recurs |-> FALSE, tied |-> FALSE]
             tied == PlanTied(loaded, batch)
             start == [loaded EXCEPT !.tied = tied]
  <1>1. /\ Batch(batch, settled) /\ Len(batch) = Len(items) /\ Len(items) \in Nat
        /\ DOMAIN batch = DOMAIN items /\ Len(Records(list, items)) = Len(items)
        /\ \A n \in DOMAIN items : /\ batch[n].id = items[n].id
                                   /\ list = "booked" => batch[n].status = "booked"
    BY RecordsAre
  <1> HIDE DEF batch, tied
  <1>2. result = Course(start, batch, list, artefact)[Len(batch)]
    BY <1>1 DEF ReconcileBatch, batch, tied
  <1>3. start.rows = old /\ start.claims = [k \in DOMAIN old |-> NoId] /\ start.fits /\ ~start.recurs
    OBVIOUS
  <1>4. start.fits \in BOOLEAN /\ start.recurs \in BOOLEAN
    OBVIOUS
  <1> HIDE DEF start
  <1>5. BookOK(start, settled) /\ \A k \in DOMAIN start.rows : start.claims[k] = NoId
    <2>1. old \in Seq(Row) /\ NoId \in Ids
      BY DEF Ledger, Ids
    <2>2. start.claims \in Seq(Ids) /\ Len(start.claims) = Len(old)
      BY <1>3, <2>1
    <2> QED BY <1>3, <1>4, <2>2 DEF BookOK
  <1>6. list \in Lists
    BY DEF Answer
  <1>7. Underway(start, result, batch, artefact, settled, Len(batch))
    BY <1>1, <1>2, <1>3, <1>5, <1>6, CourseRight
  <1>8. BookOK(result, settled)
    BY <1>7 DEF Underway
  <1>9. /\ result.fits \in BOOLEAN /\ result.recurs \in BOOLEAN
        /\ Ledger(result.rows, settled) /\ KeysApart(result.rows)
        /\ result.fits => Distinct(result.rows)
    BY <1>8, Zenon DEF BookOK
  <1>10. Grown(old, result.rows, result.recurs) /\ (~result.recurs /\ Known(old) => Known(result.rows))
    BY <1>3, <1>7 DEF Underway
  <1>11. /\ \A stamps : Stamped(old, stamps) => Stamped(result.rows, stamps \cup {artefact})
         /\ \A stamps : Stamped(old, stamps) /\ artefact \notin stamps => ~result.recurs
    BY <1>3, <1>7 DEF Underway, Fresh
  <1>12. ASSUME ~result.recurs, list # "export"
         PROVE  RowsFor(items, result.rows, list)
    <2> DEFINE row == [n \in DOMAIN items |-> CHOOSE k \in DOMAIN result.rows : Answers(result, k, batch[n])]
    <2>1. ASSUME NEW n \in DOMAIN items
          PROVE  /\ batch[n].id = items[n].id /\ items[n].id # NoId
                 /\ row[n] \in DOMAIN result.rows /\ Answers(result, row[n], batch[n])
      <3>1. batch[n].id = items[n].id /\ items[n].id # NoId
        BY <1>1, <1>12 DEF Answer
      <3>2. n \in 1..Len(batch)
        BY <1>1 DEF Answer
      <3>3. \E k \in DOMAIN result.rows : Answers(result, k, batch[n])
        BY <1>7, <1>12, <3>1, <3>2 DEF Underway
      <3> QED BY <3>1, <3>3
    <2>2. Answering(result)
      BY <1>7, <1>12 DEF Underway
    <2>3. \A m, n \in DOMAIN items : m # n => items[m].id # items[n].id
      BY <1>12 DEF Answer
    <2> HIDE DEF row
    <2>4. row \in [DOMAIN items -> DOMAIN result.rows]
      BY <2>1 DEF row
    <2>5. \A m, n \in DOMAIN items : m # n => row[m] # row[n]
      BY <2>1, <2>3 DEF Answers
    <2>6. ASSUME NEW n \in DOMAIN items
          PROVE  /\ \E sighting \in result.rows[row[n]].ids : sighting.id = items[n].id
                 /\ result.rows[row[n]].status # "void"
                 /\ list = "booked" => result.rows[row[n]].status = "booked"
      <3>1. Answers(result, row[n], batch[n]) /\ row[n] \in DOMAIN result.rows
            /\ batch[n].id = items[n].id /\ items[n].id # NoId
        BY <2>1
      <3>2. list = "booked" => batch[n].status = "booked"
        BY <1>1
      <3> QED BY <2>2, <3>1, <3>2 DEF Answers, Answering
    <2> QED BY <2>4, <2>5, <2>6 DEF RowsFor
  <1>13. Named(old) /\ list # "export" => Named(result.rows)
    BY <1>1, <1>3, <1>7 DEF Underway, Answer
  <1> QED BY <1>9, <1>10, <1>11, <1>12, <1>13, Zenon DEF Reconciled
-----------------------------------------------------------------------------
(* The rows between two batches: lawful, and told apart by key and by id.  *)
Sound(rowsOf, settled) == Ledger(rowsOf, settled) /\ KeysApart(rowsOf) /\ Distinct(rowsOf)

(* From old to new: rows made void.                                        *)
Voided(old, new) ==
    /\ Len(new) = Len(old)
    /\ Known(old) => Known(new)
    /\ \A stamps : Stamped(old, stamps) => Stamped(new, stamps)
    /\ Named(old) => Named(new)
    /\ \A k \in DOMAIN old : old[k].status = "booked" => new[k].status = "booked"

(* resolve_vanished_pending makes rows void and leaves them sound.         *)
LEMMA VanishRight ==
  ASSUME NEW settled, NEW old, Sound(old, settled), NEW present,
         NEW new, new = ResolveVanished(old, present)
  PROVE  Sound(new, settled) /\ Voided(old, new)
  <1>0. old \in Seq(Row) /\ DOMAIN old = 1..Len(old) /\ Len(old) \in Nat
    BY DEF Sound, Ledger
  <1>1. DOMAIN new = DOMAIN old /\ Len(new) = Len(old)
    BY <1>0 DEF ResolveVanished
  <1>2. ASSUME NEW k \in DOMAIN old
        PROVE  /\ new[k] \in Row /\ Lawful(new[k], settled)
               /\ new[k].id = old[k].id /\ new[k].ids = old[k].ids /\ new[k].born = old[k].born
               /\ Key(new[k]) = Key(old[k])
               /\ old[k].status = "booked" => new[k].status = "booked"
    <2> DEFINE r == old[k]
    <2>1. r \in Row /\ Lawful(r, settled)
      BY DEF Sound, Ledger
    <2>2. new[k] = IF Pending(r) /\ r.id \notin present THEN [r EXCEPT !.status = "void"] ELSE r
      BY DEF ResolveVanished
    <2> HIDE DEF r
    <2>3. CASE Pending(r) /\ r.id \notin present
      <3>1. new[k] = [r EXCEPT !.status = "void"]
        BY <2>2, <2>3
      <3>2. /\ new[k] \in Row /\ new[k].id = r.id /\ new[k].ids = r.ids /\ new[k].born = r.born
            /\ new[k].src = r.src /\ new[k].status = "void" /\ new[k].amt = r.amt
            /\ new[k].day = r.day /\ new[k].word = r.word /\ new[k].occ = r.occ
        BY <2>1, <3>1 DEF Row
      <3> QED BY <2>1, <2>3, <3>2 DEF Lawful, Pending, Key, ContentKey, r
    <2>4. CASE ~(Pending(r) /\ r.id \notin present)
      BY <2>1, <2>2, <2>4 DEF r
    <2> QED BY <2>3, <2>4
  <1>3. new \in Seq(Row)
    <2>1. new = [k \in 1..Len(old) |-> new[k]]
      BY <1>0 DEF ResolveVanished
    <2> QED BY <1>0, <1>2, <2>1
  <1>4. Ledger(new, settled)
    BY <1>1, <1>2, <1>3 DEF Ledger
  <1>5. KeysApart(new)
    BY <1>1, <1>2 DEF KeysApart, Sound
  <1>6. Distinct(new)
    BY <1>1, <1>2 DEF Distinct, Sound
  <1>7. (Known(old) => Known(new)) /\ (Named(old) => Named(new))
    BY <1>1, <1>2 DEF Known, Named
  <1>8. \A stamps : Stamped(old, stamps) => Stamped(new, stamps)
    BY <1>1, <1>2 DEF Stamped
  <1> QED BY <1>1, <1>2, <1>4, <1>5, <1>6, <1>7, <1>8 DEF Sound, Voided
-----------------------------------------------------------------------------
(* Payments that settle take nothing from rows or answers.                 *)
LEMMA SettledOnly ==
  ASSUME NEW settled, NEW since, settled \subseteq since
  PROVE  /\ \A rowsOf : Sound(rowsOf, settled) => Sound(rowsOf, since)
         /\ \A list, items : Answer(list, items, settled) => Answer(list, items, since)
  BY DEF Sound, Ledger, Lawful, Answer

(* The artefacts are answers a source may have given.                      *)
Answered(artefacts, settled) ==
    /\ artefacts \in Seq([list : Lists, items : Seq(Items)])
    /\ \A n \in DOMAIN artefacts : Answer(artefacts[n].list, artefacts[n].items, settled)

(* The store after each artefact of a replay is defined: the function of   *)
(* Replay exists.                                                          *)
LEMMA ReplayIs ==
  ASSUME NEW artefacts, Len(artefacts) \in Nat
  PROVE  \E store :
            /\ Replay(artefacts) = store[Len(artefacts)]
            /\ store[0] = [rows |-> <<>>, order |-> {}, fits |-> TRUE]
            /\ \A n \in 1..Len(artefacts) : store[n] = Replayed(store[n - 1], artefacts[n], n)
  <1> DEFINE N == Len(artefacts)
             start == [rows |-> <<>>, order |-> {}, fits |-> TRUE]
             After(b, n) == Replayed(b, artefacts[n], n)
             P(f, m) == f = [n \in 0..m |-> IF n = 0 THEN start ELSE After(f[n - 1], n)]
             S == {m \in 0..N : \E f : P(f, m)}
  <1> HIDE DEF After, start
  <1>1. 0 \in S
    <2>1. P([n \in 0..0 |-> start], 0)
      OBVIOUS
    <2> HIDE DEF P
    <2> QED BY <2>1
  <1>2. ASSUME NEW m \in 1..N, m - 1 \in S PROVE m \in S
    <2>1. PICK f : P(f, m - 1)
      BY <1>2
    <2> DEFINE g == [n \in 0..m |-> IF n < m THEN f[n] ELSE After(f[m - 1], m)]
    <2>2. \A n \in 0..m : g[n] = IF n = 0 THEN start ELSE After(g[n - 1], n)
      <3> SUFFICES ASSUME NEW n \in 0..m PROVE g[n] = IF n = 0 THEN start ELSE After(g[n - 1], n)
        OBVIOUS
      <3>1. CASE n = m
        BY <3>1
      <3>2. CASE n # m
        <4>1. n \in 0..(m - 1) /\ g[n] = f[n] BY <3>2
        <4>2. n # 0 => n - 1 \in 0..(m - 1) /\ g[n - 1] = f[n - 1] BY <3>2
        <4>3. f[n] = IF n = 0 THEN start ELSE After(f[n - 1], n) BY <2>1, <4>1
        <4> QED BY <4>1, <4>2, <4>3
      <3> QED BY <3>1, <3>2
    <2>3. P(g, m)
      <3>1. g = [n \in 0..m |-> g[n]] OBVIOUS
      <3> HIDE DEF g
      <3> QED BY <2>2, <3>1
    <2> HIDE DEF P, g
    <2> QED BY <2>3
  <1>3. \E f : P(f, N)
    <2>1. 0..N \subseteq S
      <3> HIDE DEF S
      <3> QED BY <1>1, <1>2, StepByStep
    <2>2. N \in S BY <2>1
    <2> QED BY <2>2
  <1> DEFINE store == CHOOSE f : P(f, N)
  <1>4. Replay(artefacts) = store[N]
    BY DEF Replay, After, start
  <1>5. P(store, N)
    <2> HIDE DEF P
    <2> QED BY <1>3
  <1>6. store[0] = start /\ \A n \in 1..N : store[n] = After(store[n - 1], n)
    <2> HIDE DEF store
    <2> QED BY <1>5
  <1> HIDE DEF store
  <1> QED BY <1>4, <1>6 DEF After, start

(* The rows a replay has made of the first n artefacts.                    *)
Rebuilt(rowsOf, n, artefacts, settled) ==
    /\ Sound(rowsOf, settled) /\ Known(rowsOf)
    /\ Stamped(rowsOf, 1..n)
    /\ (\A m \in DOMAIN artefacts : artefacts[m].list # "export") => Named(rowsOf)

(* A replay makes sound rows, in which nothing recurred: each artefact is  *)
(* new to it.                                                              *)
LEMMA ReplayRight ==
  ASSUME NEW settled, NEW artefacts, Answered(artefacts, settled)
  PROVE  Rebuilt(Replay(artefacts).rows, Len(artefacts), artefacts, settled)
  <1> DEFINE N == Len(artefacts)
  <1>1. N \in Nat /\ DOMAIN artefacts = 1..N
    BY DEF Answered
  <1>2. PICK store :
            /\ Replay(artefacts) = store[N]
            /\ store[0] = [rows |-> <<>>, order |-> {}, fits |-> TRUE]
            /\ \A n \in 1..N : store[n] = Replayed(store[n - 1], artefacts[n], n)
    BY <1>1, ReplayIs
  <1> DEFINE S == {n \in 0..N : Rebuilt(store[n].rows, n, artefacts, settled)}
  <1>3. 0 \in S
    <2>1. store[0].rows = <<>>
      BY <1>2
    <2>2. Rebuilt(<<>>, 0, artefacts, settled)
      BY DEF Rebuilt, Sound, Ledger, KeysApart, Distinct, Known, Stamped, Named
    <2> QED BY <1>1, <2>1, <2>2
  <1>4. ASSUME NEW n \in 1..N, n - 1 \in S PROVE n \in S
    <2> DEFINE old == store[n - 1].rows
               a == artefacts[n]
               result == ReconcileBatch(old, store[n - 1].order, Records(a.list, a.items), a.list, n)
               resolved == ResolveVanished(result.rows, {item.id : item \in ToSet(a.items)})
    <2>1. Rebuilt(old, n - 1, artefacts, settled)
      BY <1>4
    <2>2. Answer(a.list, a.items, settled) /\ n \in Nat /\ n \in DOMAIN artefacts
      BY <1>1 DEF Answered
    <2>3. \/ store[n].rows = old
          \/ result.fits /\ store[n].rows = resolved
          \/ result.fits /\ store[n].rows = result.rows
      <3>1. store[n] = Kept(store[n - 1], a, result)
        BY <1>2 DEF Replayed
      <3> HIDE DEF old, result, resolved
      <3> QED BY <3>1 DEF Kept, old, resolved
    <2> HIDE DEF old, result, resolved, a
    <2>4. 1..(n - 1) \cup {n} = 1..n /\ n \notin 1..(n - 1)
      BY <1>1
    <2>5. ASSUME result.fits
          PROVE  Rebuilt(result.rows, n, artefacts, settled)
      <3>1. Ledger(old, settled) /\ KeysApart(old) /\ Distinct(old)
        BY <2>1 DEF Rebuilt, Sound
      <3>2. Reconciled(old, result, a.list, a.items, n, settled)
        BY <2>2, <3>1, BatchRight DEF result
      <3>3. Sound(result.rows, settled)
        BY <2>5, <3>2 DEF Reconciled, Sound
      <3>4. Known(old) /\ Stamped(old, 1..(n - 1))
        BY <2>1 DEF Rebuilt
      <3>5. ~result.recurs /\ Stamped(result.rows, 1..n)
        BY <2>4, <3>2, <3>4 DEF Reconciled
      <3>6. Known(result.rows)
        BY <3>2, <3>4, <3>5 DEF Reconciled
      <3>7. (\A m \in DOMAIN artefacts : artefacts[m].list # "export") => Named(result.rows)
        BY <2>1, <2>2, <3>2 DEF Rebuilt, Reconciled, a
      <3> QED BY <3>3, <3>5, <3>6, <3>7 DEF Rebuilt
    <2>6. CASE store[n].rows = old
      <3>1. Stamped(old, 1..n)
        BY <2>1, <2>4 DEF Rebuilt, Stamped
      <3>2. Rebuilt(old, n, artefacts, settled)
        BY <2>1, <3>1 DEF Rebuilt
      <3> QED BY <2>6, <3>2
    <2>7. CASE result.fits /\ store[n].rows = resolved
      <3>1. Sound(result.rows, settled)
        BY <2>5, <2>7 DEF Rebuilt
      <3>2. Sound(resolved, settled) /\ Voided(result.rows, resolved)
        BY <3>1, VanishRight DEF resolved
      <3>3. Rebuilt(resolved, n, artefacts, settled)
        BY <2>5, <2>7, <3>2 DEF Rebuilt, Voided
      <3> QED BY <2>7, <3>3
    <2>8. CASE result.fits /\ store[n].rows = result.rows
      BY <2>5, <2>8
    <2> QED BY <2>3, <2>6, <2>7, <2>8
  <1>5. 0..N \subseteq S
    <2> HIDE DEF S, N
    <2> QED BY <1>1, <1>3, <1>4, StepByStep
  <1>6. N \in S
    BY <1>1, <1>5
  <1> QED BY <1>2, <1>6
-----------------------------------------------------------------------------
(* The ids under which the bank lists settled payments.                    *)
BookedIds == {Item(p, "booked").id : p \in Settled}

(* Where an artefact stands among those given (Position, of any sequence). *)
PlaceIn(artefacts, artefact) ==
    LET at == {n \in DOMAIN artefacts : artefacts[n] = artefact}
    IN IF at = {} THEN 0 ELSE Min(at)

(* The types of all variables but the rows, the artefacts and the          *)
(* oddities.                                                               *)
Typed ==
    /\ facts \in [days : [Payments -> Dated], amended : SUBSET Payments,
                  keeps : BOOLEAN, alike : BOOLEAN]
    /\ bank \in [Payments -> {"unheard", "held", "settled", "released"}]
    /\ pc \in {"idle", "booked landed", "booked done", "pending landed", "pending placed"}
    /\ left \in 0..MaxEvents

(* The answer in hand is landed and, unless some answer repeated an        *)
(* earlier one, no row is of it yet.                                       *)
Waiting(list) ==
    LET place == PlaceIn(landed, [list |-> list, items |-> reply]) IN
    /\ Answer(list, reply, BookedIds)
    /\ place \in DOMAIN landed
    /\ "repeat" \notin odd => Stamped(rows, DOMAIN landed \ {place})

(* What holds of rows, artefacts and oddities wherever the pull stands.    *)
Told ==
    /\ Answered(landed, BookedIds)
    /\ Sound(rows, BookedIds)
    /\ NeverRecurred => Known(rows)
    /\ "repeat" \notin odd => NeverRecurred
    /\ Stamped(rows, DOMAIN landed)
    /\ ~Exported => Named(rows)

(* The inductive invariant.                                                *)
RowsInv ==
    /\ Typed /\ Told
    /\ pc = "booked landed" => Waiting("booked")
    /\ pc = "pending landed" => Waiting("pending")
    /\ NeverRecurred /\ pc = "booked done" => RowsFor(reply, rows, "booked")
    /\ NeverRecurred /\ pc = "pending placed" => RowsFor(reply, rows, "pending")

(* An item is typed, and states the id of its payment or none.             *)
LEMMA ItemIs ==
  ASSUME Typed, NEW p \in Payments, NEW list \in Lists
  PROVE  /\ Item(p, list) \in Items
         /\ list = "export" <=> Item(p, list).id = NoId
         /\ list # "export" => Item(p, list).id[1] = p
  <1> DEFINE tag == IF facts.keeps THEN "kept" ELSE list
             id == IF list = "export" THEN NoId ELSE <<p, tag>>
             amt == IF p \in facts.amended /\ list # "pending" THEN "amended" ELSE "held"
             day == facts.days[p][list]
             word == IF facts.alike THEN "same" ELSE Source(list)
  <1>1. Item(p, list) = [id |-> id, amt |-> amt, day |-> day, word |-> word]
    BY DEF Item
  <1>2. day \in Int
    <2>1. facts.days \in [Payments -> Dated]
      BY DEF Typed
    <2>2. facts.days[p] \in [{"pending", "booked", "export"} -> 1..LastDay]
      BY <2>1 DEF Dated
    <2>3. day \in 1..LastDay
      BY <2>2 DEF Lists
    <2> QED BY <2>3
  <1>3. amt \in Amounts /\ word \in Words
    BY DEF Amounts, Words, Source
  <1>4. list # "export" => tag \in {"kept", "pending", "booked"}
    BY DEF Lists
  <1>5. id \in Ids
    BY <1>4 DEF Ids
  <1>6. <<p, tag>> # NoId
    BY DEF NoId
  <1> HIDE DEF id, amt, day, word
  <1>7. Item(p, list) \in Items /\ Item(p, list).id = id
    BY <1>1, <1>2, <1>3, <1>5 DEF Items
  <1> QED BY <1>6, <1>7 DEF id

(* A list of payments, settled ones if it is the booked list, is an        *)
(* answer.                                                                 *)
LEMMA ListingRight ==
  ASSUME Typed, NEW list \in Lists, NEW S \in SUBSET Payments,
         list = "booked" => S \subseteq Settled,
         NEW items \in Listings(S, list)
  PROVE  Answer(list, items, BookedIds)
  <1> DEFINE N == Cardinality(S)
  <1>1. N \in Nat
    BY RowsAssumption, FS_Subset, FS_CardinalityType
  <1> HIDE DEF N
  <1>2. PICK s \in [1..N -> S] : /\ \A i, j \in 1..N : i # j => s[i] # s[j]
                                 /\ items = [n \in 1..N |-> Item(s[n], list)]
    <2>1. PICK s \in SetToSeqs(S) : items = [n \in DOMAIN s |-> Item(s[n], list)]
      BY DEF Listings
    <2>2. s \in [1..N -> S] /\ \A i, j \in 1..N : i # j => s[i] # s[j]
      BY <2>1 DEF SetToSeqs, N
    <2> QED BY <2>1, <2>2
  <1>3. ASSUME NEW n \in 1..N
        PROVE  /\ s[n] \in Payments /\ items[n] = Item(s[n], list) /\ items[n] \in Items
               /\ list = "export" <=> items[n].id = NoId
               /\ list # "export" => items[n].id[1] = s[n]
    BY <1>2, ItemIs
  <1>4. items \in Seq(Items) /\ DOMAIN items = 1..N
    <2>1. items = [n \in 1..N |-> items[n]] BY <1>2
    <2>2. \A n \in 1..N : items[n] \in Items BY <1>3
    <2> QED BY <1>1, <2>1, <2>2
  <1>5. ASSUME list = "booked", NEW n \in 1..N PROVE items[n].id \in BookedIds
    <2>1. s[n] \in Settled BY <1>2, <1>5
    <2> QED BY <1>3, <1>5, <2>1 DEF BookedIds
  <1>6. ASSUME list # "export", NEW m \in 1..N, NEW n \in 1..N, m # n
        PROVE  items[m].id # items[n].id
    <2>1. items[m].id[1] = s[m] /\ items[n].id[1] = s[n] BY <1>3, <1>6
    <2> QED BY <1>2, <1>6, <2>1
  <1> QED BY <1>3, <1>4, <1>5, <1>6 DEF Answer

(* PlaceIn is the first place of an artefact, or 0.                        *)
LEMMA PlaceIs ==
  ASSUME NEW T, NEW artefacts \in Seq(T), NEW artefact
  PROVE  /\ PlaceIn(artefacts, artefact) \in {0} \cup DOMAIN artefacts
         /\ \A n \in DOMAIN artefacts : artefacts[n] = artefact => PlaceIn(artefacts, artefact) # 0
         /\ PlaceIn(artefacts, artefact) # 0 =>
                /\ artefacts[PlaceIn(artefacts, artefact)] = artefact
                /\ \A n \in DOMAIN artefacts : artefacts[n] = artefact => PlaceIn(artefacts, artefact) <= n
  <1> DEFINE at == {n \in DOMAIN artefacts : artefacts[n] = artefact}
  <1>1. at \in SUBSET Nat /\ at \subseteq DOMAIN artefacts /\ 0 \notin at
    OBVIOUS
  <1>2. PlaceIn(artefacts, artefact) = IF at = {} THEN 0 ELSE Min(at)
    BY DEF PlaceIn
  <1>3. CASE at = {}
    BY <1>2, <1>3
  <1>4. CASE at # {}
    <2>1. Min(at) \in at /\ \A n \in at : Min(at) <= n
      <3> HIDE DEF at
      <3> QED BY <1>1, <1>4, MinIn
    <2> QED BY <1>1, <1>2, <1>4, <2>1
  <1> QED BY <1>3, <1>4

(* An artefact landed: the others keep their places.                       *)
Landing(old, new, artefact) ==
    /\ DOMAIN old \subseteq DOMAIN new
    /\ PlaceIn(new, artefact) \in DOMAIN new
    /\ ToSet(new) = ToSet(old) \cup {artefact}
    /\ new # old => /\ PlaceIn(new, artefact) \notin DOMAIN old
                    /\ DOMAIN new = DOMAIN old \cup {PlaceIn(new, artefact)}
    /\ \A other : PlaceIn(old, other) \in DOMAIN old => PlaceIn(new, other) = PlaceIn(old, other)

(* land_artefact lands it once.                                            *)
LEMMA LandedRight ==
  ASSUME NEW settled, Answered(landed, settled),
         NEW list, NEW items, Answer(list, items, settled),
         NEW new, new = Landed(list, items),
         NEW artefact, artefact = [list |-> list, items |-> items]
  PROVE  /\ Answered(new, settled)
         /\ Landing(landed, new, artefact)
         /\ Arrival(artefact) = PlaceIn(new, artefact)
  <1> DEFINE T == [list : Lists, items : Seq(Items)]
  <1>1. landed \in Seq(T) /\ artefact \in T
    BY DEF Answered, Answer
  <1>2. Position(artefact) = PlaceIn(landed, artefact)
    BY DEF Position, PlaceIn
  <1>3. new = IF PlaceIn(landed, artefact) = 0 THEN Append(landed, artefact) ELSE landed
    BY <1>2 DEF Landed
  <1>4. Arrival(artefact) = IF PlaceIn(landed, artefact) = 0 THEN Len(landed) + 1
                            ELSE PlaceIn(landed, artefact)
    BY <1>2 DEF Arrival
  <1>5. CASE PlaceIn(landed, artefact) # 0
    <2>1. new = landed /\ PlaceIn(landed, artefact) \in DOMAIN landed
          /\ landed[PlaceIn(landed, artefact)] = artefact
      BY <1>1, <1>3, <1>5, PlaceIs
    <2>2. artefact \in ToSet(landed)
      BY <2>1 DEF ToSet
    <2> QED BY <1>4, <1>5, <2>1, <2>2 DEF Landing
  <1>6. CASE PlaceIn(landed, artefact) = 0
    <2> DEFINE N == Len(landed)
    <2>1. /\ new = Append(landed, artefact) /\ N \in Nat /\ DOMAIN landed = 1..N
          /\ DOMAIN new = 1..(N + 1) /\ new \in Seq(T) /\ new[N + 1] = artefact
          /\ \A n \in 1..N : new[n] = landed[n]
      <3> HIDE DEF T
      <3> QED BY <1>1, <1>3, <1>6
    <2> HIDE DEF N, T
    <2>2. DOMAIN new = DOMAIN landed \cup {N + 1} /\ N + 1 \notin DOMAIN landed /\ N + 1 # 0
      BY <2>1
    <2>3. \A n \in DOMAIN landed : landed[n] # artefact
      BY <1>1, <1>6, PlaceIs
    <2>4. PlaceIn(new, artefact) = N + 1
      <3>1. PlaceIn(new, artefact) # 0
        <4>1. N + 1 \in DOMAIN new /\ new[N + 1] = artefact
          BY <2>1, <2>2
        <4>2. \A n \in DOMAIN new : new[n] = artefact => PlaceIn(new, artefact) # 0
          BY <2>1, PlaceIs
        <4> QED BY <4>1, <4>2
      <3>2. PlaceIn(new, artefact) \in DOMAIN new /\ new[PlaceIn(new, artefact)] = artefact
        BY <2>1, <3>1, PlaceIs
      <3> QED BY <2>1, <2>2, <2>3, <3>2
    <2>5. ASSUME NEW other, PlaceIn(landed, other) \in DOMAIN landed
          PROVE  PlaceIn(new, other) = PlaceIn(landed, other)
      <3> DEFINE place == PlaceIn(landed, other)
      <3>1. /\ place \in 1..N /\ landed[place] = other
            /\ \A n \in 1..N : landed[n] = other => place <= n
        BY <1>1, <2>1, <2>5, PlaceIs
      <3>2. place \in DOMAIN new /\ new[place] = other
        BY <2>1, <2>2, <3>1
      <3> HIDE DEF place
      <3>3. PlaceIn(new, other) # 0
        BY <2>1, <3>2, PlaceIs
      <3>4. /\ PlaceIn(new, other) \in 1..(N + 1) /\ new[PlaceIn(new, other)] = other
            /\ PlaceIn(new, other) <= place
        BY <2>1, <3>2, <3>3, PlaceIs
      <3>5. PlaceIn(new, other) \in 1..N
        BY <2>1, <3>1, <3>4
      <3>6. place <= PlaceIn(new, other)
        BY <2>1, <3>1, <3>4, <3>5
      <3> QED BY <2>1, <3>1, <3>4, <3>5, <3>6 DEF place
    <2>6. ToSet(new) = ToSet(landed) \cup {artefact}
      BY <2>1, <2>2 DEF ToSet
    <2>7. Answered(new, settled)
      <3>1. \A n \in DOMAIN new : Answer(new[n].list, new[n].items, settled)
        <4>1. artefact.list = list /\ artefact.items = items
          OBVIOUS
        <4> QED BY <2>1, <2>2, <4>1 DEF Answered
      <3> QED BY <2>1, <3>1 DEF Answered, T
    <2>8. Landing(landed, new, artefact)
      BY <2>2, <2>4, <2>5, <2>6 DEF Landing
    <2> QED BY <1>4, <1>6, <2>4, <2>7, <2>8 DEF N
  <1> QED BY <1>5, <1>6
-----------------------------------------------------------------------------
(* The booked ids change only when payments settle.                        *)
LEMMA SameIds ==
  ASSUME UNCHANGED <<facts, bank>>
  PROVE  BookedIds' = BookedIds
  BY DEF BookedIds, Settled, Item

LEMMA InitRight ==
  ASSUME Init
  PROVE  RowsInv
  <1>1. Typed
    <2>1. facts \in [days : [Payments -> Dated], amended : SUBSET Payments,
                     keeps : BOOLEAN, alike : BOOLEAN]
      BY RowsAssumption DEF Init
    <2>2. bank \in [Payments -> {"unheard", "held", "settled", "released"}]
      BY DEF Init
    <2>3. pc = "idle" /\ left \in 0..MaxEvents
      BY RowsAssumption DEF Init
    <2> QED BY <2>1, <2>2, <2>3 DEF Typed
  <1>2. Told
    <2>1. landed = <<>> /\ rows = <<>> /\ odd = {}
      BY DEF Init
    <2>2. Answered(<<>>, BookedIds) /\ Sound(<<>>, BookedIds) /\ Known(<<>>) /\ Named(<<>>)
      BY DEF Answered, Sound, Ledger, KeysApart, Distinct, Known, Named
    <2>3. Stamped(<<>>, DOMAIN <<>>)
      BY DEF Stamped
    <2> QED BY <2>1, <2>2, <2>3 DEF Told, NeverRecurred
  <1>3. pc = "idle"
    BY DEF Init
  <1> QED BY <1>1, <1>2, <1>3 DEF RowsInv

LEMMA BankRight ==
  ASSUME RowsInv, NEW p \in Payments, BankMoves(p)
  PROVE  RowsInv'
  <1>1. /\ UNCHANGED <<facts, landed, rows, pc, reply, left, odd>>
        /\ pc \in {"idle", "booked done"}
    BY DEF BankMoves
  <1>2. PICK to \in {"held", "settled", "released"} :
           /\ bank' = [bank EXCEPT ![p] = to]
           /\ bank[p] = "unheard" \/ (bank[p] = "held" /\ to # "held")
    BY DEF BankMoves
  <1>3. Typed /\ Told
    BY DEF RowsInv
  <1>4. Typed'
    BY <1>1, <1>2, <1>3 DEF Typed
  <1>5. BookedIds \subseteq BookedIds'
    <2>1. \A q \in Payments : bank[q] = "settled" => bank'[q] = "settled"
      BY <1>2, <1>3 DEF Typed
    <2>2. Settled \subseteq Settled'
      BY <2>1 DEF Settled
    <2>3. \A q \in Payments : Item(q, "booked")' = Item(q, "booked")
      BY <1>1 DEF Item
    <2> QED BY <2>2, <2>3 DEF BookedIds, Settled
  <1>6. Told'
    <2>1. Answered(landed, BookedIds) /\ Sound(rows, BookedIds)
      BY <1>3 DEF Told
    <2> DEFINE before == BookedIds
               after == BookedIds'
    <2>2. before \subseteq after /\ Answered(landed, before) /\ Sound(rows, before)
      BY <1>5, <2>1
    <2> HIDE DEF before, after
    <2>3. Answered(landed, after) /\ Sound(rows, after)
      BY <2>2, SettledOnly DEF Answered
    <2>4. Answered(landed, BookedIds)' /\ Sound(rows, BookedIds)'
      BY <1>1, <2>3 DEF after
    <2>5. Exported' = Exported /\ (NeverRecurred' <=> NeverRecurred)
      BY <1>1 DEF Exported, NeverRecurred
    <2> QED BY <1>1, <1>3, <2>4, <2>5 DEF Told
  <1>7. /\ pc' = pc /\ pc \notin {"booked landed", "pending landed", "pending placed"}
        /\ rows' = rows /\ reply' = reply /\ (NeverRecurred' <=> NeverRecurred)
    BY <1>1 DEF NeverRecurred
  <1> QED BY <1>1, <1>4, <1>6, <1>7 DEF RowsInv

LEMMA StopRight ==
  ASSUME RowsInv, PullStops
  PROVE  RowsInv'
  <1>1. /\ UNCHANGED <<facts, bank, landed, rows>>
        /\ pc' = "idle" /\ left' = left - 1 /\ left > 0 /\ odd' = odd \cup {"cut short"}
    BY DEF PullStops
  <1>2. Typed'
    <2>1. Typed /\ left \in 0..MaxEvents /\ MaxEvents \in Nat
      BY RowsAssumption DEF RowsInv, Typed
    <2>2. left > 0 /\ left' = left - 1
      BY <1>1
    <2>3. left \in 0..MaxEvents /\ MaxEvents \in Nat
      BY <2>1
    <2>4. left' \in 0..MaxEvents
      BY <2>2, <2>3
    <2> QED BY <1>1, <2>1, <2>4 DEF Typed
  <1>3. BookedIds' = BookedIds
    BY <1>1, SameIds
  <1>4. /\ NeverRecurred' <=> NeverRecurred
        /\ "repeat" \in odd' <=> "repeat" \in odd
        /\ Exported' <=> Exported
    BY <1>1 DEF NeverRecurred, Exported
  <1>5. Told'
    BY <1>1, <1>3, <1>4 DEF RowsInv, Told
  <1> QED BY <1>1, <1>2, <1>5 DEF RowsInv

(* A question asked and its answer landed.                                 *)
LEMMA AskedRight ==
  ASSUME RowsInv, NEW list \in {"booked", "pending"}, NEW items, Answer(list, items, BookedIds),
         landed' = Landed(list, items), reply' = items, UNCHANGED <<facts, bank, rows>>,
         odd \subseteq odd', "recurs" \in odd' => "recurs" \in odd,
         landed' = landed => "repeat" \in odd'
  PROVE  Told' /\ Waiting(list)'
  <1> DEFINE artefact == [list |-> list, items |-> items]
             B == BookedIds
             place == PlaceIn(landed', artefact)
  <1>1. B = BookedIds'
    BY SameIds
  <1>2. Told /\ Answered(landed, B) /\ Answer(list, items, B)
    BY DEF RowsInv, Told
  <1> HIDE DEF B
  <1>3. Answered(landed', B) /\ Landing(landed, landed', artefact)
    BY <1>2, LandedRight
  <1>4. artefact.list # "export"
    OBVIOUS
  <1> HIDE DEF artefact
  <1>5. Exported' <=> Exported
    <2>1. ToSet(landed') = ToSet(landed) \cup {artefact}
      BY <1>3 DEF Landing
    <2> QED BY <1>4, <2>1 DEF Exported
  <1>6. NeverRecurred' <=> NeverRecurred
    BY DEF NeverRecurred
  <1>7. DOMAIN landed \subseteq DOMAIN landed'
    BY <1>3 DEF Landing
  <1>8. Stamped(rows, DOMAIN landed)
    BY <1>2 DEF Told
  <1>9. Stamped(rows', DOMAIN landed')
    BY <1>7, <1>8 DEF Stamped
  <1>10. Told'
    <2>1. Answered(landed', BookedIds') /\ Sound(rows', BookedIds')
      BY <1>1, <1>2, <1>3 DEF Told, B
    <2> QED BY <1>2, <1>5, <1>6, <1>9, <2>1 DEF Told
  <1>11. "repeat" \notin odd' => Stamped(rows', DOMAIN landed' \ {place})
    <2> SUFFICES ASSUME "repeat" \notin odd' PROVE Stamped(rows', DOMAIN landed' \ {place})
      OBVIOUS
    <2>1. landed' # landed
      OBVIOUS
    <2>2. place \notin DOMAIN landed
      BY <1>3, <2>1 DEF Landing
    <2> HIDE DEF place
    <2>3. DOMAIN landed \subseteq DOMAIN landed' \ {place}
      BY <1>7, <2>2
    <2> QED BY <1>8, <2>3 DEF Stamped
  <1>12. place \in DOMAIN landed'
    BY <1>3 DEF Landing
  <1>13. Waiting(list)'
    <2>1. Answer(list, reply', BookedIds')
      BY <1>1, <1>2
    <2> QED BY <1>11, <1>12, <2>1 DEF Waiting, artefact
  <1> QED BY <1>10, <1>13

LEMMA AskBookedRight ==
  ASSUME RowsInv, AskBooked
  PROVE  RowsInv'
  <1>1. PICK items \in Listings(Settled, "booked") :
           /\ landed' = Landed("booked", items) /\ odd' = odd \cup Repeated /\ reply' = items
    BY DEF AskBooked
  <1>2. /\ UNCHANGED <<facts, bank, rows>> /\ left > 0 /\ left' = left - 1
        /\ pc' = IF reply' = <<>> THEN "booked done" ELSE "booked landed"
    BY DEF AskBooked
  <1>3. Typed'
    <2>1. Typed /\ left \in 0..MaxEvents /\ MaxEvents \in Nat
      BY RowsAssumption DEF RowsInv, Typed
    <2>2. left > 0 /\ left' = left - 1
      BY <1>2
    <2>3. left \in 0..MaxEvents /\ MaxEvents \in Nat
      BY <2>1
    <2>4. left' \in 0..MaxEvents
      BY <2>2, <2>3
    <2>5. pc' \in {"booked done", "booked landed"}
      BY <1>2
    <2> QED BY <1>2, <2>1, <2>4, <2>5 DEF Typed
  <1>4. Answer("booked", items, BookedIds)
    <2>1. Settled \in SUBSET Payments /\ "booked" \in Lists
      BY DEF Settled, Lists
    <2>2. Typed
      BY DEF RowsInv
    <2> QED BY <2>1, <2>2, ListingRight
  <1>5. /\ odd \subseteq odd' /\ ("recurs" \in odd' => "recurs" \in odd)
        /\ (landed' = landed => "repeat" \in odd')
    BY <1>1 DEF Repeated
  <1>6. Told' /\ Waiting("booked")'
    BY <1>1, <1>2, <1>4, <1>5, AskedRight
  <1>7. pc' = "booked done" => RowsFor(reply', rows', "booked")
    <2> SUFFICES ASSUME pc' = "booked done" PROVE RowsFor(reply', rows', "booked")
      OBVIOUS
    <2>1. reply' = <<>>
      BY <1>2
    <2>2. DOMAIN reply' = {}
      BY ONLY <2>1
    <2>3. [n \in DOMAIN reply' |-> 0] \in [DOMAIN reply' -> DOMAIN rows']
      BY <2>2
    <2> QED BY <2>2, <2>3 DEF RowsFor
  <1> QED BY <1>2, <1>3, <1>6, <1>7 DEF RowsInv

LEMMA AskPendingRight ==
  ASSUME RowsInv, AskPending
  PROVE  RowsInv'
  <1>1. PICK stale \in SUBSET Settled : \E items \in Listings(Held \cup stale, "pending") :
           /\ landed' = Landed("pending", items) /\ reply' = items
           /\ odd' = odd \cup Repeated \cup (IF items = <<>> THEN {"empty"} ELSE {})
                         \cup {"stale" : p \in stale}
    BY DEF AskPending
  <1>2. PICK items \in Listings(Held \cup stale, "pending") :
           /\ landed' = Landed("pending", items) /\ reply' = items
           /\ odd' = odd \cup Repeated \cup (IF items = <<>> THEN {"empty"} ELSE {})
                         \cup {"stale" : p \in stale}
    BY <1>1
  <1>3. /\ UNCHANGED <<facts, bank, rows, left>>
        /\ pc' = IF reply' = <<>> THEN "idle" ELSE "pending landed"
    BY DEF AskPending
  <1>4. Typed'
    BY <1>3 DEF RowsInv, Typed
  <1>5. Answer("pending", items, BookedIds)
    <2>1. Held \cup stale \in SUBSET Payments /\ "pending" \in Lists
      BY DEF Settled, Held, Lists
    <2>2. Typed
      BY DEF RowsInv
    <2> QED BY <2>1, <2>2, ListingRight
  <1>6. /\ odd \subseteq odd' /\ ("recurs" \in odd' => "recurs" \in odd)
        /\ (landed' = landed => "repeat" \in odd')
    BY <1>2 DEF Repeated
  <1>7. Told' /\ Waiting("pending")'
    BY <1>2, <1>3, <1>5, <1>6, AskedRight
  <1> QED BY <1>3, <1>4, <1>7 DEF RowsInv
-----------------------------------------------------------------------------
(* No booked row is booked no longer, unless an answer recurred.           *)
StayBooked ==
    \A k \in DOMAIN rows : NeverRecurred' /\ rows[k].status = "booked" => rows'[k].status = "booked"

(* A batch written.                                                        *)
LEMMA WrittenRight ==
  ASSUME RowsInv, UNCHANGED <<facts, bank>>, Answered(landed', BookedIds),
         DOMAIN landed \subseteq DOMAIN landed', Exported => Exported',
         NEW list, NEW items, NEW artefact \in DOMAIN landed', artefact \in Nat, NEW result,
         Reconciled(rows, result, list, items, artefact, BookedIds), result.fits,
         rows' = result.rows, odd \subseteq odd',
         "recurs" \in odd' <=> ("recurs" \in odd \/ result.recurs),
         list = "export" => Exported',
         "repeat" \notin odd' => Stamped(rows, DOMAIN landed' \ {artefact})
  PROVE  Told' /\ StayBooked
  <1>1. Told /\ BookedIds' = BookedIds
    BY SameIds DEF RowsInv
  <1> DEFINE B == BookedIds
  <1>2. Reconciled(rows, result, list, items, artefact, B) /\ B = BookedIds'
    BY <1>1
  <1> HIDE DEF B
  <1>3. Sound(result.rows, B)
    BY <1>2 DEF Reconciled, Sound
  <1>4. /\ ~result.recurs /\ Known(rows) => Known(result.rows)
        /\ Grown(rows, result.rows, result.recurs)
        /\ result.recurs \in BOOLEAN
    BY <1>2 DEF Reconciled
  <1>5. NeverRecurred' <=> (NeverRecurred /\ ~result.recurs)
    BY <1>4 DEF NeverRecurred
  <1>6. NeverRecurred' => Known(rows')
    BY <1>1, <1>4, <1>5 DEF Told
  <1>7. Stamped(rows', DOMAIN landed')
    <2>1. Stamped(rows, DOMAIN landed')
      BY <1>1 DEF Told, Stamped
    <2>2. Stamped(result.rows, DOMAIN landed' \cup {artefact})
      BY <1>2, <2>1 DEF Reconciled
    <2>3. DOMAIN landed' \cup {artefact} = DOMAIN landed'
      OBVIOUS
    <2> QED BY <2>2, <2>3
  <1>8. "repeat" \notin odd' => NeverRecurred'
    <2> SUFFICES ASSUME "repeat" \notin odd' PROVE NeverRecurred'
      OBVIOUS
    <2> DEFINE others == DOMAIN landed' \ {artefact}
    <2>1. artefact \notin others /\ Stamped(rows, others)
      OBVIOUS
    <2> HIDE DEF others
    <2>2. ~result.recurs
      BY <1>2, <2>1 DEF Reconciled
    <2>3. NeverRecurred
      BY <1>1 DEF Told
    <2> QED BY <1>5, <2>2, <2>3
  <1>9. ~Exported' => Named(rows')
    <2> SUFFICES ASSUME ~Exported' PROVE Named(result.rows)
      OBVIOUS
    <2>1. Named(rows) /\ list # "export"
      BY <1>1 DEF Told
    <2> QED BY <1>2, <2>1 DEF Reconciled
  <1>10. Answered(landed', BookedIds') /\ Sound(rows', BookedIds')
    BY <1>2, <1>3 DEF B
  <1>11. Told'
    BY <1>6, <1>7, <1>8, <1>9, <1>10 DEF Told
  <1>12. StayBooked
    BY <1>4, <1>5 DEF StayBooked, Grown
  <1> QED BY <1>11, <1>12

(* A reply reconciled, or refused by the store.                            *)
LEMMA ReplyRight ==
  ASSUME RowsInv, NEW list \in {"booked", "pending"}, Waiting(list), NEW next,
         ReconcileReply(list, next), UNCHANGED <<facts, bank, landed>>
  PROVE  /\ Told' /\ StayBooked
         /\ \/ pc' = next /\ (NeverRecurred' => RowsFor(reply', rows', list))
            \/ pc' = "idle"
  <1> DEFINE answer == [list |-> list, items |-> reply]
             place == PlaceIn(landed, answer)
             result == Outcome(list, reply)
  <1>1. /\ Answer(list, reply, BookedIds) /\ place \in DOMAIN landed
        /\ "repeat" \notin odd => Stamped(rows, DOMAIN landed \ {place})
    BY DEF Waiting
  <1>2. Told /\ BookedIds' = BookedIds
    BY SameIds DEF RowsInv
  <1>3. landed \in Seq([list : Lists, items : Seq(Items)])
    BY <1>2 DEF Told, Answered
  <1>4. place \in Nat
    <2> HIDE DEF place
    <2> QED BY <1>1, <1>3
  <1>5. /\ result = ReconcileBatch(rows, LoadOrder(rows), Records(list, reply), list, place)
        /\ Reordered(result, Position(answer)) \subseteq {"reordered"}
    BY DEF Outcome, Position, PlaceIn, Reordered
  <1> DEFINE order == Reordered(result, Position(answer))
  <1> HIDE DEF place, result
  <1>6. Reconciled(rows, result, list, reply, place, BookedIds)
    <2>1. Ledger(rows, BookedIds) /\ KeysApart(rows) /\ Distinct(rows)
      BY <1>2 DEF Told, Sound
    <2> QED BY <1>1, <1>4, <1>5, <2>1, BatchRight
  <1>7. \/ /\ result.fits
           /\ rows' = result.rows /\ odd' = odd \cup Recurring(result) \cup order
           /\ pc' = next /\ reply' = reply
        \/ pc' = "idle" /\ rows' = rows /\ odd' = odd \cup {"cut short"}
    BY DEF ReconcileReply, result
  <1> HIDE DEF answer, order
  <1>12. order \subseteq {"reordered"}
    BY <1>5 DEF order
  <1>8. Exported' <=> Exported
    BY DEF Exported
  <1>9. CASE pc' = "idle" /\ rows' = rows /\ odd' = odd \cup {"cut short"}
    <2>1. (NeverRecurred' <=> NeverRecurred) /\ ("repeat" \in odd' <=> "repeat" \in odd)
      BY <1>9 DEF NeverRecurred
    <2>2. landed' = landed
      OBVIOUS
    <2>3. Told'
      BY <1>2, <1>8, <1>9, <2>1, <2>2 DEF Told
    <2> QED BY <1>9, <2>3 DEF StayBooked
  <1>10. CASE /\ result.fits
              /\ rows' = result.rows /\ odd' = odd \cup Recurring(result) \cup order
              /\ pc' = next /\ reply' = reply
    <2>1. /\ odd \subseteq odd' /\ "recurs" \in odd' <=> ("recurs" \in odd \/ result.recurs)
          /\ "repeat" \notin odd' => "repeat" \notin odd
      BY <1>10, <1>12 DEF Recurring
    <2>2. landed' = landed /\ Answered(landed', BookedIds) /\ list # "export"
      BY <1>2 DEF Told
    <2>3. Told' /\ StayBooked
      BY <1>1, <1>4, <1>6, <1>8, <1>10, <2>1, <2>2, WrittenRight
    <2>4. NeverRecurred' => ~result.recurs
      BY <2>1 DEF NeverRecurred
    <2>5. NeverRecurred' => RowsFor(reply', rows', list)
      BY <1>6, <1>10, <2>2, <2>4 DEF Reconciled
    <2> QED BY <1>10, <2>3, <2>5
  <1> QED BY <1>7, <1>9, <1>10

LEMMA ReconcileBookedRight ==
  ASSUME RowsInv, ReconcileBooked
  PROVE  RowsInv' /\ StayBooked
  <1>1. /\ UNCHANGED <<facts, bank, landed>> /\ left' = left
        /\ ReconcileReply("booked", "booked done") /\ Waiting("booked")
    BY DEF ReconcileBooked, RowsInv
  <1>2. /\ Told' /\ StayBooked
        /\ \/ pc' = "booked done" /\ (NeverRecurred' => RowsFor(reply', rows', "booked"))
           \/ pc' = "idle"
    BY <1>1, ReplyRight
  <1>3. Typed'
    BY <1>1, <1>2 DEF RowsInv, Typed
  <1> QED BY <1>2, <1>3 DEF RowsInv

LEMMA ReconcilePendingRight ==
  ASSUME RowsInv, ReconcilePending
  PROVE  RowsInv' /\ StayBooked
  <1>1. /\ UNCHANGED <<facts, bank, landed>> /\ left' = left
        /\ ReconcileReply("pending", "pending placed") /\ Waiting("pending")
    BY DEF ReconcilePending, RowsInv
  <1>2. /\ Told' /\ StayBooked
        /\ \/ pc' = "pending placed" /\ (NeverRecurred' => RowsFor(reply', rows', "pending"))
           \/ pc' = "idle"
    BY <1>1, ReplyRight
  <1>3. Typed'
    BY <1>1, <1>2 DEF RowsInv, Typed
  <1> QED BY <1>2, <1>3 DEF RowsInv

LEMMA VanishingRight ==
  ASSUME RowsInv, Vanish
  PROVE  RowsInv' /\ StayBooked
  <1>1. /\ rows' = ResolveVanished(rows, {item.id : item \in ToSet(reply)})
        /\ UNCHANGED <<facts, bank, landed, left, odd>> /\ pc' = "idle"
    BY DEF Vanish
  <1>2. Told /\ Typed /\ BookedIds' = BookedIds
    BY <1>1, SameIds DEF RowsInv
  <1>3. Sound(rows', BookedIds) /\ Voided(rows, rows')
    BY <1>1, <1>2, VanishRight DEF Told
  <1>4. /\ NeverRecurred' <=> NeverRecurred
        /\ Exported' <=> Exported
    BY <1>1 DEF NeverRecurred, Exported
  <1>5. Told'
    BY <1>1, <1>2, <1>3, <1>4 DEF Told, Voided
  <1>6. Typed'
    BY <1>1, <1>2 DEF Typed
  <1>7. StayBooked
    BY <1>3 DEF Voided, StayBooked
  <1> QED BY <1>1, <1>5, <1>6, <1>7 DEF RowsInv

LEMMA RebuildRight ==
  ASSUME RowsInv, Rebuild
  PROVE  RowsInv'
  <1>1. /\ UNCHANGED <<facts, bank, landed, pc, reply, odd>> /\ pc = "idle"
        /\ rows' = Replay(landed).rows /\ left > 0 /\ left' = left - 1
    BY DEF Rebuild
  <1>2. Told /\ BookedIds' = BookedIds
    BY <1>1, SameIds DEF RowsInv
  <1>3. Answered(landed, BookedIds)
    BY <1>2 DEF Told
  <1>4. Rebuilt(rows', Len(landed), landed, BookedIds)
    BY <1>1, <1>3, ReplayRight
  <1>5. DOMAIN landed = 1..Len(landed)
    BY <1>3 DEF Answered
  <1>6. ~Exported => \A n \in DOMAIN landed : landed[n].list # "export"
    BY DEF Exported, ToSet
  <1>7. /\ NeverRecurred' <=> NeverRecurred
        /\ Exported' <=> Exported
    BY <1>1 DEF NeverRecurred, Exported
  <1>8. Told'
    BY <1>1, <1>2, <1>4, <1>5, <1>6, <1>7 DEF Told, Rebuilt
  <1>9. Typed'
    <2>1. Typed /\ left \in 0..MaxEvents /\ MaxEvents \in Nat
      BY RowsAssumption DEF RowsInv, Typed
    <2>2. left > 0 /\ left' = left - 1
      BY <1>1
    <2>3. left \in 0..MaxEvents /\ MaxEvents \in Nat
      BY <2>1
    <2>4. left' \in 0..MaxEvents
      BY <2>2, <2>3
    <2> QED BY <1>1, <2>1, <2>4 DEF Typed
  <1> QED BY <1>1, <1>8, <1>9 DEF RowsInv

(* Items keep their rows while the rows grow.                              *)
LEMMA RowsForGrown ==
  ASSUME NEW old \in Seq(Row), NEW new \in Seq(Row), Grown(old, new, FALSE),
         NEW items, RowsFor(items, old, "booked")
  PROVE  RowsFor(items, new, "booked")
  <1>1. PICK row \in [DOMAIN items -> DOMAIN old] :
            /\ \A m, n \in DOMAIN items : m # n => row[m] # row[n]
            /\ \A n \in DOMAIN items :
                   /\ \E sighting \in old[row[n]].ids : sighting.id = items[n].id
                   /\ old[row[n]].status = "booked"
    BY DEF RowsFor
  <1>2. DOMAIN old \subseteq DOMAIN new
    BY DEF Grown
  <1>3. row \in [DOMAIN items -> DOMAIN new]
    BY <1>1, <1>2
  <1>4. ASSUME NEW n \in DOMAIN items
        PROVE  /\ \E sighting \in new[row[n]].ids : sighting.id = items[n].id
               /\ new[row[n]].status = "booked"
    <2>1. row[n] \in DOMAIN old
      BY <1>1
    <2> QED BY <1>1, <2>1 DEF Grown
  <1> QED BY <1>1, <1>3, <1>4 DEF RowsFor

LEMMA ImportRight ==
  ASSUME RowsInv, Import
  PROVE  RowsInv' /\ StayBooked
  <1>1. /\ UNCHANGED <<facts, bank, pc, reply>> /\ left > 0 /\ left' = left - 1
        /\ pc # "pending placed"
    BY DEF Import
  <1>2. PICK lo \in 1..LastDay, hi \in 1..LastDay :
        \E items \in Listings({p \in Settled : facts.days[p]["export"] \in lo..hi}, "export") :
        \E artefact \in {Arrival([list |-> "export", items |-> items])} :
        \E result \in {ReconcileBatch(rows, LoadOrder(rows), Records("export", items), "export",
                                      artefact)} :
            /\ items # <<>>
            /\ landed' = Landed("export", items)
            /\ odd' = odd \cup Repeated \cup (IF pc = "idle" THEN {} ELSE {"amid a pull"})
                          \cup (IF result.fits
                                   THEN Recurring(result) \cup Reordered(result, artefact)
                                   ELSE {"cut short"})
            /\ rows' = IF result.fits THEN result.rows ELSE rows
    BY DEF Import
  <1>3. PICK items \in Listings({p \in Settled : facts.days[p]["export"] \in lo..hi}, "export") :
        \E artefact \in {Arrival([list |-> "export", items |-> items])} :
        \E result \in {ReconcileBatch(rows, LoadOrder(rows), Records("export", items), "export",
                                      artefact)} :
            /\ items # <<>>
            /\ landed' = Landed("export", items)
            /\ odd' = odd \cup Repeated \cup (IF pc = "idle" THEN {} ELSE {"amid a pull"})
                          \cup (IF result.fits
                                   THEN Recurring(result) \cup Reordered(result, artefact)
                                   ELSE {"cut short"})
            /\ rows' = IF result.fits THEN result.rows ELSE rows
    BY <1>2
  <1> DEFINE answer == [list |-> "export", items |-> items]
             place == PlaceIn(landed', answer)
             result == ReconcileBatch(rows, LoadOrder(rows), Records("export", items), "export",
                                      Arrival(answer))
             order == Reordered(result, Arrival(answer))
  <1>4. /\ landed' = Landed("export", items)
        /\ odd' = odd \cup Repeated \cup (IF pc = "idle" THEN {} ELSE {"amid a pull"})
                      \cup (IF result.fits THEN Recurring(result) \cup order ELSE {"cut short"})
        /\ rows' = IF result.fits THEN result.rows ELSE rows
    BY <1>3
  <1>20. order \subseteq {"reordered"}
    BY DEF Reordered
  <1> HIDE DEF order
  <1>5. Told /\ Typed /\ BookedIds' = BookedIds
    BY <1>1, SameIds DEF RowsInv
  <1>6. Answer("export", items, BookedIds)
    <2>1. {p \in Settled : facts.days[p]["export"] \in lo..hi} \in SUBSET Payments
      BY DEF Settled
    <2>2. "export" \in Lists
      BY DEF Lists
    <2> QED BY <1>5, <2>1, <2>2, ListingRight
  <1>7. Answered(landed', BookedIds) /\ Landing(landed, landed', answer) /\ Arrival(answer) = place
    BY <1>4, <1>5, <1>6, LandedRight DEF Told
  <1>8. /\ DOMAIN landed \subseteq DOMAIN landed' /\ place \in DOMAIN landed'
        /\ ToSet(landed') = ToSet(landed) \cup {answer}
        /\ landed' # landed => place \notin DOMAIN landed
    BY <1>7 DEF Landing
  <1>9. place \in Nat
    <2>1. landed' \in Seq([list : Lists, items : Seq(Items)])
      BY <1>7 DEF Answered
    <2> HIDE DEF place
    <2> QED BY <1>8, <2>1
  <1>10. Exported'
    <2>1. answer.list = "export"
      OBVIOUS
    <2> HIDE DEF answer
    <2> QED BY <1>8, <2>1 DEF Exported
  <1>11. result = ReconcileBatch(rows, LoadOrder(rows), Records("export", items), "export", place)
    BY <1>7
  <1> HIDE DEF answer, place, result
  <1>12. Reconciled(rows, result, "export", items, place, BookedIds)
    <2>1. Ledger(rows, BookedIds) /\ KeysApart(rows) /\ Distinct(rows)
      BY <1>5 DEF Told, Sound
    <2> QED BY <1>6, <1>9, <1>11, <2>1, BatchRight
  <1>13. /\ odd \subseteq odd'
         /\ "recurs" \in odd' <=> ("recurs" \in odd \/ (result.fits /\ result.recurs))
         /\ "repeat" \notin odd' => "repeat" \notin odd /\ landed' # landed
    BY <1>4, <1>20 DEF Recurring, Repeated
  <1>14. "repeat" \notin odd' => Stamped(rows, DOMAIN landed' \ {place})
    <2> SUFFICES ASSUME "repeat" \notin odd' PROVE Stamped(rows, DOMAIN landed' \ {place})
      OBVIOUS
    <2>1. DOMAIN landed \subseteq DOMAIN landed' \ {place}
      BY <1>8, <1>13
    <2> QED BY <1>5, <2>1 DEF Told, Stamped
  <1>15. Told' /\ StayBooked
    <2>1. CASE result.fits
      <3>1. rows' = result.rows /\ ("recurs" \in odd' <=> ("recurs" \in odd \/ result.recurs))
        BY <1>4, <1>13, <2>1
      <3> QED BY <1>1, <1>7, <1>8, <1>9, <1>10, <1>12, <1>13, <1>14, <2>1, <3>1, WrittenRight
    <2>2. CASE ~result.fits
      <3>1. rows' = rows /\ (NeverRecurred' <=> NeverRecurred)
        BY <1>4, <1>13, <2>2 DEF NeverRecurred
      <3>2. Stamped(rows', DOMAIN landed')
        BY <1>5, <1>8, <3>1 DEF Told, Stamped
      <3>3. Answered(landed', BookedIds') /\ Sound(rows', BookedIds')
        BY <1>5, <1>7, <3>1 DEF Told
      <3>4. /\ NeverRecurred' => Known(rows')
            /\ "repeat" \notin odd' => NeverRecurred'
        BY <1>5, <1>13, <3>1 DEF Told
      <3>5. Told'
        BY <1>10, <3>2, <3>3, <3>4 DEF Told
      <3> QED BY <3>1, <3>5 DEF StayBooked
    <2> QED BY <2>1, <2>2
  <1>16. Typed'
    <2>1. Typed /\ left \in 0..MaxEvents /\ MaxEvents \in Nat
      BY RowsAssumption DEF RowsInv, Typed
    <2>2. left > 0 /\ left' = left - 1
      BY <1>1
    <2>3. left \in 0..MaxEvents /\ MaxEvents \in Nat
      BY <2>1
    <2>4. left' \in 0..MaxEvents
      BY <2>2, <2>3
    <2> QED BY <1>1, <2>1, <2>4 DEF Typed
  <1>17. ASSUME NEW list, Waiting(list) PROVE Waiting(list)'
    <2> DEFINE other == [list |-> list, items |-> reply]
               there == PlaceIn(landed, other)
    <2>1. /\ Answer(list, reply, BookedIds) /\ there \in DOMAIN landed
          /\ "repeat" \notin odd => Stamped(rows, DOMAIN landed \ {there})
      BY <1>17 DEF Waiting
    <2> HIDE DEF other
    <2>2. PlaceIn(landed', other) = there /\ there \in DOMAIN landed'
      BY <1>7, <1>8, <2>1 DEF Landing
    <2> HIDE DEF there
    <2>3. "repeat" \notin odd' => Stamped(rows', DOMAIN landed' \ {there})
      <3> SUFFICES ASSUME "repeat" \notin odd' PROVE Stamped(rows', DOMAIN landed' \ {there})
        OBVIOUS
      <3>1. Stamped(rows, DOMAIN landed \ {there})
        BY <1>13, <2>1
      <3>2. /\ (DOMAIN landed \ {there}) \cup {place} \subseteq DOMAIN landed' \ {there}
            /\ DOMAIN landed \ {there} \subseteq DOMAIN landed' \ {there}
        BY <1>8, <1>13, <2>1
      <3>3. Stamped(result.rows, (DOMAIN landed \ {there}) \cup {place})
        BY <1>12, <3>1 DEF Reconciled
      <3>4. Stamped(result.rows, DOMAIN landed' \ {there})
        BY <3>2, <3>3 DEF Stamped
      <3>5. Stamped(rows, DOMAIN landed' \ {there})
        BY <3>1, <3>2 DEF Stamped
      <3> QED BY <1>4, <3>4, <3>5
    <2>4. Answer(list, reply', BookedIds')
      BY <1>1, <1>5, <2>1
    <2>5. PlaceIn(landed', [list |-> list, items |-> reply']) = there
      BY <1>1, <2>2 DEF other
    <2> QED BY <2>2, <2>3, <2>4, <2>5 DEF Waiting
  <1>18. NeverRecurred' /\ pc' = "booked done" => RowsFor(reply', rows', "booked")
    <2> SUFFICES ASSUME NeverRecurred', pc' = "booked done" PROVE RowsFor(reply', rows', "booked")
      OBVIOUS
    <2>1. NeverRecurred /\ (result.fits => ~result.recurs)
      BY <1>13 DEF NeverRecurred
    <2>2. RowsFor(reply, rows, "booked")
      BY <1>1, <2>1 DEF RowsInv
    <2>3. CASE ~result.fits
      <3>1. rows' = rows /\ reply' = reply
        BY <1>1, <1>4, <2>3
      <3> QED BY <2>2, <3>1
    <2>4. CASE result.fits
      <3>1. rows' = result.rows /\ reply' = reply /\ ~result.recurs
        BY <1>1, <1>4, <2>1, <2>4
      <3>2. rows \in Seq(Row) /\ result.rows \in Seq(Row) /\ Grown(rows, result.rows, result.recurs)
        BY <1>5, <1>12 DEF Told, Sound, Ledger, Reconciled
      <3> DEFINE after == result.rows
      <3>3. after \in Seq(Row) /\ Grown(rows, after, FALSE)
        BY <3>1, <3>2 DEF Grown
      <3> HIDE DEF after
      <3>4. RowsFor(reply, after, "booked")
        BY <2>2, <3>2, <3>3, RowsForGrown
      <3> QED BY <3>1, <3>4 DEF after
    <2> QED BY <2>3, <2>4
  <1>19. pc' = pc /\ pc' # "pending placed"
    BY <1>1
  <1> QED BY <1>15, <1>16, <1>17, <1>18, <1>19 DEF RowsInv
-----------------------------------------------------------------------------
(* Every step keeps the invariant, and all but a rebuild leave booked rows *)
(* booked.                                                                 *)
LEMMA NextRight ==
  ASSUME RowsInv, [Next]_vars
  PROVE  RowsInv' /\ (Rebuild \/ StayBooked)
  <1>1. CASE \E p \in Payments : BankMoves(p)
    <2>1. rows' = rows
      BY <1>1 DEF BankMoves
    <2> QED BY <1>1, <2>1, BankRight DEF StayBooked
  <1>2. CASE AskBooked
    <2>1. rows' = rows
      BY <1>2 DEF AskBooked
    <2> QED BY <1>2, <2>1, AskBookedRight DEF StayBooked
  <1>3. CASE AskPending
    <2>1. rows' = rows
      BY <1>3 DEF AskPending
    <2> QED BY <1>3, <2>1, AskPendingRight DEF StayBooked
  <1>4. CASE PullStops
    <2>1. rows' = rows
      BY <1>4 DEF PullStops
    <2> QED BY <1>4, <2>1, StopRight DEF StayBooked
  <1>5. CASE UNCHANGED vars
    <2>1. /\ facts' = facts /\ bank' = bank /\ landed' = landed /\ rows' = rows
          /\ pc' = pc /\ reply' = reply /\ left' = left /\ odd' = odd
      BY <1>5 DEF vars
    <2>2. BookedIds' = BookedIds
      BY <2>1, SameIds
    <2>3. /\ NeverRecurred' <=> NeverRecurred
          /\ Exported' <=> Exported
      BY <2>1 DEF NeverRecurred, Exported
    <2>4. Typed'
      BY <2>1 DEF RowsInv, Typed
    <2>5. Told'
      BY <2>1, <2>2, <2>3 DEF RowsInv, Told
    <2>6. \A list : Waiting(list) => Waiting(list)'
      BY <2>1, <2>2 DEF Waiting
    <2>7. RowsInv'
      BY <2>1, <2>3, <2>4, <2>5, <2>6 DEF RowsInv
    <2> QED BY <2>1, <2>7 DEF StayBooked
  <1>6. CASE ReconcileBooked \/ ReconcilePending \/ Vanish \/ Import \/ Rebuild
    BY <1>6, ReconcileBookedRight, ReconcilePendingRight, VanishingRight, ImportRight, RebuildRight
  <1> QED BY <1>1, <1>2, <1>3, <1>4, <1>5, <1>6 DEF Next

(* THEOREM: the inductive invariant holds always, for any payments, days,  *)
(* windows and bounds.                                                     *)
THEOREM RowsInvariant == Spec => []RowsInv
  <1>1. Init => RowsInv
    BY InitRight
  <1>2. RowsInv /\ [Next]_vars => RowsInv'
    BY NextRight
  <1> QED BY <1>1, <1>2, PTL DEF Spec

(* THEOREM: each variable keeps its type, a row carries an id exactly when *)
(* the aggregator's facts stand in it, and unless an answer recurred it    *)
(* was sighted under it.                                                   *)
THEOREM TypeCorrect == Spec => []TypeOK
  <1>1. RowsInv => TypeOK
    <2> SUFFICES ASSUME RowsInv PROVE TypeOK
      OBVIOUS
    <2>1. Typed /\ Told
      BY DEF RowsInv
    <2>2. /\ bank \in [Payments -> {"unheard", "held", "settled", "released"}]
          /\ pc \in {"idle", "booked landed", "booked done", "pending landed", "pending placed"}
          /\ left \in 0..MaxEvents
      BY <2>1 DEF Typed
    <2>3. ASSUME NEW k \in DOMAIN rows
          PROVE  /\ rows[k].status \in {"pending", "booked", "void"}
                 /\ rows[k].src = "export" <=> rows[k].id = NoId
                 /\ NeverRecurred /\ rows[k].id # NoId =>
                        \E sighting \in rows[k].ids : sighting.id = rows[k].id
      <3>1. rows[k] \in Row /\ Lawful(rows[k], BookedIds)
        BY <2>1 DEF Told, Sound, Ledger
      <3>2. rows[k].status \in {"pending", "booked", "void"}
        BY <3>1 DEF Row
      <3>3. rows[k].src = "export" <=> rows[k].id = NoId
        BY <3>1 DEF Lawful
      <3> QED BY <2>1, <3>2, <3>3 DEF Told, Known
    <2> QED BY <2>2, <2>3 DEF TypeOK
  <1> QED BY <1>1, RowsInvariant, PTL

(* THEOREM: while only the aggregator reports the account there are never  *)
(* more booked rows than settled payments. Booked rows carry different     *)
(* ids, each that of a settled payment.                                    *)
THEOREM CountedOnce == Spec => []NoneTwiceOneSource
  <1>1. RowsInv => NoneTwiceOneSource
    <2> SUFFICES ASSUME RowsInv, ~Exported PROVE Cardinality(Booked) <= Cardinality(Settled)
      BY DEF NoneTwiceOneSource, NoneTwice
    <2>1. Ledger(rows, BookedIds) /\ Distinct(rows) /\ Named(rows)
      BY DEF RowsInv, Told, Sound
    <2>2. IsFiniteSet(Settled)
      <3>1. Settled \in SUBSET Payments
        BY DEF Settled
      <3> QED BY <3>1, RowsAssumption, FS_Subset
    <2> DEFINE payment == [k \in Booked |-> CHOOSE p \in Settled : Item(p, "booked").id = rows[k].id]
    <2>3. ASSUME NEW k \in Booked
          PROVE  payment[k] \in Settled /\ Item(payment[k], "booked").id = rows[k].id
      <3>1. k \in DOMAIN rows /\ rows[k].status = "booked"
        BY DEF Booked
      <3>2. rows[k].id \in BookedIds
        BY <2>1, <3>1 DEF Ledger, Lawful, Named
      <3>3. \E p \in Settled : Item(p, "booked").id = rows[k].id
        BY <3>2 DEF BookedIds
      <3> QED BY <3>3
    <2> HIDE DEF payment
    <2>4. ASSUME NEW k \in Booked, NEW m \in Booked, payment[k] = payment[m] PROVE k = m
      <3>1. rows[k].id = rows[m].id
        BY <2>3, <2>4
      <3>2. k \in DOMAIN rows /\ m \in DOMAIN rows
        BY DEF Booked
      <3> QED BY <2>1, <3>1, <3>2 DEF Distinct, Named
    <2>5. payment \in Injection(Booked, Settled)
      <3>1. payment \in [Booked -> Settled]
        BY <2>3 DEF payment
      <3> QED BY <2>4, <3>1 DEF Injection, IsInjective
    <2> QED BY <2>2, <2>5, FS_Injection
  <1> QED BY <1>1, RowsInvariant, PTL

(* THEOREM: once an answer is reconciled each of its records has a row of  *)
(* its own, through imports that come between.                             *)
THEOREM EachItsRow == Spec => []OwnRow
  <1>1. RowsInv => OwnRow
    <2> SUFFICES ASSUME RowsInv, NeverRecurred, pc \in {"booked done", "pending placed"}
                 PROVE  \E row \in [DOMAIN reply -> DOMAIN rows] :
                            /\ \A m, n \in DOMAIN reply : m # n => row[m] # row[n]
                            /\ \A n \in DOMAIN reply :
                                   /\ \E sighting \in rows[row[n]].ids : sighting.id = reply[n].id
                                   /\ rows[row[n]].status # "void"
                                   /\ pc = "booked done" => rows[row[n]].status = "booked"
      BY DEF OwnRow
    <2>1. CASE pc = "booked done"
      BY <2>1 DEF RowsInv, RowsFor
    <2>2. CASE pc = "pending placed"
      BY <2>2 DEF RowsInv, RowsFor
    <2> QED BY <2>1, <2>2
  <1> QED BY <1>1, RowsInvariant, PTL

(* THEOREM: no two rows share content key and occurrence, and an answer    *)
(* overwrites rows only where an answer repeated an earlier one.           *)
THEOREM IdentitiesApart == Spec => []OneIdentity
  <1>1. RowsInv => OneIdentity
    BY DEF RowsInv, Told, Sound, KeysApart, Key, OneIdentity
  <1> QED BY <1>1, RowsInvariant, PTL

(* THEOREM: nothing but a rebuild turns a booked row back, as long as no   *)
(* answer recurred.                                                        *)
THEOREM SettledStays == Spec => SettlementStands
  <1> DEFINE Standing == \A k \in DOMAIN rows : ~Rebuild /\ NeverRecurred' /\ rows[k].status = "booked"
                            => rows'[k].status = "booked"
  <1>1. RowsInv /\ [Next]_vars => [Standing]_vars
    BY NextRight DEF StayBooked
  <1>2. Spec => [][Standing]_vars
    <2> HIDE DEF Standing
    <2> QED BY <1>1, RowsInvariant, PTL DEF Spec
  <1> QED BY <1>2 DEF SettlementStands

-----------------------------------------------------------------------------
(* A replay.  The order rows are asked in is the one thing a replay has     *)
(* that a live batch may not: where no tie was decided by it, the plan, and *)
(* then each record's place, are the same in either order.                  *)

(* Books that differ at most in the order their rows are asked in.         *)
Agree(b, c) ==
    /\ b.rows = c.rows /\ b.claims = c.claims
    /\ b.fits = c.fits /\ b.recurs = c.recurs

(* What is first of one row, or of none, is so in any order.               *)
LEMMA FirstSame ==
  ASSUME NEW S, ~Undecided(S), NEW asked, NEW other
  PROVE  FirstOf(asked, S) = FirstOf(other, S)
  <1>1. CASE S = {}
    BY <1>1 DEF FirstOf
  <1>2. CASE S # {}
    <2>1. PICK k : S = {k}
      <3>1. PICK k \in S : TRUE
        BY <1>2
      <3>2. \A m \in S : m = k
        BY DEF Undecided
      <3> QED BY <3>1, <3>2
    <2>2. \A order : FirstOf(order, S) = CHOOSE m \in S : TRUE
      <3> SUFFICES ASSUME NEW order PROVE FirstOf(order, S) = CHOOSE m \in S : TRUE
        OBVIOUS
      <3> DEFINE first == {m \in S : \A j \in S \ {m} : <<m, j>> \in order}
      <3>1. first = S /\ first # {}
        BY <2>1
      <3>2. FirstOf(order, S) = IF first = {} THEN 0 ELSE CHOOSE m \in first : TRUE
        BY DEF FirstOf
      <3> HIDE DEF first
      <3> QED BY <3>1, <3>2
    <2> QED BY <2>2
  <1> QED BY <1>1, <1>2

(* Which rows a record could be does not depend on the order asked.        *)
LEMMA RowsSame ==
  ASSUME NEW b, NEW c, b.rows = c.rows, b.claims = c.claims, NEW x
  PROVE  ExactRows(b, x) = ExactRows(c, x) /\ Near(b, x) = Near(c, x)
  <1>1. ASSUME NEW k
        PROVE  /\ ClaimedUnderAnotherId(b, k, x) <=> ClaimedUnderAnotherId(c, k, x)
               /\ \A alike : OnePayment(b, k, x, alike) <=> OnePayment(c, k, x, alike)
    <2>1. ClaimedUnderAnotherId(b, k, x) <=> ClaimedUnderAnotherId(c, k, x)
      BY DEF ClaimedUnderAnotherId
    <2> QED BY <2>1 DEF OnePayment
  <1>2. Carrying(b, x) = Carrying(c, x) /\ Sighted(b, x) = Sighted(c, x)
    BY DEF Carrying, Sighted
  <1>3. ExactRows(b, x) = ExactRows(c, x)
    <2> DEFINE Free(book, S) == {k \in S : x.id # NoId /\ ~ClaimedUnderAnotherId(book, k, x)}
               Alike(book) == {k \in DOMAIN book.rows : /\ ContentKey(book.rows[k]) = ContentKey(x)
                                                        /\ OnePayment(book, k, x, TRUE)}
               Pick(carrying, sighted, alike) ==
                   CASE carrying # {} -> carrying
                     [] carrying = {} /\ sighted # {} -> sighted
                     [] OTHER -> alike
    <2>1. \A S : Free(b, S) = Free(c, S)
      BY <1>1
    <2>2. Alike(b) = Alike(c)
      BY <1>1
    <2>3. \A book : ExactRows(book, x) =
              Pick(Free(book, Carrying(book, x)), Free(book, Sighted(book, x)), Alike(book))
      BY DEF ExactRows
    <2> HIDE DEF Free, Alike, Pick
    <2> QED BY <1>2, <2>1, <2>2, <2>3
  <1>4. Near(b, x) = Near(c, x)
    BY <1>1 DEF Near
  <1> QED BY <1>3, <1>4

(* Where no order decides the plan, any order gives the same one.          *)
LEMMA PlanSame ==
  ASSUME NEW b, NEW c, b.rows = c.rows, b.claims = c.claims,
         NEW batch, DOMAIN batch \subseteq Nat, ~PlanTied(b, batch)
  PROVE  PlanPartners(b, batch) = PlanPartners(c, batch)
  <1> DEFINE allowed == Options(b, batch)
             sharing == Sharing(allowed)
             offered == UNION {allowed[n] : n \in sharing}
  <1>1. \A n \in DOMAIN batch : Exact(b, batch[n]) = Exact(c, batch[n])
    <2>1. \A n \in DOMAIN batch : ~Undecided(ExactRows(b, batch[n]))
      BY DEF PlanTied
    <2>2. \A n \in DOMAIN batch : ExactRows(b, batch[n]) = ExactRows(c, batch[n])
      BY RowsSame
    <2> QED BY <2>1, <2>2, FirstSame DEF Exact
  <1>2. Options(c, batch) = allowed /\ DOMAIN allowed = DOMAIN batch
    <2>1. [n \in DOMAIN batch |-> Exact(b, batch[n])] = [n \in DOMAIN batch |-> Exact(c, batch[n])]
      BY <1>1
    <2>2. \A n \in DOMAIN batch : Near(b, batch[n]) = Near(c, batch[n])
      BY RowsSame
    <2> QED BY <1>1, <2>1, <2>2 DEF Options
  <1>3. \A n \in sharing : \A k, m \in allowed[n] : k # m => b.rows[k].day # b.rows[m].day
    BY DEF PlanTied
  <1>4. sharing \subseteq Nat
    BY <1>2 DEF Sharing
  <1> HIDE DEF allowed, sharing
  <1> DEFINE by == [k \in offered |-> Min({n \in sharing : k \in allowed[n]})]
             given(order) == {pair \in offered \X offered :
                                 \/ by[pair[1]] < by[pair[2]]
                                 \/ by[pair[1]] = by[pair[2]] /\ pair[1] # pair[2] /\ pair \in order}
  <1>5. \A k \in offered : by[k] \in sharing /\ k \in allowed[by[k]]
    <2> SUFFICES ASSUME NEW k \in offered PROVE by[k] \in sharing /\ k \in allowed[by[k]]
      OBVIOUS
    <2> DEFINE givers == {n \in sharing : k \in allowed[n]}
    <2>1. givers # {} /\ givers \in SUBSET Nat
      BY <1>4
    <2>2. Min(givers) \in givers
      <3> HIDE DEF givers
      <3> QED BY <2>1, MinIn
    <2>3. by[k] = Min(givers)
      OBVIOUS
    <2> QED BY <2>2, <2>3
  <1>6. \A order : AsOffered(order, allowed) = given(order)
    BY DEF AsOffered, sharing
  <1> HIDE DEF offered, by
  <1>7. ASSUME NEW asked, NEW other, NEW pair \in given(asked),
               b.rows[pair[1]].day = b.rows[pair[2]].day
        PROVE  pair \in given(other)
    <2>1. CASE by[pair[1]] < by[pair[2]]
      BY <1>7, <2>1
    <2>2. CASE by[pair[1]] = by[pair[2]] /\ pair[1] # pair[2]
      <3>1. pair[1] \in allowed[by[pair[1]]] /\ pair[2] \in allowed[by[pair[1]]] /\ by[pair[1]] \in sharing
        BY <1>5, <1>7, <2>2
      <3> QED BY <1>3, <1>7, <2>2, <3>1
    <2> QED BY <1>7, <2>1, <2>2
  <1> HIDE DEF given
  <1>8. ByDate(b.rows, given(b.order)) = ByDate(b.rows, given(c.order))
    BY <1>7 DEF ByDate
  <1>9. ByDate(b.rows, AsOffered(b.order, allowed)) = ByDate(c.rows, AsOffered(c.order, allowed))
    BY <1>6, <1>8
  <1>10. \A book : PlanPartners(book, batch) =
             AssignAsASet(book.rows, batch,
                 InOrder(Sharing(Options(book, batch)), ByDate(batch, AsListed(batch))),
                 InOrder(UNION {Options(book, batch)[n] : n \in Sharing(Options(book, batch))},
                         ByDate(book.rows, AsOffered(book.order, Options(book, batch)))),
                 Options(book, batch))
    BY DEF PlanPartners
  <1>11. Options(b, batch) = Options(c, batch) /\ Options(b, batch) = allowed
    BY <1>2 DEF allowed
  <1> QED BY <1>9, <1>10, <1>11

(* A record written the same way on books that agree.                      *)
LEMMA PlaceSame ==
  ASSUME NEW b, NEW c, Agree(b, c), NEW found, NEW x, NEW fresh, NEW list, NEW artefact
  PROVE  Agree(Place(b, found, x, fresh, list, artefact), Place(c, found, x, fresh, list, artefact))
  <1> USE DEF Agree
  <1>1. \A content, wanted, excluding :
           FreeOccurrence(b, content, wanted, excluding) = FreeOccurrence(c, content, wanted, excluding)
    BY DEF FreeOccurrence
  <1>2. \A k : Merged(b, k, x, list, artefact) = Merged(c, k, x, list, artefact)
    BY <1>1 DEF Merged
  <1>3. \A k : /\ Superseded(b, k, x, list, artefact) = Superseded(c, k, x, list, artefact)
               /\ Claim(b, k, x) = Claim(c, k, x)
               /\ NamedBefore(b, k, x, artefact) <=> NamedBefore(c, k, x, artefact)
    BY <1>2 DEF Superseded, Claim, NamedBefore
  <1>4. ASSUME NEW rowsOf, NEW claims, NEW recurs, NEW also, recurs <=> also, NEW asked, NEW other
        PROVE  Agree(Written(b, rowsOf, asked, claims, recurs), Written(c, rowsOf, other, claims, also))
    BY <1>4 DEF Written
  <1> HIDE DEF Agree
  <1>5. b.rows = c.rows /\ b.claims = c.claims
    BY DEF Agree
  <1>6. \A k : /\ Agree(Join(b, k, x, list, artefact), Join(c, k, x, list, artefact))
               /\ Agree(Overwrite(b, k, x, list, artefact), Overwrite(c, k, x, list, artefact))
    <2> SUFFICES ASSUME NEW k
                 PROVE  /\ Agree(Join(b, k, x, list, artefact), Join(c, k, x, list, artefact))
                        /\ Agree(Overwrite(b, k, x, list, artefact), Overwrite(c, k, x, list, artefact))
      OBVIOUS
    <2>1. Agree(Join(b, k, x, list, artefact), Join(c, k, x, list, artefact))
      <3> DEFINE rowsOf == [c.rows EXCEPT ![k] = Superseded(c, k, x, list, artefact)]
                 claims == Claim(c, k, x)
                 recurs == NamedBefore(b, k, x, artefact)
                 also == NamedBefore(c, k, x, artefact)
      <3>1. recurs <=> also
        BY <1>3
      <3>2. /\ Join(b, k, x, list, artefact) = Written(b, rowsOf, b.order, claims, recurs)
            /\ Join(c, k, x, list, artefact) = Written(c, rowsOf, c.order, claims, also)
        BY <1>3, <1>5 DEF Join
      <3> HIDE DEF rowsOf, claims, recurs, also
      <3> QED BY <1>4, <3>1, <3>2
    <2>2. Agree(Overwrite(b, k, x, list, artefact), Overwrite(c, k, x, list, artefact))
      <3> DEFINE rowsOf == [c.rows EXCEPT ![k] = Merged(c, k, x, list, artefact)]
                 claims == Claim(c, k, x)
      <3>1. /\ Overwrite(b, k, x, list, artefact)
                 = Written(b, rowsOf, LastAsked(b.order, DOMAIN b.rows, k), claims, TRUE)
            /\ Overwrite(c, k, x, list, artefact)
                 = Written(c, rowsOf, LastAsked(c.order, DOMAIN c.rows, k), claims, TRUE)
        BY <1>2, <1>3, <1>5 DEF Overwrite
      <3> HIDE DEF rowsOf, claims
      <3> QED BY <1>4, <3>1
    <2> QED BY <2>1, <2>2
  <1>7. Agree(Add(b, x, fresh), Add(c, x, fresh))
    <2> DEFINE rowsOf == Append(c.rows, fresh)
               claims == Append(c.claims, x.id)
    <2>1. /\ Add(b, x, fresh)
               = Written(b, rowsOf, LastAsked(b.order, DOMAIN b.rows, Len(b.rows) + 1), claims, FALSE)
          /\ Add(c, x, fresh)
               = Written(c, rowsOf, LastAsked(c.order, DOMAIN c.rows, Len(c.rows) + 1), claims, FALSE)
      BY <1>5 DEF Add
    <2> HIDE DEF rowsOf, claims
    <2> QED BY <1>4, <2>1
  <1>8. \A book : Place(book, found, x, fresh, list, artefact) =
           IF found # 0 THEN Join(book, found, x, list, artefact)
           ELSE IF {k \in DOMAIN book.rows : book.rows[k].born = fresh.born} = {} THEN Add(book, x, fresh)
           ELSE Overwrite(book, Min({k \in DOMAIN book.rows : book.rows[k].born = fresh.born}),
                          x, list, artefact)
    BY DEF Place
  <1> QED BY <1>5, <1>6, <1>7, <1>8

(* Where the order decides nothing of a record, any order leaves books     *)
(* that agree.                                                             *)
LEMMA StepSame ==
  ASSUME NEW b, NEW c, Agree(b, c), NEW x, NEW n, NEW plan, NEW list, NEW artefact,
         ~Reconcile(b, x, n, plan, list, artefact).tied
  PROVE  /\ Agree(Reconcile(b, x, n, plan, list, artefact), Reconcile(c, x, n, plan, list, artefact))
         /\ ~b.tied
  <1> DEFINE Found(book) == Resolve(book, x, n, plan)
             Made(book) == Founded(book, x, list, artefact)
             Placed(book) == Place(book, Found(book), x, Made(book), list, artefact)
             next == Reconcile(b, x, n, plan, list, artefact)
             other == Reconcile(c, x, n, plan, list, artefact)
  <1>1. b.rows = c.rows /\ b.claims = c.claims
    BY DEF Agree
  <1>2. Candidates(b, x, n, plan) = Candidates(c, x, n, plan)
    <2>1. ExactRows(b, x) = ExactRows(c, x) /\ Near(b, x) = Near(c, x)
      BY <1>1, RowsSame
    <2> QED BY <1>1, <2>1 DEF Candidates
  <1>3. Placed(b).tied = b.tied
    BY DEF Place, Join, Add, Overwrite, Written
  <1> HIDE DEF Found, Made
  <1>4. /\ next.rows = Placed(b).rows /\ next.claims = Placed(b).claims
        /\ next.fits = Placed(b).fits /\ next.recurs = Placed(b).recurs
        /\ next.tied = (Placed(b).tied \/ Undecided(Candidates(b, x, n, plan)))
    BY ReconcilePlaces DEF Found, Made
  <1>5. /\ other.rows = Placed(c).rows /\ other.claims = Placed(c).claims
        /\ other.fits = Placed(c).fits /\ other.recurs = Placed(c).recurs
    BY ReconcilePlaces DEF Found, Made
  <1>6. ~b.tied /\ ~Undecided(Candidates(b, x, n, plan))
    <2> HIDE DEF Placed
    <2> QED BY <1>3, <1>4, Zenon
  <1>7. Found(b) = Found(c)
    BY <1>2, <1>6, FirstSame DEF Found, Resolve
  <1>8. Made(b) = Made(c)
    BY <1>1 DEF Made, Founded, FreeOccurrence
  <1>9. Agree(Placed(b), Placed(c))
    BY <1>7, <1>8, PlaceSame
  <1>10. Agree(next, other)
    <2> HIDE DEF Placed, next, other
    <2> QED BY <1>4, <1>5, <1>9 DEF Agree
  <1> QED BY <1>6, <1>10

(* THEOREM: what reconcile_batch leaves does not depend on the order the   *)
(* stored rows are asked in, where that order decided no tie: the plan is  *)
(* the same, and so is the row each record takes in its turn.              *)
THEOREM OrderDecidesOnlyTies ==
  ASSUME NEW old, NEW asked, NEW other, NEW list, NEW items, NEW settled,
         Answer(list, items, settled), NEW artefact,
         NEW result, result = ReconcileBatch(old, asked, Records(list, items), list, artefact),
         NEW again, again = ReconcileBatch(old, other, Records(list, items), list, artefact),
         ~result.tied \/ asked = other
  PROVE  again.rows = result.rows /\ (again.fits <=> result.fits)
  <1>1. CASE asked = other
    BY <1>1
  <1>2. CASE ~result.tied
    <2> DEFINE batch == Numbered(Records(list, items))
               N == Len(items)
               Loaded(order) == [rows |-> old, order |-> order, claims |-> [k \in DOMAIN old |-> NoId],
                                 fits |-> TRUE, recurs |-> FALSE, tied |-> FALSE]
               Start(order) == [Loaded(order) EXCEPT !.tied = PlanTied(Loaded(order), batch)]
               After(order) == Course(Start(order), batch, list, artefact)
    <2>1. Len(batch) = N /\ N \in Nat /\ DOMAIN batch = 1..N /\ Len(Records(list, items)) = N
      <3>1. Len(batch) = Len(items) /\ Len(items) \in Nat /\ DOMAIN batch = DOMAIN items
            /\ Len(Records(list, items)) = Len(items)
        BY RecordsAre
      <3>2. DOMAIN items = 1..Len(items)
        BY DEF Answer
      <3> QED BY <3>1, <3>2
    <2> HIDE DEF batch, N
    <2>2. result = After(asked)[N] /\ again = After(other)[N]
      BY <2>1 DEF ReconcileBatch, batch
    <2>3. \A order : /\ Loaded(order).rows = old /\ Loaded(order).claims = [k \in DOMAIN old |-> NoId]
                     /\ Start(order).rows = old /\ Start(order).claims = [k \in DOMAIN old |-> NoId]
                     /\ Start(order).fits = TRUE /\ Start(order).recurs = FALSE
                     /\ Start(order).tied = PlanTied(Loaded(order), batch)
      OBVIOUS
    <2> HIDE DEF Loaded, Start
    <2>4. \A order : /\ After(order)[0] = Start(order)
                     /\ \A n \in 1..N : After(order)[n] =
                            Reconcile(After(order)[n - 1], batch[n], n, PlanPartners(Start(order), batch),
                                      list, artefact)
      <3> SUFFICES ASSUME NEW order
                   PROVE  /\ After(order)[0] = Start(order)
                          /\ \A n \in 1..N : After(order)[n] =
                                 Reconcile(After(order)[n - 1], batch[n], n,
                                           PlanPartners(Start(order), batch), list, artefact)
        OBVIOUS
      <3> DEFINE start == Start(order)
      <3>1. Len(batch) \in Nat
        BY <2>1
      <3> HIDE DEF start
      <3>2. LET book == Course(start, batch, list, artefact)
                plan == PlanPartners(start, batch)
            IN /\ book[0] = start
               /\ \A n \in 1..Len(batch) :
                      book[n] = Reconcile(book[n - 1], batch[n], n, plan, list, artefact)
        BY <3>1, CourseIs
      <3> QED BY <2>1, <3>2 DEF start
    <2> HIDE DEF After
    <2> DEFINE plan == PlanPartners(Start(asked), batch)
               Goal(n) == Agree(After(asked)[n], After(other)[n])
               S == {n \in 0..N : ~After(asked)[n].tied
                          => Goal(n) /\ plan = PlanPartners(Start(other), batch)}
    <2>5. 0 \in S
      <3> SUFFICES ASSUME ~Start(asked).tied
                   PROVE  /\ Agree(Start(asked), Start(other))
                          /\ plan = PlanPartners(Start(other), batch)
        BY <2>1, <2>4
      <3>1. ~PlanTied(Loaded(asked), batch)
        BY <2>3
      <3>2. \A order : PlanPartners(Loaded(asked), batch) = PlanPartners(Start(order), batch)
        <4> SUFFICES ASSUME NEW order
                     PROVE  PlanPartners(Loaded(asked), batch) = PlanPartners(Start(order), batch)
          OBVIOUS
        <4>1. Loaded(asked).rows = Start(order).rows /\ Loaded(asked).claims = Start(order).claims
          BY <2>3
        <4> QED BY <2>1, <3>1, <4>1, PlanSame
      <3> QED BY <2>3, <3>2 DEF Agree
    <2>6. ASSUME NEW n \in 1..N, n - 1 \in S PROVE n \in S
      <3> SUFFICES ASSUME ~After(asked)[n].tied
                   PROVE  Goal(n) /\ plan = PlanPartners(Start(other), batch)
        OBVIOUS
      <3>0. After(asked)[n] = Reconcile(After(asked)[n - 1], batch[n], n, plan, list, artefact)
        BY <2>4
      <3>1. ~After(asked)[n - 1].tied
        <4> DEFINE b == After(asked)[n - 1]
        <4>1. Agree(b, b)
          BY DEF Agree
        <4> HIDE DEF b, plan
        <4> QED BY <3>0, <4>1, StepSame DEF b
      <3>2. Goal(n - 1) /\ plan = PlanPartners(Start(other), batch)
        BY <2>6, <3>1
      <3>3. After(other)[n] = Reconcile(After(other)[n - 1], batch[n], n, plan, list, artefact)
        BY <2>4, <3>2
      <3>4. Goal(n)
        BY <3>0, <3>2, <3>3, StepSame
      <3> QED BY <3>2, <3>4
    <2>7. N \in S
      <3>1. 0..N \subseteq S
        <4> HIDE DEF S
        <4> QED BY <2>1, <2>5, <2>6, StepByStep
      <3> QED BY <2>1, <3>1
    <2>8. Agree(result, again)
      BY <1>2, <2>2, <2>7
    <2> QED BY <2>8 DEF Agree
  <1> QED BY <1>1, <1>2

-----------------------------------------------------------------------------
(* A replay of one artefact more.                                          *)
LEMMA ReplayAppend ==
  ASSUME NEW T, NEW artefacts \in Seq(T), NEW a \in T
  PROVE  Replay(Append(artefacts, a)) = Replayed(Replay(artefacts), a, Len(artefacts) + 1)
  <1> DEFINE N == Len(artefacts)
             more == Append(artefacts, a)
  <1>1. N \in Nat /\ Len(more) = N + 1 /\ more[N + 1] = a /\ \A n \in 1..N : more[n] = artefacts[n]
    OBVIOUS
  <1>2. PICK store :
            /\ Replay(artefacts) = store[N]
            /\ store[0] = [rows |-> <<>>, order |-> {}, fits |-> TRUE]
            /\ \A n \in 1..N : store[n] = Replayed(store[n - 1], artefacts[n], n)
    BY <1>1, ReplayIs
  <1>3. PICK longer :
            /\ Replay(more) = longer[Len(more)]
            /\ longer[0] = [rows |-> <<>>, order |-> {}, fits |-> TRUE]
            /\ \A n \in 1..Len(more) : longer[n] = Replayed(longer[n - 1], more[n], n)
    <2>1. Len(more) \in Nat
      BY <1>1
    <2> HIDE DEF more
    <2> QED BY <2>1, ReplayIs
  <1> HIDE DEF N, more
  <1> DEFINE S == {n \in 0..N : longer[n] = store[n]}
  <1>4. 0 \in S
    BY <1>1, <1>2, <1>3
  <1>5. ASSUME NEW n \in 1..N, n - 1 \in S PROVE n \in S
    <2>1. n \in 1..Len(more) /\ n \in 0..N
      BY <1>1
    <2> QED BY <1>1, <1>2, <1>3, <1>5, <2>1
  <1>6. 0..N \subseteq S
    <2> HIDE DEF S
    <2> QED BY <1>1, <1>4, <1>5, StepByStep
  <1>7. longer[N] = store[N]
    BY <1>1, <1>6
  <1>8. longer[N + 1] = Replayed(longer[(N + 1) - 1], more[N + 1], N + 1)
    <2>1. N + 1 \in 1..Len(more)
      BY <1>1
    <2> QED BY <1>3, <2>1
  <1>9. (N + 1) - 1 = N
    BY <1>1
  <1> QED BY <1>1, <1>2, <1>3, <1>7, <1>8, <1>9 DEF N, more

(* The first entries of a sequence.                                        *)
LEMMA FirstEntries ==
  ASSUME NEW T, NEW s, NEW n \in Nat, \A i \in 1..n : s[i] \in T
  PROVE  SubSeq(s, 1, n) \in Seq(T) /\ Len(SubSeq(s, 1, n)) = n
  <1>1. 1 \in Int /\ n \in Int
    OBVIOUS
  <1>2. SubSeq(s, 1, n) \in Seq(T) /\ Len(SubSeq(s, 1, n)) = IF 1 <= n THEN n - 1 + 1 ELSE 0
    BY <1>1, SubSeqProperties
  <1> QED BY <1>2

(* All but the last of a sequence.                                         *)
LEMMA FrontIs ==
  ASSUME NEW T, NEW s \in Seq(T), NEW a \in T
  PROVE  /\ SubSeq(Append(s, a), 1, Len(s)) = s /\ Len(Append(s, a)) = Len(s) + 1
         /\ Len(s) \in Nat
  OBVIOUS

(* What a replay keeps of a list that is not pending.                      *)
LEMMA ReplayedSame ==
  ASSUME NEW store, store.fits, NEW a, a.list # "pending", NEW artefact, NEW result, result.fits,
         result = ReconcileBatch(store.rows, store.order, Records(a.list, a.items), a.list, artefact)
  PROVE  Replayed(store, a, artefact).fits /\ Replayed(store, a, artefact).rows = result.rows
  <1>1. Replayed(store, a, artefact) = Kept(store, a, result)
    BY DEF Replayed
  <1> QED BY <1>1 DEF Kept

(* The artefacts before the last.                                          *)
Before == SubSeq(landed, 1, Len(landed) - 1)

(* A replay leaves these rows, no write of it refused.                     *)
Matches(store, rowsOf) == store.fits /\ store.rows = rowsOf

(* The answer in hand is the artefact landed last, and for the first time. *)
Newest(list) ==
    LET answer == [list |-> list, items |-> reply] IN
    /\ landed = Append(Before, answer) /\ PlaceIn(landed, answer) = Len(landed)

(* What a replay makes of a pending list, before it asks what vanished.    *)
PendingPlaced ==
    ReconcileBatch(Replay(Before).rows, Replay(Before).order, Records("pending", reply), "pending",
                   Len(landed))

(* In a history without surprises the rows are, at each step of a pull,    *)
(* those a replay has at that step.                                        *)
ReplayInv ==
    odd = {} =>
        /\ pc \in {"idle", "booked done"} => Matches(Replay(landed), rows)
        /\ pc = "booked landed" => Newest("booked") /\ Matches(Replay(Before), rows)
        /\ pc = "pending landed" => Newest("pending") /\ Matches(Replay(Before), rows)
        /\ pc = "pending placed" => /\ Newest("pending") /\ Replay(Before).fits
                                    /\ Matches(PendingPlaced, rows)

(* The answers there can be.                                               *)
Artefacts == [list : Lists, items : Seq(Items)]

(* An answer that is news is the artefact landed last.                     *)
LEMMA NewsIs ==
  ASSUME Told, NEW list, NEW items, Answer(list, items, BookedIds),
         landed' = Landed(list, items), landed' # landed,
         NEW answer, answer = [list |-> list, items |-> items]
  PROVE  /\ landed' = Append(landed, answer) /\ landed \in Seq(Artefacts) /\ answer \in Artefacts
         /\ Before' = landed /\ Len(landed') = Len(landed) + 1
         /\ PlaceIn(landed', answer) = Len(landed') /\ Arrival(answer) = Len(landed')
         /\ SubSeq(landed, 1, Len(landed') - 1) = landed
  <1>1. landed \in Seq(Artefacts) /\ answer \in Artefacts
    BY DEF Told, Answered, Answer, Artefacts
  <1>2. landed' = Append(landed, answer)
    BY DEF Landed
  <1>3. Landing(landed, landed', answer) /\ Arrival(answer) = PlaceIn(landed', answer)
    BY LandedRight DEF Told
  <1>4. Len(landed') = Len(landed) + 1 /\ SubSeq(landed', 1, Len(landed)) = landed /\ Len(landed) \in Nat
    BY <1>1, <1>2, FrontIs
  <1>5. Before' = landed
    BY <1>4 DEF Before
  <1>6. DOMAIN landed = 1..Len(landed) /\ DOMAIN landed' = 1..(Len(landed) + 1)
    BY <1>1, <1>2
  <1>7. PlaceIn(landed', answer) = Len(landed')
    <2> DEFINE place == PlaceIn(landed', answer)
    <2>1. place \notin DOMAIN landed /\ place \in DOMAIN landed'
      BY <1>3 DEF Landing
    <2> HIDE DEF place
    <2>2. place = Len(landed')
      BY <1>4, <1>6, <2>1
    <2> QED BY <2>2 DEF place
  <1>8. SubSeq(landed, 1, Len(landed') - 1) = landed
    <2>1. Len(landed') - 1 = Len(landed)
      BY <1>4
    <2>2. SubSeq(landed, 1, Len(landed)) = landed
      BY <1>1
    <2> QED BY <2>1, <2>2
  <1> QED BY <1>1, <1>2, <1>3, <1>4, <1>5, <1>7, <1>8

(* A replay up to the artefact landed last.                                *)
LEMMA ReplayLast ==
  ASSUME landed \in Seq(Artefacts), NEW answer, landed = Append(Before, answer)
  PROVE  Replay(landed) = Replayed(Replay(Before), answer, Len(landed))
  <1>1. Len(landed) \in Nat \ {0}
    <2> SUFFICES ASSUME Len(landed) = 0 PROVE FALSE
      OBVIOUS
    <2>1. Before = <<>>
      BY SubSeqEmpty DEF Before
    <2>2. Len(Append(<<>>, answer)) = 1
      OBVIOUS
    <2> QED BY <2>1, <2>2
  <1>2. Before \in Seq(Artefacts) /\ Len(Before) = Len(landed) - 1
    <2> DEFINE n == Len(landed) - 1
    <2>1. n \in Nat /\ \A i \in 1..n : landed[i] \in Artefacts
      BY <1>1
    <2>2. Before = SubSeq(landed, 1, n)
      BY DEF Before
    <2> HIDE DEF n
    <2>3. SubSeq(landed, 1, n) \in Seq(Artefacts) /\ Len(SubSeq(landed, 1, n)) = n
      BY <2>1, FirstEntries
    <2> QED BY <2>2, <2>3 DEF n
  <1> DEFINE front == Before
  <1>3. front \in Seq(Artefacts) /\ landed = Append(front, answer) /\ Len(front) + 1 = Len(landed)
    BY <1>1, <1>2
  <1> HIDE DEF front
  <1>5. answer \in Artefacts
    <2>1. landed[Len(landed)] = answer /\ landed[Len(landed)] \in Artefacts
      BY <1>1, <1>3
    <2> QED BY <2>1
  <1>4. Replay(Append(front, answer)) = Replayed(Replay(front), answer, Len(front) + 1)
    BY <1>3, <1>5, ReplayAppend
  <1> QED BY <1>3, <1>4 DEF front

(* It is where the answer in hand has its place.                           *)
LEMMA ReplayNewest ==
  ASSUME Told, NEW list, Newest(list), NEW answer, answer = [list |-> list, items |-> reply],
         Answer(list, reply, BookedIds)
  PROVE  /\ Replay(landed) = Replayed(Replay(Before), answer, Len(landed))
         /\ Position(answer) = Len(landed)
  <1>1. landed \in Seq(Artefacts) /\ answer \in Artefacts
    BY DEF Told, Answered, Answer, Artefacts
  <1>2. landed = Append(Before, answer) /\ PlaceIn(landed, answer) = Len(landed)
    BY DEF Newest
  <1>3. Position(answer) = Len(landed)
    BY <1>2 DEF Position, PlaceIn
  <1> QED BY <1>1, <1>2, <1>3, ReplayLast

-----------------------------------------------------------------------------
(* An empty booked list changes nothing.                                   *)
LEMMA EmptyIs ==
  ASSUME NEW store, store.fits, NEW artefact, NEW settled
  PROVE  LET again == Replayed(store, [list |-> "booked", items |-> <<>>], artefact)
         IN Matches(again, store.rows)
  <1> DEFINE a == [list |-> "booked", items |-> <<>>]
             batch == Numbered(Records("booked", <<>>))
             loaded == [rows |-> store.rows, order |-> store.order,
                        claims |-> [k \in DOMAIN store.rows |-> NoId],
                        fits |-> TRUE, recurs |-> FALSE, tied |-> FALSE]
             tied == PlanTied(loaded, batch)
             start == [loaded EXCEPT !.tied = tied]
             result == ReconcileBatch(store.rows, store.order, Records("booked", <<>>), "booked", artefact)
  <1>1. Answer("booked", <<>>, settled)
    BY DEF Answer, Lists
  <1>2. Len(batch) = 0 /\ Len(Records("booked", <<>>)) = 0
    BY <1>1, RecordsAre
  <1> HIDE DEF batch, tied
  <1>3. result = Course(start, batch, "booked", artefact)[0]
    BY <1>2 DEF ReconcileBatch, batch, tied
  <1>4. start.rows = store.rows /\ start.fits
    OBVIOUS
  <1> HIDE DEF start, result
  <1>5. result = start
    <2>1. Len(batch) \in Nat
      BY <1>2
    <2>2. LET book == Course(start, batch, "booked", artefact)
              plan == PlanPartners(start, batch)
          IN /\ book[0] = start
             /\ \A n \in 1..Len(batch) :
                    book[n] = Reconcile(book[n - 1], batch[n], n, plan, "booked", artefact)
      BY <2>1, CourseIs
    <2> QED BY <1>3, <2>2
  <1>6. Replayed(store, a, artefact) = Kept(store, a, result) /\ a.list = "booked" /\ a.items = <<>>
    BY DEF Replayed, result
  <1> HIDE DEF a
  <1>7. Matches(Kept(store, a, result), store.rows)
    BY <1>4, <1>5, <1>6 DEF Kept, Matches
  <1> QED BY <1>6, <1>7 DEF a

LEMMA InitReplays ==
  ASSUME Init
  PROVE  ReplayInv
  <1>1. landed = <<>> /\ rows = <<>> /\ pc = "idle"
    BY DEF Init
  <1>2. PICK store : /\ Replay(<<>>) = store[Len(<<>>)]
                     /\ store[0] = [rows |-> <<>>, order |-> {}, fits |-> TRUE]
    <2>1. Len(<<>>) \in Nat
      OBVIOUS
    <2> QED BY <2>1, ReplayIs
  <1>3. Replay(<<>>) = [rows |-> <<>>, order |-> {}, fits |-> TRUE]
    BY <1>2
  <1> QED BY <1>1, <1>3 DEF ReplayInv, Matches

(* A question asked: the answer is news, unless the history is not plain.  *)
LEMMA AskedReplays ==
  ASSUME RowsInv, ReplayInv, pc \in {"idle", "booked done"}, odd = {}, NEW list, NEW items,
         Answer(list, items, BookedIds), landed' = Landed(list, items), landed' # landed,
         reply' = items, rows' = rows
  PROVE  /\ Newest(list)' /\ Matches(Replay(Before'), rows')
         /\ list = "booked" /\ items = <<>> => Matches(Replay(landed'), rows')
  <1> DEFINE answer == [list |-> list, items |-> items]
  <1>1. Told
    BY DEF RowsInv
  <1> HIDE DEF answer
  <1>2. /\ landed' = Append(landed, answer) /\ landed \in Seq(Artefacts) /\ answer \in Artefacts
        /\ Before' = landed /\ PlaceIn(landed', answer) = Len(landed')
    BY <1>1, NewsIs DEF answer
  <1>3. Matches(Replay(landed), rows)
    BY DEF ReplayInv
  <1>4. Newest(list)'
    <2>1. landed' = Append(Before', answer) /\ PlaceIn(landed', answer) = Len(landed')
      BY <1>2
    <2> QED BY <2>1 DEF Newest, answer
  <1>5. Matches(Replay(Before'), rows')
    BY <1>2, <1>3
  <1>6. ASSUME list = "booked", items = <<>> PROVE Matches(Replay(landed'), rows')
    <2>1. Replay(landed') = Replayed(Replay(landed), answer, Len(landed) + 1)
      BY <1>2, ReplayAppend
    <2>2. answer = [list |-> "booked", items |-> <<>>]
      BY <1>6 DEF answer
    <2>3. Matches(Replayed(Replay(landed), [list |-> "booked", items |-> <<>>], Len(landed) + 1),
                  Replay(landed).rows)
      <3>1. Replay(landed).fits
        BY <1>3 DEF Matches
      <3> QED BY <3>1, EmptyIs
    <2> QED BY <1>3, <2>1, <2>2, <2>3 DEF Matches
  <1> QED BY <1>4, <1>5, <1>6

LEMMA AskBookedReplays ==
  ASSUME RowsInv, ReplayInv, AskBooked, odd' = {}
  PROVE  ReplayInv'
  <1>1. PICK items \in Listings(Settled, "booked") :
           /\ landed' = Landed("booked", items) /\ odd' = odd \cup Repeated /\ reply' = items
    BY DEF AskBooked
  <1>2. /\ pc = "idle" /\ rows' = rows
        /\ pc' = IF reply' = <<>> THEN "booked done" ELSE "booked landed"
    BY DEF AskBooked
  <1>3. odd = {} /\ landed' # landed
    BY <1>1 DEF Repeated
  <1>4. Answer("booked", items, BookedIds)
    <2>1. Settled \in SUBSET Payments /\ "booked" \in Lists
      BY DEF Settled, Lists
    <2>2. Typed
      BY DEF RowsInv
    <2> QED BY <2>1, <2>2, ListingRight
  <1>5. /\ Newest("booked")' /\ Matches(Replay(Before'), rows')
        /\ items = <<>> => Matches(Replay(landed'), rows')
    BY <1>1, <1>2, <1>3, <1>4, AskedReplays
  <1> QED BY <1>1, <1>2, <1>5 DEF ReplayInv

LEMMA AskPendingReplays ==
  ASSUME RowsInv, ReplayInv, AskPending, odd' = {}
  PROVE  ReplayInv'
  <1>1. PICK stale \in SUBSET Settled : \E items \in Listings(Held \cup stale, "pending") :
           /\ landed' = Landed("pending", items) /\ reply' = items
           /\ odd' = odd \cup Repeated \cup (IF items = <<>> THEN {"empty"} ELSE {})
                         \cup {"stale" : p \in stale}
    BY DEF AskPending
  <1>2. PICK items \in Listings(Held \cup stale, "pending") :
           /\ landed' = Landed("pending", items) /\ reply' = items
           /\ odd' = odd \cup Repeated \cup (IF items = <<>> THEN {"empty"} ELSE {})
                         \cup {"stale" : p \in stale}
    BY <1>1
  <1>3. /\ pc = "booked done" /\ rows' = rows
        /\ pc' = IF reply' = <<>> THEN "idle" ELSE "pending landed"
    BY DEF AskPending
  <1>4. odd = {} /\ landed' # landed /\ items # <<>>
    BY <1>2 DEF Repeated
  <1>5. Answer("pending", items, BookedIds)
    <2>1. Held \cup stale \in SUBSET Payments /\ "pending" \in Lists
      BY DEF Settled, Held, Lists
    <2>2. Typed
      BY DEF RowsInv
    <2> QED BY <2>1, <2>2, ListingRight
  <1>6. Newest("pending")' /\ Matches(Replay(Before'), rows')
    BY <1>2, <1>3, <1>4, <1>5, AskedReplays
  <1> QED BY <1>2, <1>3, <1>4, <1>6 DEF ReplayInv

(* A reply reconciled without surprises: what is made of it live is what a  *)
(* replay makes of it.                                                     *)
LEMMA ReplyReplays ==
  ASSUME RowsInv, NEW list \in {"booked", "pending"}, Waiting(list), Newest(list),
         Matches(Replay(Before), rows), NEW next, ReconcileReply(list, next), landed' = landed,
         odd' = {}
  PROVE  /\ pc' = next /\ reply' = reply
         /\ Replay(Before).fits
         /\ Matches(ReconcileBatch(Replay(Before).rows, Replay(Before).order, Records(list, reply), list,
                                   Len(landed)), rows')
         /\ list = "booked" => Matches(Replay(landed), rows')
  <1> DEFINE answer == [list |-> list, items |-> reply]
             result == Outcome(list, reply)
             store == Replay(Before)
             again == ReconcileBatch(store.rows, store.order, Records(list, reply), list, Len(landed))
  <1>1. Told /\ Answer(list, reply, BookedIds)
    BY DEF RowsInv, Waiting
  <1>2. /\ Replay(landed) = Replayed(store, answer, Len(landed))
        /\ Position(answer) = Len(landed)
    BY <1>1, ReplayNewest
  <1>3. result = ReconcileBatch(rows, LoadOrder(rows), Records(list, reply), list, Len(landed))
    BY <1>2 DEF Outcome
  <1>4. store.rows = rows /\ store.fits
    BY DEF Matches
  <1>5. \/ /\ result.fits
           /\ rows' = result.rows /\ odd' = odd \cup Recurring(result) \cup Reordered(result, Position(answer))
           /\ pc' = next /\ reply' = reply
        \/ odd' = odd \cup {"cut short"}
    BY DEF ReconcileReply
  <1> HIDE DEF result
  <1>6. /\ result.fits /\ rows' = result.rows /\ pc' = next /\ reply' = reply
        /\ Reordered(result, Len(landed)) = {}
    BY <1>2, <1>5
  <1>7. ~result.tied \/ LoadOrder(rows) = store.order
    BY <1>6 DEF Reordered, Before
  <1> HIDE DEF answer, store
  <1>8. again.rows = result.rows /\ (again.fits <=> result.fits)
    BY <1>1, <1>3, <1>4, <1>7, OrderDecidesOnlyTies
  <1>9. Matches(again, rows')
    <2> HIDE DEF again
    <2> QED BY <1>6, <1>8 DEF Matches
  <1>10. ASSUME list = "booked" PROVE Matches(Replay(landed), rows')
    <2> DEFINE after == Replayed(store, answer, Len(landed))
    <2>1. answer.list = "booked" /\ answer.items = reply
      BY <1>10 DEF answer
    <2>2. again = ReconcileBatch(store.rows, store.order, Records(answer.list, answer.items),
                                 answer.list, Len(landed))
      BY <1>10, <2>1
    <2> HIDE DEF again
    <2>3. after.fits /\ after.rows = result.rows
      BY <1>4, <1>6, <1>8, <2>1, <2>2, ReplayedSame
    <2>4. Replay(landed) = after
      BY <1>2
    <2> HIDE DEF after
    <2> QED BY <1>6, <2>3, <2>4 DEF Matches
  <1> QED BY <1>4, <1>6, <1>9, <1>10 DEF store

LEMMA ReconcileBookedReplays ==
  ASSUME RowsInv, ReplayInv, ReconcileBooked, odd' = {}
  PROVE  ReplayInv'
  <1>1. pc = "booked landed" /\ ReconcileReply("booked", "booked done") /\ landed' = landed
    BY DEF ReconcileBooked
  <1>2. odd = {}
    BY <1>1 DEF ReconcileReply
  <1>3. Waiting("booked") /\ Newest("booked") /\ Matches(Replay(Before), rows)
    BY <1>1, <1>2 DEF RowsInv, ReplayInv
  <1>4. pc' = "booked done" /\ Matches(Replay(landed), rows')
    BY <1>1, <1>3, ReplyReplays
  <1> QED BY <1>1, <1>4 DEF ReplayInv

LEMMA ReconcilePendingReplays ==
  ASSUME RowsInv, ReplayInv, ReconcilePending, odd' = {}
  PROVE  ReplayInv'
  <1>1. pc = "pending landed" /\ ReconcileReply("pending", "pending placed") /\ landed' = landed
    BY DEF ReconcilePending
  <1>2. odd = {}
    BY <1>1 DEF ReconcileReply
  <1>3. Waiting("pending") /\ Newest("pending") /\ Matches(Replay(Before), rows)
    BY <1>1, <1>2 DEF RowsInv, ReplayInv
  <1>4. /\ pc' = "pending placed" /\ reply' = reply /\ Replay(Before).fits
        /\ Matches(PendingPlaced, rows')
    BY <1>1, <1>3, ReplyReplays DEF PendingPlaced
  <1>5. Before' = Before
    BY <1>1 DEF Before
  <1>6. Newest("pending")' /\ Matches(PendingPlaced', rows')
    BY <1>1, <1>3, <1>4, <1>5 DEF Newest, PendingPlaced
  <1> QED BY <1>1, <1>4, <1>5, <1>6 DEF ReplayInv

LEMMA VanishReplays ==
  ASSUME RowsInv, ReplayInv, Vanish, odd' = {}
  PROVE  ReplayInv'
  <1>1. /\ pc = "pending placed" /\ pc' = "idle" /\ landed' = landed /\ odd' = odd
        /\ rows' = ResolveVanished(rows, {item.id : item \in ToSet(reply)})
    BY DEF Vanish
  <1>2. Newest("pending") /\ Replay(Before).fits /\ Matches(PendingPlaced, rows)
    BY <1>1 DEF ReplayInv
  <1> DEFINE answer == [list |-> "pending", items |-> reply]
             store == Replay(Before)
  <1>3. Replay(landed) = Kept(store, answer, PendingPlaced)
    <2>1. landed = Append(Before, answer)
      BY <1>2 DEF Newest
    <2>2. landed \in Seq(Artefacts)
      BY DEF RowsInv, Told, Answered, Artefacts
    <2>3. Replay(landed) = Replayed(store, answer, Len(landed))
      BY <2>1, <2>2, ReplayLast
    <2> QED BY <2>3 DEF Replayed, PendingPlaced
  <1>4. answer.list = "pending" /\ answer.items = reply
    OBVIOUS
  <1> DEFINE placed == PendingPlaced
  <1>5. placed.rows = rows /\ placed.fits /\ store.fits
    BY <1>2 DEF Matches
  <1> HIDE DEF answer, store, placed
  <1>6. Matches(Kept(store, answer, placed), rows')
    BY <1>1, <1>4, <1>5 DEF Kept, Matches
  <1>7. Matches(Replay(landed'), rows')
    BY <1>1, <1>3, <1>6 DEF placed
  <1> QED BY <1>1, <1>7 DEF ReplayInv

LEMMA ImportReplays ==
  ASSUME RowsInv, ReplayInv, Import, odd' = {}
  PROVE  ReplayInv'
  <1>1. PICK lo \in 1..LastDay, hi \in 1..LastDay :
        \E items \in Listings({p \in Settled : facts.days[p]["export"] \in lo..hi}, "export") :
        \E artefact \in {Arrival([list |-> "export", items |-> items])} :
        \E result \in {ReconcileBatch(rows, LoadOrder(rows), Records("export", items), "export",
                                      artefact)} :
            /\ items # <<>>
            /\ landed' = Landed("export", items)
            /\ odd' = odd \cup Repeated \cup (IF pc = "idle" THEN {} ELSE {"amid a pull"})
                          \cup (IF result.fits
                                   THEN Recurring(result) \cup Reordered(result, artefact)
                                   ELSE {"cut short"})
            /\ rows' = IF result.fits THEN result.rows ELSE rows
    BY DEF Import
  <1>2. PICK items \in Listings({p \in Settled : facts.days[p]["export"] \in lo..hi}, "export") :
        \E artefact \in {Arrival([list |-> "export", items |-> items])} :
        \E result \in {ReconcileBatch(rows, LoadOrder(rows), Records("export", items), "export",
                                      artefact)} :
            /\ items # <<>>
            /\ landed' = Landed("export", items)
            /\ odd' = odd \cup Repeated \cup (IF pc = "idle" THEN {} ELSE {"amid a pull"})
                          \cup (IF result.fits
                                   THEN Recurring(result) \cup Reordered(result, artefact)
                                   ELSE {"cut short"})
            /\ rows' = IF result.fits THEN result.rows ELSE rows
    BY <1>1
  <1> DEFINE answer == [list |-> "export", items |-> items]
             result == ReconcileBatch(rows, LoadOrder(rows), Records("export", items), "export",
                                      Arrival(answer))
  <1>3. /\ landed' = Landed("export", items)
        /\ odd' = odd \cup Repeated \cup (IF pc = "idle" THEN {} ELSE {"amid a pull"})
                      \cup (IF result.fits
                               THEN Recurring(result) \cup Reordered(result, Arrival(answer))
                               ELSE {"cut short"})
        /\ rows' = IF result.fits THEN result.rows ELSE rows
    BY <1>2
  <1> HIDE DEF result, answer
  <1>4. /\ odd = {} /\ landed' # landed /\ pc = "idle" /\ result.fits /\ rows' = result.rows
        /\ Reordered(result, Arrival(answer)) = {}
    BY <1>3 DEF Repeated
  <1>5. Told /\ Answer("export", items, BookedIds)
    <2>1. {p \in Settled : facts.days[p]["export"] \in lo..hi} \in SUBSET Payments
      BY DEF Settled
    <2>2. "export" \in Lists /\ Told /\ Typed
      BY DEF Lists, RowsInv
    <2> QED BY <2>1, <2>2, ListingRight
  <1>6. /\ landed' = Append(landed, answer) /\ landed \in Seq(Artefacts) /\ answer \in Artefacts
        /\ Len(landed') = Len(landed) + 1 /\ Arrival(answer) = Len(landed')
        /\ SubSeq(landed, 1, Len(landed') - 1) = landed
    BY <1>3, <1>4, <1>5, NewsIs DEF answer
  <1> DEFINE store == Replay(landed)
             after == Replayed(store, answer, Len(landed'))
  <1>7. store.rows = rows /\ store.fits
    BY <1>4 DEF ReplayInv, Matches
  <1>8. ~result.tied \/ LoadOrder(rows) = store.order
    BY <1>4, <1>6 DEF Reordered
  <1>9. result = ReconcileBatch(rows, LoadOrder(rows), Records("export", items), "export", Len(landed'))
    BY <1>6 DEF result
  <1>10. Replay(landed') = after
    BY <1>6, ReplayAppend
  <1> HIDE DEF store
  <1>11. after.fits /\ after.rows = result.rows
    <2> DEFINE again == ReconcileBatch(store.rows, store.order, Records("export", items), "export",
                                       Len(landed'))
    <2>1. answer.list = "export" /\ answer.items = items
      BY DEF answer
    <2>2. again.rows = result.rows /\ (again.fits <=> result.fits)
      BY <1>5, <1>7, <1>8, <1>9, OrderDecidesOnlyTies
    <2>3. again = ReconcileBatch(store.rows, store.order, Records(answer.list, answer.items),
                                 answer.list, Len(landed'))
      BY <2>1
    <2> HIDE DEF again
    <2> QED BY <1>4, <1>7, <2>1, <2>2, <2>3, ReplayedSame
  <1> HIDE DEF after
  <1>12. Matches(Replay(landed'), rows')
    BY <1>4, <1>10, <1>11 DEF Matches
  <1>13. pc' = "idle"
    BY <1>4 DEF Import
  <1> QED BY <1>12, <1>13 DEF ReplayInv

(* Every step keeps it.                                                    *)
LEMMA NextReplays ==
  ASSUME RowsInv, ReplayInv, [Next]_vars
  PROVE  ReplayInv'
  <1> SUFFICES ASSUME odd' = {} PROVE ReplayInv'
    BY DEF ReplayInv
  <1>1. CASE \E p \in Payments : BankMoves(p)
    BY <1>1 DEF BankMoves, ReplayInv
  <1>2. CASE PullStops
    BY <1>2 DEF PullStops
  <1>3. CASE Rebuild
    BY <1>3 DEF Rebuild, ReplayInv, Matches
  <1>4. CASE UNCHANGED vars
    <2>1. landed' = landed /\ rows' = rows /\ pc' = pc /\ reply' = reply /\ odd' = odd
      BY <1>4 DEF vars
    <2>2. Before' = Before
      BY <2>1 DEF Before
    <2>3. \A list : Newest(list) => Newest(list)'
      BY <2>1, <2>2 DEF Newest
    <2>4. PendingPlaced' = PendingPlaced
      BY <2>1, <2>2 DEF PendingPlaced
    <2> QED BY <2>1, <2>2, <2>3, <2>4 DEF ReplayInv
  <1>5. CASE AskBooked \/ AskPending \/ ReconcileBooked \/ ReconcilePending \/ Vanish \/ Import
    BY <1>5, AskBookedReplays, AskPendingReplays, ReconcileBookedReplays, ReconcilePendingReplays,
       VanishReplays, ImportReplays
  <1> QED BY <1>1, <1>2, <1>3, <1>4, <1>5 DEF Next

(* THEOREM: between pulls, the rows a replay of the artefacts gives are the *)
(* rows there are, in any history without surprises, however long.         *)
THEOREM ReplaysAlike == Spec => []ReplayReproducesPlainly
  <1>1. Init => ReplayInv
    BY InitReplays
  <1>2. RowsInv /\ ReplayInv /\ [Next]_vars => ReplayInv'
    BY NextReplays
  <1>3. ReplayInv => ReplayReproducesPlainly
    BY DEF ReplayInv, Matches, ReplayReproducesPlainly, Reproduced
  <1> QED BY <1>1, <1>2, <1>3, RowsInvariant, PTL DEF Spec
==============================================================================
