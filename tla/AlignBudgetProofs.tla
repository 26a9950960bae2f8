------------------------- MODULE AlignBudgetProofs -------------------------
(***************************************************************************)
(* Proved of AlignBudget for any rows, accounts, changes, faults and        *)
(* confirmed counts: its types, that a job leaves what is not its own       *)
(* alone, that it keeps the linked pairs it was sent, that it removes only  *)
(* what was confirmed, that "complete" means aligned, and that the links a  *)
(* push leaves do not depend on the order it took the pairs in.             *)
(***************************************************************************)
EXTENDS AlignBudget, FiniteSetTheorems, SequenceTheorems, TLAPS

(***************************************************************************)
(* The invariant.                                                           *)
(***************************************************************************)

Ends == Rows \cup {NoRow}
Updates == [row : Rows, ends : SUBSET Ends]
Own(r) == r \in Ours \ locked

(* A row of obdi's own, that nothing but another such row hangs on.         *)
Touchable(r) == Own(r) /\ (link[r] = NoRow \/ Own(link[r]))

(* The types and places that TypeOK leaves open.                            *)
InPlace ==
    /\ request.expected \subseteq Ours /\ request.shown \in Nat
    /\ request.kind \in {"none", "push", "prune", "align"}
    /\ ops \in Seq(Updates)
    /\ ops # <<>> => pc \in {"release", "prune"}
    /\ pc \in {"idle", "queued", "import", "link"} => inhand = NoRow
    /\ pc # "prune" => plan = {}
    /\ pc \in {"release", "link", "second"} => todo \subseteq request.pairs

(* Each update still to do clears a row the job may touch; after the last   *)
(* of a removal the orphan itself is unlinked.                              *)
Clearing ==
    /\ \A k \in 1..Len(ops) : Touchable(ops[k].row)
    /\ pc = "release" => \A k \in 1..Len(ops) : ops[k].row \notin Kept(start)
    /\ pc = "prune" /\ ops # <<>> =>
           /\ ops[Len(ops)].row = inhand /\ inhand # NoRow
           /\ \A k \in 1..Len(ops) : ops[k].row = inhand \/ link[ops[k].row] \in {NoRow, inhand}

(* The stages before the removal only clear links that were read, until     *)
(* the pairs are linked, each by itself.                                    *)
AsRead ==
    /\ pc = "release" =>
           /\ \A r \in Rows : link[r] \in {start[r], NoRow}
           /\ todo \subseteq ToRelink(start)
    /\ pc \in {"link", "second"} =>
           \A p \in todo, r \in Rows : r \in Legs(p) => link[r] \in {index[r], NoRow}
    /\ pc = "second" =>
           /\ inhand \in request.pairs /\ inhand \notin todo /\ Usable(inhand)
           /\ link[inhand[2]] \in {NoRow, inhand[1]}

(* What is planned to go or in hand to go is an orphan.                     *)
Leaving == removed \cup {t.row : t \in plan} \cup (IF pc = "prune" THEN {inhand} \ {NoRow} ELSE {})
Condemned ==
    /\ \A t \in plan : t.partner \in Ends /\ (t.partner = NoRow => link[t.row] = NoRow)
    /\ Leaving \subseteq Ours \ request.expected
    /\ pc = "prune" /\ inhand # NoRow /\ ops = <<>> => link[inhand] = NoRow
    /\ pc = "prune" => round = 1 /\ \A a \in todo : Leaving \cap Of(a) = {}
    /\ round = 1 /\ pc \in {"idle", "queued", "import", "release", "link", "second"} => removed = {}
    /\ pc \in {"idle", "queued"} => round = 1
    /\ \A a \in Accounts : Cardinality(Leaving \cap Of(a)) <= request.shown

IInv == TypeOK /\ InPlace /\ Clearing /\ AsRead /\ Condemned

(***************************************************************************)
(* Pairs, and the updates that clear a link.                                *)
(***************************************************************************)

USE OursAssumption, DebitsAssumption, AccountAssumption, NoRowAssumption, BoundsAssumption

LEMMA PairsApart ==
  ASSUME NEW S, NEW m \in Pairings(S)
  PROVE  /\ m \subseteq Ours \X Ours
         /\ \A p \in m : p[1] # p[2] /\ Legs(p) \subseteq S
         /\ \A p, q \in m : p # q => Legs(p) \cap Legs(q) = {}
  BY DEF Pairings, Sides, Opposite

LEMMA FewerPairs ==
  ASSUME NEW S, NEW T, NEW m \in Pairings(S), NEW n \in SUBSET m,
         \A p \in n : Legs(p) \subseteq T
  PROVE  n \in Pairings(T)
  BY DEF Pairings

LEMMA ConcatParts ==
  ASSUME NEW S, NEW a \in Seq(S), NEW b \in Seq(S), NEW k \in 1..Len(a \o b)
  PROVE  \/ \E i \in 1..Len(a) : (a \o b)[k] = a[i]
         \/ \E i \in 1..Len(b) : (a \o b)[k] = b[i]
  <1>1. CASE k <= Len(a)
    BY <1>1
  <1>2. CASE k > Len(a)
    <2>1. k - Len(a) \in 1..Len(b) /\ (a \o b)[k] = b[k - Len(a)]
      BY <1>2
    <2> QED BY <2>1
  <1> QED BY <1>1, <1>2

LEMMA UnlinkParts ==
  ASSUME NEW l \in [Rows -> Ends], NEW leg \in Rows, l[leg] \in Rows
  PROVE  /\ Unlink(leg, l) \in Seq(Updates) /\ Unlink(leg, l) # <<>>
         /\ Unlink(leg, l)[Len(Unlink(leg, l))].row = leg
         /\ \A k \in 1..Len(Unlink(leg, l)) : Unlink(leg, l)[k].row \in {leg, l[leg]}
  <1> DEFINE key == {leg, l[leg]}
             first == [row |-> l[leg], ends |-> {}]
             last == [row |-> leg, ends |-> key]
  <1>1. first \in Updates /\ last \in Updates
    BY DEF Updates, Ends
  <1>2. Unlink(leg, l) = IF l[l[leg]] = NoRow THEN <<last>> ELSE <<first>> \o <<last>>
    BY Zenon DEF Unlink
  <1>3. first.row = l[leg] /\ last.row = leg
    OBVIOUS
  <1> HIDE DEF first, last
  <1>4. /\ <<first>> \o <<last>> \in Seq(Updates) /\ Len(<<first>> \o <<last>>) = 2
        /\ (<<first>> \o <<last>>)[1] = first /\ (<<first>> \o <<last>>)[2] = last
    BY <1>1
  <1>5. CASE l[l[leg]] = NoRow
    BY <1>1, <1>2, <1>3, <1>5
  <1>6. CASE l[l[leg]] # NoRow
    BY <1>2, <1>3, <1>4, <1>6
  <1> QED BY <1>5, <1>6

LEMMA ReleaseParts ==
  ASSUME NEW l \in [Rows -> Ends], NEW p \in Rows \X Rows
  PROVE  /\ Release(p, l) \in Seq(Updates)
         /\ \A k \in 1..Len(Release(p, l)) : \E r \in Elsewhere(p, l) :
                Release(p, l)[k].row \in {r, l[r]}
  <1> DEFINE Leg(r) == IF r \in Elsewhere(p, l) /\ {r, l[r]} \notin released
                       THEN Unlink(r, l) ELSE <<>>
  <1>1. ASSUME NEW r \in {p[1], p[2]}
        PROVE  /\ Leg(r) \in Seq(Updates)
               /\ \A k \in 1..Len(Leg(r)) : r \in Elsewhere(p, l) /\ Leg(r)[k].row \in {r, l[r]}
    <2>1. CASE r \in Elsewhere(p, l) /\ {r, l[r]} \notin released
      <3>1. r \in Rows /\ l[r] \in Rows
        BY <2>1 DEF Elsewhere, Ends
      <3> QED BY <2>1, <3>1, UnlinkParts
    <2>2. CASE ~(r \in Elsewhere(p, l) /\ {r, l[r]} \notin released)
      <3>1. Leg(r) = <<>>
        BY <2>2
      <3> HIDE DEF Leg
      <3> QED BY <3>1
    <2> QED BY <2>1, <2>2
  <1>2. Release(p, l) = Leg(p[1]) \o Leg(p[2])
    BY DEF Release
  <1> HIDE DEF Leg
  <1>3. Release(p, l) \in Seq(Updates)
    BY <1>1, <1>2
  <1>4. ASSUME NEW k \in 1..Len(Release(p, l))
        PROVE  \E r \in Elsewhere(p, l) : Release(p, l)[k].row \in {r, l[r]}
    <2>1. Leg(p[1]) \in Seq(Updates) /\ Leg(p[2]) \in Seq(Updates)
      BY <1>1
    <2>2. \/ \E i \in 1..Len(Leg(p[1])) : Release(p, l)[k] = Leg(p[1])[i]
          \/ \E i \in 1..Len(Leg(p[2])) : Release(p, l)[k] = Leg(p[2])[i]
      BY <1>2, <2>1, ConcatParts
    <2> QED BY <1>1, <2>2
  <1> QED BY <1>3, <1>4

LEMMA OneLessUpdate ==
  ASSUME NEW s \in Seq(Updates), s # <<>>
  PROVE  /\ Head(s) = s[1] /\ 1 \in 1..Len(s) /\ s[1] \in Updates /\ Tail(s) \in Seq(Updates)
         /\ \A k \in 1..Len(Tail(s)) : k + 1 \in 1..Len(s) /\ Tail(s)[k] = s[k + 1]
         /\ Tail(s) = <<>> => Len(s) = 1
         /\ Tail(s) # <<>> => Tail(s)[Len(Tail(s))] = s[Len(s)]
  <1>1. Len(s) \in Nat \ {0} /\ Len(Tail(s)) = Len(s) - 1 /\ Tail(s) \in Seq(Updates)
    OBVIOUS
  <1>2. \A k \in 1..Len(Tail(s)) : k + 1 \in 1..Len(s) /\ Tail(s)[k] = s[k + 1]
    BY <1>1
  <1>3. Head(s) = s[1] /\ 1 \in 1..Len(s) /\ s[1] \in Updates
    BY <1>1
  <1>4. Tail(s) = <<>> => Len(s) = 1
    <2> DEFINE m == Len(Tail(s))
               n == Len(s)
    <2>1. m = n - 1 /\ n \in Nat
      BY <1>1
    <2>2. Tail(s) = <<>> => m = 0
      <3>1. Len(<<>>) = 0
        BY EmptySeq
      <3> QED BY <3>1, Zenon
    <2> HIDE DEF m
    <2>3. m = 0 => n = 1
      BY <2>1
    <2> QED BY <2>2, <2>3, Zenon
  <1>5. ASSUME Tail(s) # <<>> PROVE Len(Tail(s)) \in 1..Len(Tail(s)) /\ Len(Tail(s)) + 1 = Len(s)
    <2> DEFINE tail == Tail(s)
    <2>1. tail \in Seq(Updates) /\ tail # <<>>
      BY <1>1, <1>5
    <2> HIDE DEF tail
    <2>2. Len(tail) \in Nat \ {0}
      BY <2>1, EmptySeq
    <2> QED BY <1>1, <2>2 DEF tail
  <1> QED BY <1>1, <1>2, <1>3, <1>4, <1>5

(* A count that is kept when nothing is added.                              *)
LEMMA FewerLeaving ==
  ASSUME IInv, UNCHANGED request, Leaving' \subseteq Leaving
  PROVE  \A a \in Accounts : Cardinality(Leaving' \cap Of(a)) <= request'.shown
  <1> SUFFICES ASSUME NEW a \in Accounts
               PROVE  Cardinality(Leaving' \cap Of(a)) <= request.shown
    OBVIOUS
  <1>1. Leaving \subseteq Rows /\ Cardinality(Leaving \cap Of(a)) <= request.shown
    BY DEF IInv, Condemned
  <1>2. IsFiniteSet(Leaving \cap Of(a))
    BY <1>1, RowsAssumption, FS_Subset
  <1>3. Cardinality(Leaving' \cap Of(a)) <= Cardinality(Leaving \cap Of(a))
    BY <1>2, FS_Subset
  <1>4. Cardinality(Leaving' \cap Of(a)) \in Nat /\ Cardinality(Leaving \cap Of(a)) \in Nat
    BY <1>2, FS_Subset, FS_CardinalityType
  <1> QED BY <1>1, <1>3, <1>4 DEF IInv, InPlace

LEMMA InitIInv == Init => IInv
  <1> SUFFICES ASSUME Init PROVE IInv
    OBVIOUS
  <1>1. TypeOK
    <2>1. {} \in Pairings({})
      BY DEF Pairings
    <2>2. failed \in BOOLEAN /\ unlinked \in BOOLEAN
      BY Zenon DEF Init
    <2> QED BY <2>1, <2>2 DEF Init, TypeOK, NoRequest
  <1>2. InPlace /\ Clearing /\ AsRead
    BY DEF Init, InPlace, Clearing, AsRead, NoRequest
  <1>3. Leaving = {}
    BY DEF Init, Leaving
  <1>4. \A a \in Accounts : Cardinality(Leaving \cap Of(a)) <= request.shown
    BY <1>3, FS_EmptySet DEF Init, NoRequest
  <1>5. Condemned
    BY <1>3, <1>4 DEF Init, Condemned
  <1> QED BY <1>1, <1>2, <1>5 DEF IInv

(***************************************************************************)
(* The store and the person, between the jobs.                              *)
(***************************************************************************)

LEMMA WaitingKeeps ==
  ASSUME IInv, Changed, held' \subseteq Ours, pairs' \in Pairings(held'), present' \subseteq Rows,
         link' \in [Rows -> Ends], locked' \subseteq Rows
  PROVE  IInv'
  <1>1. /\ pc \in {"idle", "queued"} /\ ops = <<>> /\ plan = {}
        /\ UNCHANGED <<pc, request, round, start, index, released, barred, unlinked, removed,
                       todo, plan, ops, inhand, failed, faults>>
        /\ changes' \in 0..MaxChanges
    BY DEF Changed, Waiting, linking, removing, work, IInv, InPlace, TypeOK
  <1>2. TypeOK' /\ InPlace' /\ Clearing' /\ AsRead'
    BY <1>1 DEF IInv, TypeOK, InPlace, Clearing, AsRead, Ends
  <1>3. Leaving' = Leaving
    BY <1>1 DEF Leaving
  <1>4. Condemned'
    BY <1>1, <1>3, FewerLeaving DEF IInv, Condemned
  <1> QED BY <1>2, <1>4 DEF IInv

LEMMA StoreOrPersonKeeps ==
  ASSUME IInv,
         \/ Repair
         \/ \E r \in Rows : Fold(r) \/ PersonReconciles(r)
         \/ \E r, s \in Rows : PersonLinks(r, s)
  PROVE  IInv'
  <1> USE DEF store, budget, Ends
  <1>1. CASE Repair
    BY <1>1, WaitingKeeps DEF Repair, IInv, TypeOK, Pairings
  <1>2. ASSUME NEW r \in Rows, Fold(r) PROVE IInv'
    <2>1. pairs \in Pairings(held)
      BY DEF IInv, TypeOK
    <2>2. \A p \in pairs : Legs(p) \subseteq held
      BY <2>1, PairsApart
    <2>3. pairs' \in SUBSET pairs /\ \A p \in pairs' : Legs(p) \subseteq held'
      BY <1>2, <2>2 DEF Fold
    <2>4. pairs' \in Pairings(held')
      BY <2>1, <2>3, FewerPairs
    <2> QED BY <1>2, <2>4, WaitingKeeps DEF Fold, IInv, TypeOK
  <1>3. ASSUME NEW r \in Rows, PersonReconciles(r) PROVE IInv'
    BY <1>3, WaitingKeeps DEF PersonReconciles, IInv, TypeOK
  <1>4. ASSUME NEW r \in Rows, NEW s \in Rows, PersonLinks(r, s) PROVE IInv'
    BY <1>4, WaitingKeeps DEF PersonLinks, IInv, TypeOK
  <1> QED BY <1>1, <1>2, <1>3, <1>4

LEMMA PressKeeps ==
  ASSUME IInv, NEW kind \in {"push", "prune", "align"}, NEW shown \in 0..MaxShown,
         Press(kind, shown)
  PROVE  IInv'
  <1>1. /\ pc = "idle" /\ pc' = "queued" /\ ops = <<>> /\ plan = {} /\ inhand = NoRow /\ removed = {}
        /\ round = 1
        /\ UNCHANGED <<store, budget, round, linking, removing, work, failed, changes, faults>>
    BY DEF Press, IInv, InPlace, Condemned
  <1>2. /\ request'.pairs = pairs /\ request'.expected = held /\ request'.shown \in Nat
        /\ request'.kind \in {"none", "push", "prune", "align"}
    BY DEF Press
  <1> USE DEF store, budget, linking, removing, work
  <1>3. TypeOK' /\ InPlace' /\ Clearing' /\ AsRead'
    BY <1>1, <1>2 DEF IInv, TypeOK, InPlace, Clearing, AsRead
  <1>4. Leaving' = {}
    BY <1>1 DEF Leaving
  <1>5. \A a \in Accounts : Cardinality(Leaving' \cap Of(a)) <= request'.shown
    BY <1>2, <1>4, FS_EmptySet
  <1>6. Condemned'
    BY <1>1, <1>4, <1>5 DEF Condemned
  <1> QED BY <1>3, <1>6 DEF IInv

(***************************************************************************)
(* The job's steps that change no row and no link.                          *)
(***************************************************************************)

LEMMA BeginKeeps ==
  ASSUME IInv, Begin
  PROVE  IInv'
  <1> USE DEF store, budget, linking, removing
  <1>1. /\ pc = "queued" /\ pc' \in {"prune", "import"} /\ ops = <<>> /\ plan = {} /\ inhand = NoRow
        /\ removed = {} /\ round = 1 /\ todo' = Accounts
        /\ UNCHANGED <<store, budget, request, round, linking, removing, plan, ops, inhand, failed,
                       changes, faults>>
    BY DEF Begin, IInv, InPlace, Condemned
  <1>2. TypeOK' /\ InPlace' /\ Clearing' /\ AsRead'
    BY <1>1 DEF IInv, TypeOK, InPlace, Clearing, AsRead
  <1>3. Leaving' = {} /\ Leaving = {}
    BY <1>1 DEF Leaving
  <1>4. Condemned'
    BY <1>1, <1>3, FewerLeaving DEF IInv, Condemned
  <1> QED BY <1>2, <1>4 DEF IInv

LEMMA ImportKeeps ==
  ASSUME IInv, NEW a \in Accounts, Import(a)
  PROVE  IInv'
  <1> USE DEF store, linking, removing
  <1>1. /\ pc = "import" /\ UNCHANGED <<store, link, locked, pc, request, round, linking, removing,
                                         plan, ops, inhand, failed, changes, faults>>
        /\ present' \subseteq Rows
    BY DEF Import, IInv, TypeOK, InPlace
  <1>2. TypeOK' /\ InPlace' /\ Clearing' /\ AsRead'
    BY <1>1 DEF IInv, TypeOK, InPlace, Clearing, AsRead
  <1>3. Leaving' = Leaving
    BY <1>1 DEF Leaving
  <1>4. Condemned'
    BY <1>1, <1>3, FewerLeaving DEF IInv, Condemned
  <1> QED BY <1>2, <1>4 DEF IInv

LEMMA JudgePairsKeeps ==
  ASSUME IInv, JudgePairs
  PROVE  IInv'
  <1> USE DEF store, budget, removing
  <1>1. /\ pc = "import" /\ pc' = "release" /\ start' = link /\ index' = link /\ todo' = ToRelink(link)
        /\ ops = <<>> /\ plan = {}
        /\ UNCHANGED <<store, budget, request, round, removing, plan, ops, inhand, failed, changes, faults>>
    BY DEF JudgePairs, IInv, InPlace
  <1>2. TypeOK'
    BY <1>1 DEF IInv, TypeOK
  <1>3. InPlace'
    BY <1>1 DEF IInv, InPlace, ToRelink
  <1>4. ToRelink(link) = ToRelink(start)'
    BY <1>1 DEF ToRelink, Relinkable, Usable, Elsewhere, Releasable, Involved, Kept, Linked, Points
  <1>5. Clearing' /\ AsRead'
    BY <1>1, <1>4 DEF Clearing, AsRead
  <1>6. Leaving' = Leaving
    BY <1>1 DEF Leaving
  <1>7. Condemned'
    BY <1>1, <1>6, FewerLeaving DEF IInv, Condemned
  <1> QED BY <1>2, <1>3, <1>5, <1>7 DEF IInv

LEMMA VerifyKeeps ==
  ASSUME IInv, Verify
  PROVE  IInv'
  <1> USE DEF store, budget, linking, removing
  <1>1. /\ pc = "link" /\ pc' \in {"prune", "ended"} /\ ops = <<>> /\ plan = {} /\ inhand = NoRow
        /\ pc' = "prune" => round = 1
        /\ UNCHANGED <<store, budget, request, round, linking, removing, plan, ops, inhand, failed,
                       changes, faults>>
    BY DEF Verify, IInv, InPlace
  <1>2. TypeOK' /\ InPlace' /\ Clearing' /\ AsRead'
    BY <1>1 DEF IInv, TypeOK, InPlace, Clearing, AsRead
  <1>3. Leaving' = Leaving /\ Leaving = removed
    BY <1>1 DEF Leaving
  <1>4. pc' = "prune" => removed = {}
    BY <1>1 DEF IInv, Condemned
  <1>5. Condemned'
    BY <1>1, <1>3, <1>4, FewerLeaving DEF IInv, Condemned
  <1> QED BY <1>2, <1>5 DEF IInv

LEMMA EndedKeeps ==
  ASSUME IInv, JobRaises
  PROVE  IInv'
  <1> USE DEF store, budget, linking, removing
  <1>1. /\ pc' = "ended" /\ ops = <<>> /\ plan = {} /\ inhand = NoRow /\ todo' = {} /\ failed' = TRUE
        /\ faults' \in 0..MaxFaults
        /\ UNCHANGED <<store, budget, request, round, linking, removing, plan, ops, inhand, changes>>
    BY DEF JobRaises, Fault, NothingInHand, IInv, TypeOK
  <1>2. failed' \in BOOLEAN
    BY <1>1, Zenon
  <1>3. TypeOK' /\ InPlace' /\ Clearing' /\ AsRead'
    BY <1>1, <1>2 DEF IInv, TypeOK, InPlace, Clearing, AsRead
  <1>4. Leaving' = Leaving
    BY <1>1 DEF Leaving
  <1>5. Condemned'
    BY <1>1, <1>4, FewerLeaving DEF IInv, Condemned
  <1> QED BY <1>3, <1>5 DEF IInv

LEMMA FreshKeeps ==
  ASSUME IInv, ApplierDies \/ Close
  PROVE  IInv'
  <1> USE DEF store, budget
  <1>1. /\ Fresh /\ pc' \in {"idle", "queued"} /\ changes' \in 0..MaxChanges
        /\ faults' \in 0..MaxFaults
        /\ UNCHANGED <<store, budget>> /\ (request' = request \/ request' = NoRequest)
    BY DEF ApplierDies, Close, Fault, IInv, TypeOK
  <1>2. failed' \in BOOLEAN /\ unlinked' \in BOOLEAN
    BY <1>1, Zenon DEF Fresh
  <1>3. /\ request'.pairs \in Pairings(request'.expected) /\ request'.expected \subseteq Ours
        /\ request'.shown \in Nat /\ request'.kind \in {"none", "push", "prune", "align"}
    <2>1. {} \in Pairings({})
      BY DEF Pairings
    <2>2. CASE request' = request
      BY <2>2 DEF IInv, TypeOK, InPlace
    <2>3. CASE request' = NoRequest
      BY <2>1, <2>3 DEF NoRequest
    <2> QED BY <1>1, <2>2, <2>3
  <1>4. TypeOK' /\ InPlace' /\ Clearing' /\ AsRead'
    BY <1>1, <1>2, <1>3 DEF IInv, TypeOK, InPlace, Clearing, AsRead, Fresh
  <1>5. Leaving' = {}
    BY <1>1 DEF Leaving, Fresh
  <1>6. \A a \in Accounts : Cardinality(Leaving' \cap Of(a)) <= request'.shown
    BY <1>3, <1>5, FS_EmptySet
  <1>7. Condemned'
    BY <1>1, <1>5, <1>6 DEF Condemned, Fresh
  <1> QED BY <1>4, <1>7 DEF IInv

(***************************************************************************)
(* The push stage: links are cleared, read again and made.                  *)
(***************************************************************************)

LEMMA ReleaseTouches ==
  ASSUME IInv, pc = "release", NEW p \in ToRelink(start), NEW r \in Elsewhere(p, start),
         NEW s \in {r, start[r]}
  PROVE  s \in Rows /\ Touchable(s) /\ s \notin Kept(start)
  <1>1. p \in request.pairs /\ Relinkable(p, start) /\ Involved(p, start) \cap Kept(start) = {}
    BY DEF ToRelink
  <1>2. p \in Ours \X Ours /\ start \in [Rows -> Ends] /\ link \in [Rows -> Ends]
    BY <1>1, PairsApart DEF IInv, TypeOK, Ends
  <1>3. r \in Legs(p) /\ r \in Rows /\ Own(r)
    BY <1>1, <1>2 DEF Elsewhere, Relinkable, Usable, Legs, Own
  <1>4. Own(start[r]) /\ start[r] \in Rows /\ start[start[r]] \in {NoRow, r}
    BY <1>1 DEF Relinkable, Releasable, Own
  <1>5. link[r] \in {start[r], NoRow} /\ link[start[r]] \in {start[start[r]], NoRow}
    BY <1>3, <1>4 DEF IInv, AsRead
  <1>6. s \in Involved(p, start)
    BY <1>3 DEF Involved
  <1> QED BY <1>1, <1>3, <1>4, <1>5, <1>6 DEF Touchable

LEMMA TakeReleaseKeeps ==
  ASSUME IInv, NEW p \in todo, TakeRelease(p)
  PROVE  IInv'
  <1> USE DEF store, budget, linking, removing
  <1>1. /\ pc = "release" /\ ops' = Release(p, start) /\ todo' = todo \ {p} /\ plan = {}
        /\ UNCHANGED <<store, budget, pc, request, round, linking, removing, plan, failed, changes,
                       faults>>
    BY DEF TakeRelease, IInv, InPlace
  <1>2. p \in ToRelink(start) /\ p \in Rows \X Rows /\ start \in [Rows -> Ends]
    BY <1>1, PairsApart DEF IInv, AsRead, ToRelink, TypeOK, Ends
  <1>3. /\ ops' \in Seq(Updates)
        /\ \A k \in 1..Len(ops') : \E r \in Elsewhere(p, start) : ops'[k].row \in {r, start[r]}
    BY <1>1, <1>2, ReleaseParts
  <1>4. \A k \in 1..Len(ops') : Touchable(ops'[k].row) /\ ops'[k].row \notin Kept(start)
    BY <1>1, <1>2, <1>3, ReleaseTouches
  <1>5. TypeOK' /\ InPlace' /\ AsRead'
    <2>1. ToRelink(start)' = ToRelink(start)
      BY <1>1 DEF ToRelink, Relinkable, Usable, Elsewhere, Releasable, Involved, Kept, Linked, Points
    <2> QED BY <1>1, <1>3, <2>1 DEF IInv, TypeOK, InPlace, AsRead
  <1>6. Clearing'
    <2>1. Kept(start)' = Kept(start)
      BY <1>1 DEF Kept, Linked, Usable, Points
    <2> QED BY <1>1, <1>4, <2>1 DEF Clearing, Touchable, Own
  <1>7. Leaving' = Leaving
    BY <1>1 DEF Leaving
  <1>8. Condemned'
    BY <1>1, <1>7, FewerLeaving DEF IInv, Condemned
  <1> QED BY <1>5, <1>6, <1>8 DEF IInv

LEMMA UnlinkOneKeeps ==
  ASSUME IInv, UnlinkOne
  PROVE  IInv'
  <1> USE DEF store, removing
  <1> DEFINE s == ops[1].row
  <1>1. /\ pc \in {"release", "prune"} /\ ops # <<>> /\ ops \in Seq(Updates) /\ link \in [Rows -> Ends]
        /\ UNCHANGED <<store, present, locked, pc, request, round, start, index, barred, removing,
                       plan, todo, inhand, failed, changes, faults>>
    BY DEF UnlinkOne, IInv, TypeOK, InPlace, Ends
  <1>2. /\ s \in Rows /\ ops' = Tail(ops) /\ ops' \in Seq(Updates)
        /\ link' = [link EXCEPT ![s] = NoRow]
    BY <1>1, OneLessUpdate DEF UnlinkOne, Cleared, Updates
  <1>3. link' \in [Rows -> Ends] /\ \A r \in Rows : link'[r] \in {link[r], NoRow}
    BY <1>1, <1>2 DEF Ends
  <1>4. TypeOK' /\ InPlace'
    BY <1>1, <1>2, <1>3 DEF IInv, TypeOK, InPlace, Ends
  <1>5. /\ \A k \in 1..Len(ops') : k + 1 \in 1..Len(ops) /\ ops'[k] = ops[k + 1]
        /\ \A k \in 1..Len(ops) : ops[k] \in Updates
    <2>1. \A k \in 1..Len(Tail(ops)) : k + 1 \in 1..Len(ops) /\ Tail(ops)[k] = ops[k + 1]
      BY <1>1, OneLessUpdate
    <2>2. \A k \in 1..Len(ops) : ops[k] \in Updates
      BY <1>1
    <2> QED BY <1>2, <2>1, <2>2
  <1>6. Clearing'
    <2>1. \A r \in Rows : Touchable(r) => Own(r) /\ (link'[r] = NoRow \/ Own(link'[r]))
      BY <1>1, <1>2 DEF Touchable, Ends
    <2>2. ASSUME NEW k \in 1..Len(ops')
          PROVE  Own(ops'[k].row) /\ (link'[ops'[k].row] = NoRow \/ Own(link'[ops'[k].row]))
      <3>1. k + 1 \in 1..Len(ops) /\ ops'[k] = ops[k + 1] /\ ops[k + 1].row \in Rows
        BY <1>5 DEF Updates
      <3>2. Touchable(ops[k + 1].row)
        BY <3>1 DEF IInv, Clearing
      <3> QED BY <2>1, <3>1, <3>2
    <2>3. pc = "release" => \A k \in 1..Len(ops') : ops'[k].row \notin Kept(start)
      BY <1>5 DEF IInv, Clearing
    <2>4. Kept(start)' = Kept(start)
      BY <1>1 DEF Kept, Linked, Usable, Points
    <2>5. ASSUME pc = "prune", ops' # <<>>
          PROVE  /\ ops'[Len(ops')].row = inhand /\ inhand # NoRow
                 /\ \A k \in 1..Len(ops') : ops'[k].row = inhand \/ link'[ops'[k].row] \in {NoRow, inhand}
      <3>1. ops'[Len(ops')] = ops[Len(ops)]
        BY <1>1, <1>2, <2>5, OneLessUpdate
      <3>2. ASSUME NEW k \in 1..Len(ops')
            PROVE  ops'[k].row = inhand \/ link'[ops'[k].row] \in {NoRow, inhand}
        <4>1. k + 1 \in 1..Len(ops) /\ ops'[k] = ops[k + 1] /\ ops[k + 1].row \in Rows
          BY <1>5 DEF Updates
        <4>2. ops[k + 1].row = inhand \/ link[ops[k + 1].row] \in {NoRow, inhand}
          BY <1>1, <2>5, <4>1 DEF IInv, Clearing
        <4> QED BY <1>3, <4>1, <4>2
      <3> QED BY <1>1, <2>5, <3>1, <3>2 DEF IInv, Clearing
    <2> QED BY <1>1, <2>2, <2>3, <2>4, <2>5 DEF Clearing, Touchable, Own
  <1>7. AsRead'
    <2>1. ToRelink(start)' = ToRelink(start)
      BY <1>1 DEF ToRelink, Relinkable, Usable, Elsewhere, Releasable, Involved, Kept, Linked, Points
    <2> QED BY <1>1, <1>3, <2>1 DEF IInv, AsRead
  <1>8. Leaving' = Leaving
    BY <1>1 DEF Leaving
  <1>9. pc = "prune" /\ inhand # NoRow /\ ops' = <<>> => link'[inhand] = NoRow
    <2> SUFFICES ASSUME pc = "prune", inhand # NoRow, ops' = <<>> PROVE link'[inhand] = NoRow
      OBVIOUS
    <2>1. Len(ops) = 1
      BY <1>1, <1>2, OneLessUpdate
    <2>2. inhand = s
      BY <1>1, <2>1 DEF IInv, Clearing
    <2> QED BY <1>1, <1>2, <2>2
  <1>10. \A t \in plan' : t.partner \in Ends /\ (t.partner = NoRow => link'[t.row] = NoRow)
    <2>1. \A t \in plan : t.row \in Rows
      BY OursAssumption DEF IInv, Condemned, Leaving
    <2> QED BY <1>1, <1>3, <2>1 DEF IInv, Condemned
  <1>11. Condemned'
    BY <1>1, <1>8, <1>9, <1>10, FewerLeaving DEF IInv, Condemned
  <1> QED BY <1>4, <1>6, <1>7, <1>11 DEF IInv

LEMMA ReleaseFailsKeeps ==
  ASSUME IInv, ReleaseFails
  PROVE  IInv'
  <1> USE DEF store, removing
  <1>1. /\ pc = "release" /\ ops' = <<>> /\ todo' = {} /\ failed' = TRUE /\ faults' \in 0..MaxFaults
        /\ link' \in {link, Cleared} /\ link \in [Rows -> Ends] /\ ops # <<>> /\ ops \in Seq(Updates)
        /\ UNCHANGED <<store, present, locked, pc, request, round, start, index, released, removing,
                       plan, inhand, changes>>
    BY DEF ReleaseFails, Fault, IInv, TypeOK, InPlace, Ends
  <1>2. link' \in [Rows -> Ends] /\ \A r \in Rows : link'[r] \in {link[r], NoRow}
    BY <1>1, OneLessUpdate DEF Cleared, Updates, Ends
  <1>3. failed' \in BOOLEAN
    BY <1>1, Zenon
  <1>4. TypeOK' /\ InPlace' /\ Clearing' /\ AsRead'
    BY <1>1, <1>2, <1>3 DEF IInv, TypeOK, InPlace, Clearing, AsRead, Ends
  <1>5. Leaving' = Leaving
    BY <1>1 DEF Leaving
  <1>6. Condemned'
    BY <1>1, <1>5, FewerLeaving DEF IInv, InPlace, Condemned
  <1> QED BY <1>4, <1>6 DEF IInv

LEMMA ReadAgainKeeps ==
  ASSUME IInv, ReadAgain
  PROVE  IInv'
  <1> USE DEF store, budget, removing
  <1>1. /\ pc = "release" /\ pc' = "link" /\ ops = <<>> /\ ops' = <<>> /\ plan = {} /\ inhand' = NoRow
        /\ index' \in {start, link} /\ todo' = ToLink(start) \ barred
        /\ UNCHANGED <<store, budget, request, round, start, removing, plan, failed, changes, faults>>
    BY DEF ReadAgain, IInv, InPlace
  <1>2. todo' \subseteq request.pairs
    BY <1>1 DEF ToLink, ToRelink
  <1>3. \A r \in Rows : link[r] \in {index'[r], NoRow}
    BY <1>1 DEF IInv, AsRead
  <1>4. TypeOK' /\ InPlace' /\ Clearing' /\ AsRead'
    BY <1>1, <1>2, <1>3 DEF IInv, TypeOK, InPlace, Clearing, AsRead
  <1>5. Leaving' = Leaving
    BY <1>1 DEF Leaving
  <1>6. Condemned'
    BY <1>1, <1>5, FewerLeaving DEF IInv, Condemned
  <1> QED BY <1>4, <1>6 DEF IInv

LEMMA PassOverKeeps ==
  ASSUME IInv, NEW p \in todo, PassOver(p)
  PROVE  IInv'
  <1> USE DEF store, budget, linking, removing
  <1>1. /\ pc = "link" /\ todo' = todo \ {p} /\ plan = {} /\ ops = <<>>
        /\ UNCHANGED <<store, budget, pc, request, round, linking, removing, plan, ops, inhand,
                       changes, faults>>
    BY DEF PassOver, IInv, InPlace
  <1>2. failed' \in BOOLEAN
    BY Zenon DEF PassOver
  <1>3. TypeOK' /\ InPlace' /\ Clearing' /\ AsRead'
    BY <1>1, <1>2 DEF IInv, TypeOK, InPlace, Clearing, AsRead
  <1>4. Leaving' = Leaving
    BY <1>1 DEF Leaving
  <1>5. Condemned'
    BY <1>1, <1>4, FewerLeaving DEF IInv, Condemned
  <1> QED BY <1>3, <1>5 DEF IInv

(* Linking or half-linking one pair leaves the legs of the others alone.    *)
LEMMA OtherLegs ==
  ASSUME IInv, NEW p \in request.pairs, link' \in [Rows -> Ends],
         \A r \in Rows \ Legs(p) : link'[r] = link[r],
         NEW rest \in SUBSET request.pairs, p \notin rest,
         \A q \in rest, r \in Rows : r \in Legs(q) => link[r] \in {index[r], NoRow}
  PROVE  \A q \in rest, r \in Rows : r \in Legs(q) => link'[r] \in {index[r], NoRow}
  <1>1. \A q \in rest : Legs(q) \cap Legs(p) = {}
    BY PairsApart DEF IInv, TypeOK
  <1> QED BY <1>1

(* What is left of a linking step once its links are known.                 *)
LEMMA LinkingKeeps ==
  ASSUME IInv, pc \in {"link", "second"}, pc' \in {"link", "second"}, link' \in [Rows -> Ends],
         todo' \subseteq todo, failed' \in BOOLEAN, faults' \in 0..MaxFaults, AsRead',
         pc' = "link" => inhand' = NoRow,
         UNCHANGED <<store, present, locked, request, round, linking, removing, plan, ops, changes>>
  PROVE  IInv'
  <1> USE DEF store, linking, removing
  <1>1. plan = {} /\ ops = <<>>
    BY DEF IInv, InPlace
  <1>2. TypeOK' /\ InPlace' /\ Clearing'
    BY <1>1 DEF IInv, TypeOK, InPlace, Clearing, Ends
  <1>3. Leaving' = Leaving
    BY DEF Leaving
  <1>4. Condemned'
    BY <1>1, <1>3, FewerLeaving DEF IInv, Condemned
  <1> QED BY <1>2, <1>4 DEF IInv

LEMMA LinkFirstKeeps ==
  ASSUME IInv, NEW p \in todo, LinkFirst(p)
  PROVE  IInv'
  <1>1. /\ pc = "link" /\ pc' = "second" /\ Linkable(p, index) /\ inhand' = p /\ todo' = todo \ {p}
        /\ link' = [link EXCEPT ![p[1]] = p[2]]
        /\ UNCHANGED <<store, present, locked, request, round, linking, removing, plan, ops, failed,
                       changes, faults>>
    BY DEF LinkFirst
  <1>2. /\ p \in request.pairs /\ todo \subseteq request.pairs /\ p \in Ours \X Ours /\ p[1] # p[2]
        /\ link \in [Rows -> Ends] /\ index \in [Rows -> Ends]
    <2>1. p \in request.pairs /\ todo \subseteq request.pairs
      BY <1>1 DEF IInv, InPlace
    <2> QED BY <2>1, PairsApart DEF IInv, TypeOK, Ends
  <1>3. /\ link' \in [Rows -> Ends] /\ \A r \in Rows \ Legs(p) : link'[r] = link[r]
        /\ link'[p[2]] = link[p[2]]
    BY <1>1, <1>2 DEF Legs, Ends
  <1>4. \A q \in todo', r \in Rows : r \in Legs(q) => link'[r] \in {index[r], NoRow}
    <2>1. todo' \in SUBSET request.pairs /\ p \notin todo'
      BY <1>1, <1>2
    <2>2. \A q \in todo', r \in Rows : r \in Legs(q) => link[r] \in {index[r], NoRow}
      BY <1>1 DEF IInv, AsRead
    <2> QED BY <1>2, <1>3, <2>1, <2>2, OtherLegs
  <1>5. link[p[2]] \in {NoRow, p[1]}
    <2>1. index[p[2]] \in {NoRow, p[1]}
      BY <1>1, <1>2 DEF Linkable, Elsewhere, Legs, Mate
    <2>2. link[p[2]] \in {index[p[2]], NoRow}
      BY <1>1, <1>2 DEF IInv, AsRead, Legs
    <2> QED BY <2>1, <2>2
  <1>6. AsRead'
    BY <1>1, <1>2, <1>3, <1>4, <1>5 DEF AsRead, Linkable, Usable, linking
  <1>7. failed' \in BOOLEAN /\ faults' \in 0..MaxFaults
    BY <1>1, Zenon DEF IInv, TypeOK
  <1> QED BY <1>1, <1>3, <1>6, <1>7, LinkingKeeps

LEMMA LinkSecondKeeps ==
  ASSUME IInv, LinkSecond
  PROVE  IInv'
  <1>1. /\ pc = "second" /\ pc' = "link" /\ inhand' = NoRow /\ todo' = todo
        /\ link' = [link EXCEPT ![inhand[2]] = inhand[1]]
        /\ UNCHANGED <<store, present, locked, request, round, linking, removing, plan, ops, failed,
                       changes, faults>>
    BY DEF LinkSecond
  <1>2. /\ inhand \in request.pairs /\ todo \in SUBSET request.pairs /\ inhand \notin todo
        /\ inhand \in Ours \X Ours /\ link \in [Rows -> Ends]
    <2>1. inhand \in request.pairs /\ inhand \notin todo /\ todo \in SUBSET request.pairs
      BY <1>1 DEF IInv, InPlace, AsRead
    <2> QED BY <2>1, PairsApart DEF IInv, TypeOK, Ends
  <1>3. link' \in [Rows -> Ends] /\ \A r \in Rows \ Legs(inhand) : link'[r] = link[r]
    BY <1>1, <1>2 DEF Legs, Ends
  <1>4. \A q \in todo, r \in Rows : r \in Legs(q) => link'[r] \in {index[r], NoRow}
    <2>1. \A q \in todo, r \in Rows : r \in Legs(q) => link[r] \in {index[r], NoRow}
      BY <1>1 DEF IInv, AsRead
    <2> QED BY <1>2, <1>3, <2>1, OtherLegs
  <1>5. AsRead'
    BY <1>1, <1>4 DEF AsRead, linking
  <1>6. failed' \in BOOLEAN /\ faults' \in 0..MaxFaults
    BY <1>1, Zenon DEF IInv, TypeOK
  <1> QED BY <1>1, <1>3, <1>5, <1>6, LinkingKeeps

LEMMA LinkFailsKeeps ==
  ASSUME IInv, LinkFails
  PROVE  IInv'
  <1>1. /\ pc' = "link" /\ failed' = TRUE /\ faults' \in 0..MaxFaults
        /\ UNCHANGED <<store, present, locked, request, round, linking, removing, plan, ops, changes>>
    BY DEF LinkFails, Fault, IInv, TypeOK
  <1>2. failed' \in BOOLEAN
    BY <1>1, Zenon
  <1>3. link \in [Rows -> Ends]
    BY DEF IInv, TypeOK, Ends
  <1>4. ASSUME NEW p \in todo, pc = "link", link' \in {link, [link EXCEPT ![p[1]] = p[2]]},
               todo' = todo \ {p}, inhand' = inhand
        PROVE  IInv'
    <2>1. p \in request.pairs /\ todo' \in SUBSET request.pairs /\ p \notin todo' /\ inhand' = NoRow
      BY <1>4 DEF IInv, InPlace
    <2>2. p \in Ours \X Ours
      BY <2>1, PairsApart DEF IInv, TypeOK
    <2>3. link' \in [Rows -> Ends] /\ \A r \in Rows \ Legs(p) : link'[r] = link[r]
      BY <1>3, <1>4, <2>2 DEF Legs, Ends
    <2>4. \A q \in todo', r \in Rows : r \in Legs(q) => link[r] \in {index[r], NoRow}
      BY <1>4 DEF IInv, AsRead
    <2>5. \A q \in todo', r \in Rows : r \in Legs(q) => link'[r] \in {index[r], NoRow}
      BY <2>1, <2>3, <2>4, OtherLegs
    <2>6. AsRead'
      BY <1>1, <2>5 DEF AsRead, linking
    <2> QED BY <1>1, <1>2, <1>4, <2>1, <2>3, <2>6, LinkingKeeps
  <1>5. ASSUME pc = "second", link' \in {link, [link EXCEPT ![inhand[2]] = inhand[1]]},
               inhand' = NoRow, todo' = todo
        PROVE  IInv'
    <2>1. inhand \in request.pairs /\ todo \in SUBSET request.pairs /\ inhand \notin todo
      BY <1>5 DEF IInv, InPlace, AsRead
    <2>2. inhand \in Ours \X Ours
      BY <2>1, PairsApart DEF IInv, TypeOK
    <2>3. link' \in [Rows -> Ends] /\ \A r \in Rows \ Legs(inhand) : link'[r] = link[r]
      BY <1>3, <1>5, <2>2 DEF Legs, Ends
    <2>4. \A q \in todo, r \in Rows : r \in Legs(q) => link[r] \in {index[r], NoRow}
      BY <1>5 DEF IInv, AsRead
    <2>5. \A q \in todo, r \in Rows : r \in Legs(q) => link'[r] \in {index[r], NoRow}
      BY <2>1, <2>3, <2>4, OtherLegs
    <2>6. AsRead'
      BY <1>1, <1>5, <2>5 DEF AsRead, linking
    <2> QED BY <1>1, <1>2, <1>5, <2>3, <2>6, LinkingKeeps
  <1> QED BY <1>4, <1>5 DEF LinkFails

(***************************************************************************)
(* The prune stage: what was confirmed is unlinked and deleted.             *)
(***************************************************************************)

(* What is left of a removal step once its rows and updates are known.      *)
LEMMA RemovingKeeps ==
  ASSUME IInv, pc = "prune", present' \subseteq Rows, link' \in [Rows -> Ends],
         \A r \in Rows : link[r] = NoRow => link'[r] = NoRow,
         todo' \subseteq todo, plan' \subseteq plan, Leaving' \subseteq Leaving,
         ops' \in Seq(Updates), Clearing',
         inhand' # NoRow /\ ops' = <<>> => link'[inhand'] = NoRow,
         failed' \in BOOLEAN, unlinked' \in BOOLEAN, faults' \in 0..MaxFaults,
         UNCHANGED <<store, locked, pc, request, round, linking, changes>>
  PROVE  IInv'
  <1> USE DEF store, linking
  <1>1. Leaving' \subseteq Ours \ request'.expected /\ removed' \subseteq Ours
    BY DEF IInv, Condemned, Leaving
  <1>2. TypeOK' /\ InPlace' /\ AsRead'
    BY <1>1 DEF IInv, TypeOK, InPlace, AsRead, Ends
  <1>4. \A t \in plan' : t.partner \in Ends /\ (t.partner = NoRow => link'[t.row] = NoRow)
    <2>1. \A t \in plan : t.row \in Rows
      BY RowsAssumption, OursAssumption DEF IInv, Condemned, Leaving
    <2> QED BY <2>1 DEF IInv, Condemned
  <1>3. Condemned'
    BY <1>1, <1>4, FewerLeaving DEF IInv, Condemned
  <1> QED BY <1>2, <1>3 DEF IInv

LEMMA PassAccountKeeps ==
  ASSUME IInv, NEW a \in Accounts, PassAccount(a)
  PROVE  IInv'
  <1> USE DEF budget, removing
  <1>1. /\ pc = "prune" /\ todo' \subseteq todo /\ (UNCHANGED failed \/ failed' = TRUE)
        /\ UNCHANGED <<store, budget, pc, request, round, linking, removing, plan, ops, inhand,
                       changes, faults>>
    BY DEF PassAccount
  <1>2. failed' \in BOOLEAN
    BY <1>1, Zenon DEF IInv, TypeOK
  <1>3. Leaving' = Leaving
    BY <1>1 DEF Leaving
  <1>4. Clearing'
    BY <1>1 DEF IInv, Clearing, Touchable, Own
  <1>5. unlinked' \in BOOLEAN
    BY <1>1, Zenon DEF IInv, TypeOK
  <1> QED BY <1>1, <1>2, <1>3, <1>4, <1>5, RemovingKeeps DEF IInv, TypeOK, InPlace, Condemned, Ends

LEMMA PlanAccountKeeps ==
  ASSUME IInv, NEW a \in Accounts, PlanAccount(a)
  PROVE  IInv'
  <1> USE DEF store, budget, linking, removing
  <1>1. /\ pc = "prune" /\ plan = {} /\ inhand = NoRow /\ a \in todo /\ todo' = todo \ {a} /\ round = 1
        /\ Cardinality(Prunable(a)) <= request.shown
        /\ plan' = {[row |-> r, partner |-> link[r]] : r \in Prunable(a)}
        /\ UNCHANGED <<store, budget, pc, request, round, linking, removing, ops, inhand, failed,
                       changes, faults>>
    BY DEF PlanAccount, NothingInHand, IInv, Condemned
  <1>2. Prunable(a) \subseteq (Ours \cap Of(a)) \ request.expected
    BY DEF Prunable, Orphans
  <1>3. TypeOK' /\ InPlace' /\ Clearing' /\ AsRead'
    BY <1>1 DEF IInv, TypeOK, InPlace, Clearing, AsRead, Touchable, Own
  <1>4. Leaving = removed /\ Leaving' = Leaving \cup Prunable(a)
    <2>1. {u.row : u \in plan} = {}
      BY <1>1
    <2>2. {u.row : u \in plan'} = Prunable(a)
      <3>1. ASSUME NEW r \in Prunable(a) PROVE \E u \in plan' : u.row = r
        <4>1. [row |-> r, partner |-> link[r]] \in plan'
          BY <1>1
        <4> QED BY <4>1
      <3>2. ASSUME NEW u \in plan' PROVE u.row \in Prunable(a)
        <4>1. PICK r \in Prunable(a) : u = [row |-> r, partner |-> link[r]]
          BY <1>1, Zenon
        <4> QED BY <4>1
      <3> QED BY <3>1, <3>2
    <2> QED BY <1>1, <2>1, <2>2 DEF Leaving
  <1>5. \A t \in plan' : t.partner \in Ends /\ (t.partner = NoRow => link'[t.row] = NoRow)
    BY <1>1, <1>2 DEF IInv, TypeOK, Ends
  <1>6. /\ Leaving' \subseteq Ours \ request.expected
        /\ \A b \in todo' : Leaving' \cap Of(b) = {}
    BY <1>1, <1>2, <1>4 DEF IInv, Condemned, Of
  <1>7. ASSUME NEW b \in Accounts PROVE Cardinality(Leaving' \cap Of(b)) <= request.shown
    <2>1. CASE b = a
      <3>1. Leaving' \cap Of(b) = Prunable(a)
        BY <1>1, <1>2, <1>4, <2>1 DEF IInv, Condemned
      <3> QED BY <1>1, <3>1
    <2>2. CASE b # a
      <3>1. Leaving' \cap Of(b) = Leaving \cap Of(b)
        BY <1>2, <1>4, <2>2 DEF Of
      <3> QED BY <3>1 DEF IInv, Condemned
    <2> QED BY <2>1, <2>2
  <1>8. Condemned'
    BY <1>1, <1>5, <1>6, <1>7 DEF IInv, Condemned
  <1> QED BY <1>3, <1>8 DEF IInv

LEMMA TakeOrphanKeeps ==
  ASSUME IInv, NEW t \in plan, TakeOrphan(t)
  PROVE  IInv'
  <1> DEFINE orphan == t.row
  <1>1. /\ pc = "prune" /\ inhand = NoRow /\ ops = <<>> /\ plan' = plan \ {t}
        /\ UNCHANGED <<store, budget, pc, request, round, linking, removed, todo, failed, changes,
                       faults>>
    BY DEF TakeOrphan, IInv, Clearing
  <1>2. orphan \in Leaving /\ orphan \in Ours /\ orphan # NoRow
    BY DEF Leaving, IInv, Condemned
  <1>3. present' \subseteq Rows /\ link \in [Rows -> Ends] /\ link' = link /\ UNCHANGED locked
    BY <1>1 DEF budget, IInv, TypeOK, Ends
  <1>4. inhand' \in {orphan, NoRow} /\ Leaving' \subseteq Leaving
    BY <1>1, <1>2 DEF TakeOrphan, Leaving
  <1>5. failed' \in BOOLEAN /\ faults' \in 0..MaxFaults
    BY <1>1, Zenon DEF IInv, TypeOK
  <1>6. unlinked' \in BOOLEAN
    <2>1. unlinked' = TRUE \/ unlinked' = unlinked
      BY Zenon DEF TakeOrphan
    <2> QED BY <2>1, Zenon DEF IInv, TypeOK
  <1>7. CASE ops' = <<>> /\ (inhand' # NoRow => link[inhand'] = NoRow)
    <2>1. Clearing'
      BY <1>1, <1>7 DEF Clearing
    <2> QED BY <1>1, <1>3, <1>4, <1>5, <1>6, <1>7, <2>1, RemovingKeeps
  <1>8. CASE link[orphan] # NoRow /\ Movable(orphan) /\ ops' = Unlink(orphan, link) /\ inhand' = orphan
    <2>1. /\ link[orphan] \in Rows /\ Own(orphan) /\ Own(link[orphan])
          /\ link[link[orphan]] \in {NoRow, orphan}
      BY <1>2, <1>3, <1>8 DEF Movable, Releasable, Own, Ends
    <2>2. /\ ops' \in Seq(Updates) /\ ops' # <<>> /\ ops'[Len(ops')].row = orphan
          /\ \A k \in 1..Len(ops') : ops'[k].row \in {orphan, link[orphan]}
      BY <1>2, <1>3, <1>8, <2>1, UnlinkParts
    <2>3. \A k \in 1..Len(ops') : /\ Own(ops'[k].row)
                                  /\ link[ops'[k].row] = NoRow \/ Own(link[ops'[k].row])
                                  /\ ops'[k].row = orphan \/ link[ops'[k].row] \in {NoRow, orphan}
      BY <2>1, <2>2
    <2>4. Clearing'
      BY <1>1, <1>2, <1>3, <1>8, <2>2, <2>3 DEF Clearing, Touchable, Own
    <2> QED BY <1>1, <1>3, <1>4, <1>5, <1>6, <2>2, <2>4, RemovingKeeps
  <1>9. \/ link[orphan] # NoRow /\ Movable(orphan) /\ ops' = Unlink(orphan, link) /\ inhand' = orphan
        \/ ops' = <<>> /\ (inhand' # NoRow => link[inhand'] = NoRow)
    <2>1. t.partner = NoRow => link[orphan] = NoRow
      BY DEF IInv, Condemned
    <2> QED BY <1>1, <2>1 DEF TakeOrphan
  <1> QED BY <1>7, <1>8, <1>9

(* An unlinked row goes alone.                                              *)
LEMMA GoesAlone ==
  ASSUME IInv, pc = "prune", inhand # NoRow, ops = <<>>
  PROVE  inhand \in Ours /\ inhand \in Leaving /\ link[inhand] = NoRow /\ Deletion(inhand) = {inhand}
  BY DEF IInv, Condemned, Leaving, Deletion

LEMMA DeleteOrphanKeeps ==
  ASSUME IInv, DeleteOrphan
  PROVE  IInv'
  <1>1. /\ pc = "prune" /\ inhand # NoRow /\ ops = <<>> /\ inhand' = NoRow /\ DeleteRows(Deletion(inhand))
        /\ UNCHANGED <<store, locked, pc, request, round, linking, unlinked, todo, plan, ops, failed,
                       changes, faults>>
    BY DEF DeleteOrphan
  <1>2. inhand \in Leaving /\ Deletion(inhand) = {inhand}
    BY <1>1, GoesAlone
  <1>3. /\ present' \subseteq Rows /\ link' \in [Rows -> Ends] /\ removed' \subseteq removed \cup {inhand}
        /\ \A r \in Rows : link[r] = NoRow => link'[r] = NoRow
    BY <1>1, <1>2 DEF DeleteRows, IInv, TypeOK, Ends
  <1>4. Leaving' \subseteq Leaving
    BY <1>1, <1>2, <1>3 DEF Leaving
  <1>5. Clearing' /\ ops' \in Seq(Updates) /\ faults' \in 0..MaxFaults
    BY <1>1 DEF Clearing, IInv, TypeOK, InPlace
  <1>6. failed' \in BOOLEAN /\ unlinked' \in BOOLEAN
    BY <1>1, Zenon DEF IInv, TypeOK
  <1> QED BY <1>1, <1>3, <1>4, <1>5, <1>6, RemovingKeeps

LEMMA RemovalFailsKeeps ==
  ASSUME IInv, RemovalFails
  PROVE  IInv'
  <1>1. /\ pc = "prune" /\ inhand # NoRow /\ inhand' = NoRow /\ ops' = <<>> /\ plan' = {} /\ failed' = TRUE
        /\ faults' \in 0..MaxFaults /\ todo' \subseteq todo
        /\ UNCHANGED <<store, locked, pc, request, round, linking, unlinked, changes>>
    BY DEF RemovalFails, Fault, IInv, TypeOK
  <1>2. /\ present' \subseteq Rows /\ link' \in [Rows -> Ends] /\ Leaving' \subseteq Leaving
        /\ \A r \in Rows : link[r] = NoRow => link'[r] = NoRow
    <2>1. CASE ops # <<>> /\ link' \in {link, Cleared} /\ UNCHANGED <<present, removed>>
      <3>1. link' \in [Rows -> Ends] /\ \A r \in Rows : link[r] = NoRow => link'[r] = NoRow
        BY <2>1, OneLessUpdate DEF Cleared, Updates, Ends, IInv, TypeOK, InPlace
      <3> QED BY <1>1, <2>1, <3>1 DEF Leaving, IInv, TypeOK
    <2>2. CASE ops = <<>> /\ DeleteRows(Deletion(inhand))
      <3>1. inhand \in Leaving /\ Deletion(inhand) = {inhand}
        BY <1>1, <2>2, GoesAlone
      <3>2. /\ present' \subseteq Rows /\ link' \in [Rows -> Ends] /\ removed' \subseteq removed \cup {inhand}
            /\ \A r \in Rows : link[r] = NoRow => link'[r] = NoRow
        BY <2>2, <3>1 DEF DeleteRows, IInv, TypeOK, Ends
      <3> QED BY <1>1, <3>1, <3>2 DEF Leaving
    <2>3. CASE UNCHANGED <<present, link, removed>>
      BY <1>1, <2>3 DEF Leaving, IInv, TypeOK, Ends
    <2> QED BY <2>1, <2>2, <2>3 DEF RemovalFails
  <1>3. Clearing' /\ ops' \in Seq(Updates)
    BY <1>1 DEF Clearing
  <1>4. failed' \in BOOLEAN /\ unlinked' \in BOOLEAN
    BY <1>1, Zenon DEF IInv, TypeOK
  <1> QED BY <1>1, <1>2, <1>3, <1>4, RemovingKeeps

LEMMA EndPruneKeeps ==
  ASSUME IInv, EndPrune
  PROVE  IInv'
  <1> USE DEF store, budget, linking, removing
  <1>1. /\ pc = "prune" /\ plan = {} /\ inhand = NoRow /\ ops = <<>> /\ round' \in {1, 2}
        /\ pc' \in {"import", "ended"} /\ (pc' = "import" => round' = 2)
        /\ UNCHANGED <<store, budget, request, linking, removing, plan, ops, inhand, failed, changes,
                       faults>>
    BY DEF EndPrune, NothingInHand, IInv, TypeOK, Clearing
  <1>2. TypeOK' /\ InPlace' /\ Clearing' /\ AsRead'
    BY <1>1 DEF IInv, TypeOK, InPlace, Clearing, AsRead
  <1>3. Leaving' = Leaving
    BY <1>1 DEF Leaving
  <1>4. Condemned'
    BY <1>1, <1>3, FewerLeaving DEF IInv, Condemned
  <1> QED BY <1>2, <1>4 DEF IInv

LEMMA StepIInv == IInv /\ [Next]_vars => IInv'
  <1> SUFFICES ASSUME IInv, [Next]_vars PROVE IInv'
    OBVIOUS
  <1>1. CASE UNCHANGED vars
    <2> USE <1>1 DEF vars, store, budget, linking, removing, work
    <2>1. TypeOK'
      BY Zenon DEF IInv, TypeOK
    <2>2. InPlace' /\ Clearing'
      BY DEF IInv, InPlace, Clearing, Touchable, Own, Kept, Linked, Usable, Points
    <2>3. ToRelink(start)' = ToRelink(start)
      BY DEF ToRelink, Relinkable, Usable, Elsewhere, Releasable, Involved, Kept, Linked, Points
    <2>4. AsRead'
      BY <2>3 DEF IInv, AsRead, Usable
    <2>5. Leaving' = Leaving
      BY DEF Leaving
    <2>6. Condemned'
      BY <2>5 DEF IInv, Condemned
    <2> QED BY <2>1, <2>2, <2>4, <2>6 DEF IInv
  <1>2. CASE JobStep
    <2>1. CASE Begin \/ JudgePairs \/ UnlinkOne \/ ReadAgain
      BY <2>1, BeginKeeps, JudgePairsKeeps, UnlinkOneKeeps, ReadAgainKeeps
    <2>2. CASE LinkSecond \/ Verify \/ DeleteOrphan \/ EndPrune \/ Close
      BY <2>2, LinkSecondKeeps, VerifyKeeps, DeleteOrphanKeeps, EndPruneKeeps, FreshKeeps
    <2>3. CASE \E a \in Accounts : Import(a) \/ PassAccount(a) \/ PlanAccount(a)
      BY <2>3, ImportKeeps, PassAccountKeeps, PlanAccountKeeps
    <2>4. CASE \E p \in todo : TakeRelease(p) \/ PassOver(p) \/ LinkFirst(p)
      BY <2>4, TakeReleaseKeeps, PassOverKeeps, LinkFirstKeeps
    <2>5. CASE \E target \in plan : TakeOrphan(target)
      BY <2>5, TakeOrphanKeeps
    <2> QED BY <1>2, <2>1, <2>2, <2>3, <2>4, <2>5 DEF JobStep
  <1>3. CASE \E kind \in {"push", "prune", "align"}, shown \in 0..MaxShown : Press(kind, shown)
    BY <1>3, PressKeeps
  <1>4. CASE \/ Repair \/ \E r \in Rows : Fold(r) \/ PersonReconciles(r)
             \/ \E r, s \in Rows : PersonLinks(r, s)
    BY <1>4, StoreOrPersonKeeps
  <1>5. CASE ReleaseFails \/ LinkFails \/ RemovalFails \/ JobRaises \/ ApplierDies
    BY <1>5, ReleaseFailsKeeps, LinkFailsKeeps, RemovalFailsKeeps, EndedKeeps, FreshKeeps
  <1> QED BY <1>1, <1>2, <1>3, <1>4, <1>5 DEF Next

LEMMA Inductive == Spec => []IInv
  BY InitIInv, StepIInv, PTL DEF Spec

(***************************************************************************)
(* What a step of a job does to the rows and their links.                   *)
(***************************************************************************)

LeftAlone ==
    \A r \in present :
        NotOurs(r) \/ (link[r] \in present /\ NotOurs(link[r])) =>
            link'[r] = link[r] /\ (r \in present' \/ link[r] = NoRow)
PairsKept ==
    \A p \in request.pairs :
        Linked(p, link) => Points(p, link') /\ Legs(p) \subseteq present'

Nothing == link' = link /\ present \subseteq present'
Clears == ops # <<>> /\ pc \in {"release", "prune"} /\ link' = Cleared /\ present' = present
Links ==
    \E p \in request.pairs : \E r \in Legs(p) :
        /\ Usable(p) /\ link[r] \in {NoRow, Mate(p, r)}
        /\ link' = [link EXCEPT ![r] = Mate(p, r)] /\ present' = present
Deletes ==
    /\ inhand \in Leaving /\ link[inhand] = NoRow
    /\ \A r \in Rows : link'[r] = link[r]
    /\ present' = present \ {inhand}

LEMMA FirstLinks ==
  ASSUME IInv, pc = "link", NEW p \in todo, Linkable(p, index),
         link' = [link EXCEPT ![p[1]] = p[2]], present' = present
  PROVE  Links
  <1>1. p \in request.pairs /\ Usable(p)
    BY DEF IInv, InPlace, Linkable
  <1>2. p \in Ours \X Ours /\ p[1] # p[2]
    BY <1>1, PairsApart DEF IInv, TypeOK
  <1>3. index[p[1]] \in {NoRow, p[2]} /\ Mate(p, p[1]) = p[2] /\ p[1] \in Legs(p)
    BY <1>2 DEF Linkable, Elsewhere, Legs, Mate
  <1>4. link[p[1]] \in {index[p[1]], NoRow}
    BY <1>2, <1>3 DEF IInv, AsRead
  <1> QED BY <1>1, <1>3, <1>4 DEF Links

LEMMA SecondLinks ==
  ASSUME IInv, pc = "second", link' = [link EXCEPT ![inhand[2]] = inhand[1]], present' = present
  PROVE  Links
  <1>1. inhand \in request.pairs /\ Usable(inhand) /\ link[inhand[2]] \in {NoRow, inhand[1]}
    BY DEF IInv, AsRead
  <1>2. inhand \in Ours \X Ours /\ inhand[1] # inhand[2]
    BY <1>1, PairsApart DEF IInv, TypeOK
  <1>3. Mate(inhand, inhand[2]) = inhand[1] /\ inhand[2] \in Legs(inhand)
    BY <1>2 DEF Legs, Mate
  <1> QED BY <1>1, <1>3 DEF Links

LEMMA Deleting ==
  ASSUME IInv, pc = "prune", inhand # NoRow, ops = <<>>, DeleteRows(Deletion(inhand))
  PROVE  Deletes
  <1>1. inhand \in Leaving /\ link[inhand] = NoRow /\ Deletion(inhand) = {inhand}
    BY GoesAlone
  <1> QED BY <1>1 DEF Deletes, DeleteRows

LEMMA JobDoes ==
  ASSUME IInv, Next, Working
  PROVE  Nothing \/ Clears \/ Links \/ Deletes
  <1>1. CASE JobStep
    <2>1. CASE \/ Begin \/ JudgePairs \/ ReadAgain \/ Verify \/ EndPrune \/ Close
               \/ \E a \in Accounts : PassAccount(a) \/ PlanAccount(a)
               \/ \E p \in todo : TakeRelease(p) \/ PassOver(p)
               \/ \E target \in plan : TakeOrphan(target)
      BY <2>1 DEF Begin, JudgePairs, ReadAgain, Verify, EndPrune, Close, PassAccount, PlanAccount,
                  TakeRelease, PassOver, TakeOrphan, budget, Nothing
    <2>2. ASSUME NEW a \in Accounts, Import(a) PROVE Nothing
      BY <2>2 DEF Import, Nothing
    <2>3. CASE UnlinkOne
      BY <2>3 DEF UnlinkOne, Clears, IInv, InPlace
    <2>4. ASSUME NEW p \in todo, LinkFirst(p) PROVE Links
      BY <2>4, FirstLinks DEF LinkFirst
    <2>5. CASE LinkSecond
      BY <2>5, SecondLinks DEF LinkSecond
    <2>6. CASE DeleteOrphan
      BY <2>6, Deleting DEF DeleteOrphan
    <2> QED BY <1>1, <2>1, <2>2, <2>3, <2>4, <2>5, <2>6 DEF JobStep
  <1>2. CASE \E kind \in {"push", "prune", "align"}, shown \in 0..MaxShown : Press(kind, shown)
    BY <1>2 DEF Press, Working
  <1>3. CASE \/ Repair \/ \E r \in Rows : Fold(r) \/ PersonReconciles(r)
             \/ \E r, s \in Rows : PersonLinks(r, s)
    BY <1>3 DEF Repair, Fold, PersonReconciles, PersonLinks, Changed, Waiting, Working
  <1>4. CASE ReleaseFails
    BY <1>4 DEF ReleaseFails, Clears, Nothing
  <1>5. CASE LinkFails
    BY <1>5, FirstLinks, SecondLinks DEF LinkFails, Nothing
  <1>6. CASE RemovalFails
    BY <1>6, Deleting DEF RemovalFails, Clears, Nothing
  <1>7. CASE JobRaises \/ ApplierDies
    BY <1>7 DEF JobRaises, ApplierDies, budget, Nothing
  <1> QED BY <1>1, <1>2, <1>3, <1>4, <1>5, <1>6, <1>7 DEF Next

LEMMA ClearsWhatItMay ==
  ASSUME IInv, Clears
  PROVE  LeftAlone /\ PairsKept
  <1> DEFINE s == ops[1].row
  <1>1. s \in Rows /\ 1 \in 1..Len(ops) /\ link' = [link EXCEPT ![s] = NoRow]
    BY OneLessUpdate DEF Clears, Cleared, IInv, InPlace, Updates
  <1>2. Touchable(s)
    BY <1>1 DEF IInv, Clearing
  <1>3. link \in [Rows -> Ends] /\ present \subseteq Rows /\ present' = present
    BY DEF IInv, TypeOK, Clears, Ends
  <1>4. LeftAlone
    BY <1>1, <1>2, <1>3 DEF LeftAlone, Touchable, Own, NotOurs
  <1>5. ASSUME NEW p \in request.pairs, Linked(p, link) PROVE s \notin Legs(p)
    <2>1. p \in Ours \X Ours /\ p[1] # p[2] /\ Legs(p) \subseteq request.expected
      BY PairsApart DEF IInv, TypeOK
    <2>2. CASE pc = "release"
      <3>1. Points(p, start)
        BY <1>5, <2>1, <2>2 DEF IInv, AsRead, Linked, Points
      <3>2. Legs(p) \subseteq Kept(start)
        BY <1>5, <3>1 DEF Kept, Linked
      <3> QED BY <1>1, <2>2, <3>2 DEF IInv, Clearing
    <2>3. CASE pc = "prune"
      <3>1. inhand # NoRow /\ (s = inhand \/ link[s] \in {NoRow, inhand})
        BY <1>1, <2>3 DEF IInv, Clearing, Clears
      <3>2. inhand \notin request.expected
        BY <2>3, <3>1 DEF IInv, Condemned, Leaving
      <3>3. \A r \in Legs(p) : link[r] \in Legs(p)
        BY <1>5 DEF Linked, Points, Legs
      <3>4. Legs(p) \subseteq Rows
        BY <2>1 DEF Legs
      <3> QED BY <2>1, <3>1, <3>2, <3>3, <3>4
    <2> QED BY <2>2, <2>3 DEF Clears
  <1>6. PairsKept
    <2> SUFFICES ASSUME NEW p \in request.pairs, Linked(p, link)
                 PROVE  Points(p, link') /\ Legs(p) \subseteq present'
      BY DEF PairsKept
    <2>1. s \notin Legs(p) /\ p \in Ours \X Ours
      BY <1>5, PairsApart DEF IInv, TypeOK
    <2> QED BY <1>1, <1>3, <2>1 DEF Linked, Points, Legs, Usable
  <1> QED BY <1>4, <1>6

LEMMA LinksWhatItMay ==
  ASSUME IInv, Links
  PROVE  LeftAlone /\ PairsKept
  <1>1. PICK p \in request.pairs : \E r \in Legs(p) :
            /\ Usable(p) /\ link[r] \in {NoRow, Mate(p, r)}
            /\ link' = [link EXCEPT ![r] = Mate(p, r)] /\ present' = present
    BY DEF Links
  <1>2. PICK r \in Legs(p) :
            /\ Usable(p) /\ link[r] \in {NoRow, Mate(p, r)}
            /\ link' = [link EXCEPT ![r] = Mate(p, r)] /\ present' = present
    BY <1>1
  <1>3. p \in Ours \X Ours /\ link \in [Rows -> Ends] /\ present \subseteq Rows
    BY PairsApart DEF IInv, TypeOK, Ends
  <1>4. Mate(p, r) \in Legs(p) /\ \A s \in Legs(p) : s \in Ours /\ s \notin locked
    BY <1>2, <1>3 DEF Mate, Legs, Usable
  <1>5. LeftAlone
    BY <1>2, <1>3, <1>4 DEF LeftAlone, NotOurs
  <1>6. PairsKept
    <2> SUFFICES ASSUME NEW q \in request.pairs, Linked(q, link)
                 PROVE  Points(q, link') /\ Legs(q) \subseteq present'
      BY DEF PairsKept
    <2>1. q \in Ours \X Ours /\ (p # q => Legs(p) \cap Legs(q) = {})
      BY PairsApart DEF IInv, TypeOK
    <2>2. Legs(q) \subseteq present'
      BY <1>2 DEF Linked, Usable
    <2>3. CASE p = q
      <3>1. link[r] = Mate(p, r)
        BY <2>1, <2>3 DEF Linked, Points, Mate, Legs
      <3> QED BY <1>2, <1>3, <2>1, <2>2, <2>3, <3>1 DEF Linked, Points
    <2>4. CASE p # q
      BY <1>2, <1>3, <2>1, <2>2, <2>4 DEF Linked, Points, Legs
    <2> QED BY <2>3, <2>4
  <1> QED BY <1>5, <1>6

LEMMA DeletesWhatItMay ==
  ASSUME IInv, Deletes
  PROVE  LeftAlone /\ PairsKept
  <1>1. present \subseteq Rows /\ inhand \notin request.expected
    BY DEF IInv, TypeOK, Condemned, Deletes
  <1>2. LeftAlone
    BY <1>1 DEF Deletes, LeftAlone
  <1>3. PairsKept
    <2> SUFFICES ASSUME NEW p \in request.pairs, Linked(p, link)
                 PROVE  Points(p, link') /\ Legs(p) \subseteq present'
      BY DEF PairsKept
    <2>1. p \in Ours \X Ours /\ Legs(p) \subseteq request.expected
      BY PairsApart DEF IInv, TypeOK
    <2> QED BY <1>1, <2>1 DEF Deletes, Linked, Points, Usable, Legs
  <1> QED BY <1>2, <1>3

LEMMA JobIsGentle ==
  ASSUME IInv, Next, Working
  PROVE  LeftAlone /\ PairsKept
  <1>1. Nothing => LeftAlone /\ PairsKept
    BY DEF Nothing, LeftAlone, PairsKept, Linked, Points, Usable
  <1> QED BY <1>1, JobDoes, ClearsWhatItMay, LinksWhatItMay, DeletesWhatItMay

(***************************************************************************)
(* What a complete align vouches for: the second invariant, beside IInv.    *)
(***************************************************************************)

(* The job in hand is an align, and nothing of it went wrong so far.        *)
Sound == request.kind = "align" /\ ~failed

(* Only a row that is in the budget has a link, and to another account.     *)
Tidy ==
    \A r \in Rows : link[r] # NoRow => r \in present /\ AccountOf[link[r]] # AccountOf[r]

(* Nothing that was imported is lost again before the job ends.             *)
AllIn == request.expected \subseteq present
Imported ==
    /\ pc = "import" => \A a \in Accounts \ todo : request.expected \cap Of(a) \subseteq present
    /\ pc \in {"release", "link", "second"} => AllIn
    /\ Sound /\ pc \in {"prune", "ended"} => AllIn

(* The rows a release may clear, by the links l it was chosen on.           *)
Clearable(l) ==
    {r \in Rows : \E q \in ToRelink(l) : \E s \in Elsewhere(q, l) :
                      r = s \/ (r = l[s] /\ l[r] = s)}
Releasing ==
    pc = "release" =>
        /\ \A k \in 1..Len(ops) : ops[k].row \in Clearable(start)
        /\ \A r \in Rows : link[r] # start[r] => r \in Clearable(start)
        /\ ~failed => barred = {}

(* A release is recorded when both its rows are clear, and none is missed.  *)
Gone(r) == link[r] = NoRow \/ \E k \in 1..Len(ops) : ops[k].row = r
EndsInTurn(s) ==
    \A k \in 1..Len(s) : \A r \in s[k].ends \cap Rows :
        r = s[k].row \/ link[r] = NoRow \/ \E j \in 1..Len(s) : j < k /\ s[j].row = r
Recording ==
    pc = "release" =>
        /\ EndsInTurn(ops)
        /\ \A s \in released : \A r \in s \cap Rows : link[r] = NoRow
        /\ ~failed => \A p \in ToRelink(start) \ todo : \A r \in Elsewhere(p, start) :
               Gone(r) /\ Gone(start[r])

(* While the pairs are linked: who may have changed since the first         *)
(* reading, and that a pair not yet taken up is as it was judged.           *)
LegOf(r, m) == \E p \in m : r \in Legs(p)
Done(p) == p \in todo \/ (pc = "second" /\ p = inhand) \/ Points(p, link)
LinkingRight ==
    pc \in {"link", "second"} =>
        /\ todo \subseteq ToLink(start)
        /\ \A r \in Rows : link[r] # start[r] => r \in Clearable(start) \/ LegOf(r, ToLink(start))
        /\ \A p \in todo : \A r \in Legs(p) :
               /\ p \notin ToRelink(start) => index[r] = start[r] /\ link[r] = start[r]
               /\ index = start \/ link[r] = index[r]
        /\ pc = "second" => inhand \in ToLink(start) /\ link[inhand[1]] = inhand[2]
        /\ ~failed => \A p \in ToLink(start) : Done(p)
        /\ ~failed => \A r \in Freed(start) : link[r] = NoRow \/ LegOf(r, ToLink(start))

(* No pair can be linked, unless a removal cleared a link and the align is  *)
(* yet to push again.                                                       *)
NoneLinkable ==
    /\ Sound /\ (pc = "ended" \/ (pc = "prune" /\ ~unlinked)) =>
           \A p \in request.pairs : ~Linkable(p, link)
    /\ pc = "prune" /\ ops # <<>> => unlinked

(* What is planned in the account in hand can be removed, whatever of the   *)
(* same account is removed before it.                                       *)
InPlan == {t.row : t \in plan}
Planned ==
    pc = "prune" =>
        /\ \A t, u \in plan : t.row = u.row => t = u
        /\ \A t, u \in plan : AccountOf[t.row] = AccountOf[u.row]
        /\ inhand # NoRow => /\ inhand \in present /\ inhand \notin InPlan
                             /\ \A t \in plan : AccountOf[t.row] = AccountOf[inhand]
        /\ Len(ops) <= 2 /\ (Len(ops) = 2 => ops[1].row = link[inhand] /\ Movable(inhand))
        /\ \A t \in plan : /\ t.row \in present
                           /\ link[t.row] = NoRow \/ (link[t.row] = t.partner /\ Movable(t.row))

(* An orphan that stays where its account was pruned is linked, and not to  *)
(* a row that could be unlinked from it and names it back.                  *)
Mutual(r, l) == r \notin locked /\ Releasable(r, l) /\ l[l[r]] = r
Stays(r, l) == l[r] # NoRow /\ ~Mutual(r, l)
Pruned(a) == request.expected \cap Of(a) # {}
AllStay(l) == \A a \in Accounts : Pruned(a) => \A r \in Orphans(a) : Stays(r, l)
NoneLeft ==
    Sound =>
        /\ pc = "prune" => \A a \in Accounts \ todo : Pruned(a) =>
               \A r \in Orphans(a) : r \in InPlan \/ r = inhand \/ Stays(r, link)
        /\ round = 2 \/ pc = "ended" => AllStay(link)
        /\ round = 2 /\ pc = "release" => AllStay(start)

JInv == Tidy /\ Imported /\ Releasing /\ Recording /\ LinkingRight /\ NoneLinkable /\ Planned /\ NoneLeft

(***************************************************************************)
(* What each stage of a job is reached by.                                  *)
(***************************************************************************)

LEMMA Arrivals ==
  ASSUME IInv, Next
  PROVE  /\ pc' = "import" => Begin \/ EndPrune \/ (pc = "import" /\ \E a \in Accounts : Import(a))
         /\ pc' = "release" => \/ JudgePairs
                               \/ pc = "release" /\ (UnlinkOne \/ ReleaseFails)
                               \/ pc = "release" /\ \E p \in todo : TakeRelease(p)
         /\ pc' \in {"link", "second"} => \/ ReadAgain \/ LinkSecond \/ LinkFails
                                          \/ \E p \in todo : PassOver(p) \/ LinkFirst(p)
         /\ pc' = "prune" => \/ Begin \/ Verify \/ DeleteOrphan \/ RemovalFails
                             \/ pc = "prune" /\ UnlinkOne
                             \/ \E a \in Accounts : PassAccount(a) \/ PlanAccount(a)
                             \/ \E t \in plan : TakeOrphan(t)
         /\ pc' = "ended" => Verify \/ EndPrune \/ JobRaises
  <1>1. CASE JobStep
    <2>1. CASE \/ Begin \/ JudgePairs \/ ReadAgain \/ LinkSecond \/ Verify
      BY <2>1 DEF Begin, JudgePairs, ReadAgain, LinkSecond, Verify
    <2>2. CASE DeleteOrphan \/ EndPrune \/ Close
      BY <2>2 DEF DeleteOrphan, EndPrune, Close
    <2>3. CASE UnlinkOne
      BY <2>3 DEF UnlinkOne, IInv, InPlace
    <2>4. CASE \E a \in Accounts : Import(a) \/ PassAccount(a) \/ PlanAccount(a)
      BY <2>4 DEF Import, PassAccount, PlanAccount
    <2>5. CASE \E p \in todo : TakeRelease(p) \/ PassOver(p) \/ LinkFirst(p)
      BY <2>5 DEF TakeRelease, PassOver, LinkFirst
    <2>6. CASE \E target \in plan : TakeOrphan(target)
      BY <2>6 DEF TakeOrphan
    <2> QED BY <1>1, <2>1, <2>2, <2>3, <2>4, <2>5, <2>6 DEF JobStep
  <1>2. CASE \/ Repair \/ \E r \in Rows : Fold(r) \/ PersonReconciles(r)
             \/ \E r, s \in Rows : PersonLinks(r, s)
             \/ \E kind \in {"push", "prune", "align"}, shown \in 0..MaxShown : Press(kind, shown)
    BY <1>2 DEF Repair, Fold, PersonReconciles, PersonLinks, Changed, Waiting, Press
  <1>3. CASE ReleaseFails \/ LinkFails \/ RemovalFails \/ JobRaises \/ ApplierDies
    BY <1>3 DEF ReleaseFails, LinkFails, RemovalFails, JobRaises, ApplierDies
  <1> QED BY <1>1, <1>2, <1>3 DEF Next

(* A row that belongs to two pairs belongs to one.                          *)
LEMMA OnePair ==
  ASSUME IInv, NEW p \in request.pairs
  PROVE  /\ p \in Ours \X Ours /\ p[1] # p[2] /\ Legs(p) \subseteq request.expected
         /\ AccountOf[p[1]] # AccountOf[p[2]]
         /\ \A r \in Legs(p) : r \in Ours /\ Mate(p, r) \in Legs(p) /\ Mate(p, r) # r
         /\ \A q \in request.pairs, r \in Legs(p) : r \in Legs(q) => q = p
  <1>1. /\ p \in Ours \X Ours /\ p[1] # p[2] /\ Legs(p) \subseteq request.expected
        /\ \A q \in request.pairs : p # q => Legs(p) \cap Legs(q) = {}
    BY PairsApart DEF IInv, TypeOK
  <1>2. AccountOf[p[1]] # AccountOf[p[2]]
    BY DEF IInv, TypeOK, Pairings, Sides, Opposite
  <1> QED BY <1>1, <1>2 DEF Legs, Mate

LEMMA TidyKept ==
  ASSUME IInv, Tidy, Next
  PROVE  Tidy'
  <1>1. link \in [Rows -> Ends] /\ present \subseteq Rows
    BY DEF IInv, TypeOK, Ends
  <1>2. CASE Nothing
    BY <1>2 DEF Tidy, Nothing
  <1>3. CASE Clears
    <2>1. ops[1].row \in Rows /\ link' = [link EXCEPT ![ops[1].row] = NoRow]
      BY <1>3, OneLessUpdate DEF Clears, Cleared, IInv, InPlace, Updates
    <2> QED BY <1>1, <1>3, <2>1 DEF Tidy, Clears
  <1>4. CASE Links
    <2>1. PICK p \in request.pairs : \E r \in Legs(p) :
              /\ Usable(p) /\ link[r] \in {NoRow, Mate(p, r)}
              /\ link' = [link EXCEPT ![r] = Mate(p, r)] /\ present' = present
      BY <1>4 DEF Links
    <2>2. \A r \in Legs(p) : r \in present /\ AccountOf[Mate(p, r)] # AccountOf[r]
      BY <2>1, OnePair DEF Usable, Legs, Mate
    <2> QED BY <1>1, <2>1, <2>2 DEF Tidy
  <1>5. CASE Deletes
    BY <1>5 DEF Tidy, Deletes
  <1>6. CASE \/ Repair \/ \E r \in Rows : Fold(r) \/ PersonReconciles(r)
             \/ \E kind \in {"push", "prune", "align"}, shown \in 0..MaxShown : Press(kind, shown)
    BY <1>6 DEF Repair, Fold, PersonReconciles, Press, Tidy, budget
  <1>7. ASSUME NEW r \in Rows, NEW s \in Rows, PersonLinks(r, s) PROVE Tidy'
    <2>1. link' = [link EXCEPT ![r] = s, ![s] = r] /\ present' = present
      BY <1>7 DEF PersonLinks
    <2>2. r \in present /\ s \in present /\ AccountOf[r] # AccountOf[s]
      BY <1>7 DEF PersonLinks, Opposite
    <2>3. \A t \in Rows : link'[t] = IF t = s THEN r ELSE IF t = r THEN s ELSE link[t]
      BY <1>1, <2>1
    <2> QED BY <2>1, <2>2, <2>3 DEF Tidy
  <1>8. CASE Begin \/ Close
    BY <1>8 DEF Begin, Close, budget, Nothing, Tidy
  <1>9. CASE \E a \in Accounts : Import(a)
    BY <1>9 DEF Import, Tidy
  <1>10. Working \/ Begin \/ Close \/ Repair
         \/ (\E r \in Rows : Fold(r) \/ PersonReconciles(r)) \/ (\E r, s \in Rows : PersonLinks(r, s))
         \/ \E kind \in {"push", "prune", "align"}, shown \in 0..MaxShown : Press(kind, shown)
    <2>1. CASE JobStep
      <3>1. JobStep => Working \/ Begin \/ Close
        BY DEF JobStep, JudgePairs, UnlinkOne, ReadAgain, LinkSecond, Verify, DeleteOrphan, EndPrune,
               Import, PassAccount, PlanAccount, TakeRelease, PassOver, LinkFirst, TakeOrphan, Working,
               IInv, InPlace
      <3> QED BY <2>1, <3>1
    <2>2. CASE ReleaseFails \/ LinkFails \/ RemovalFails \/ JobRaises \/ ApplierDies
      BY <2>2 DEF ReleaseFails, LinkFails, RemovalFails, JobRaises, ApplierDies, Working
    <2> QED BY <2>1, <2>2 DEF Next
  <1>11. Working => Nothing \/ Clears \/ Links \/ Deletes
    BY JobDoes
  <1> QED BY <1>2, <1>3, <1>4, <1>5, <1>6, <1>7, <1>8, <1>10, <1>11

LEMMA ImportedKept ==
  ASSUME IInv, Imported, Next
  PROVE  Imported'
  <1>1. AllIn = \A a \in Accounts : request.expected \cap Of(a) \subseteq present
    BY DEF AllIn, Of, IInv, InPlace
  <1>2. ASSUME pc' = "import"
        PROVE  \A a \in Accounts \ todo' : request'.expected \cap Of(a) \subseteq present'
    <2>1. CASE Begin \/ EndPrune
      BY <1>2, <2>1 DEF Begin, EndPrune
    <2>2. ASSUME NEW a \in Accounts, Import(a), pc = "import"
          PROVE  \A b \in Accounts \ todo' : request'.expected \cap Of(b) \subseteq present'
      BY <2>2 DEF Import, Imported
    <2> QED BY <1>2, <2>1, <2>2, Arrivals
  <1>3. ASSUME pc' = "release" PROVE AllIn'
    <2>1. CASE JudgePairs
      BY <1>1, <2>1 DEF JudgePairs, Imported, budget, AllIn
    <2>2. CASE pc = "release" /\ (UnlinkOne \/ ReleaseFails \/ \E p \in todo : TakeRelease(p))
      BY <2>2 DEF UnlinkOne, ReleaseFails, TakeRelease, Imported, budget, AllIn
    <2> QED BY <1>3, <2>1, <2>2, Arrivals
  <1>4. ASSUME pc' \in {"link", "second"} PROVE AllIn'
    <2>1. CASE ReadAgain \/ LinkSecond \/ LinkFails
      BY <2>1 DEF ReadAgain, LinkSecond, LinkFails, Imported, budget, AllIn
    <2>2. CASE \E p \in todo : PassOver(p) \/ LinkFirst(p)
      BY <2>2 DEF PassOver, LinkFirst, Imported, budget, AllIn
    <2> QED BY <1>4, <2>1, <2>2, Arrivals
  <1>5. ASSUME pc' = "prune", Sound' PROVE AllIn'
    <2>1. CASE Begin
      BY <1>5, <2>1 DEF Begin, Sound
    <2>2. CASE Verify
      BY <2>2 DEF Verify, Imported, budget, AllIn
    <2>3. CASE RemovalFails
      BY <1>5, <2>3, Zenon DEF RemovalFails, Sound
    <2>4. CASE DeleteOrphan
      <3>1. Deletes /\ pc = "prune" /\ UNCHANGED <<request, failed>>
        BY <2>4, Deleting DEF DeleteOrphan
      <3>2. inhand \notin request.expected
        BY <3>1 DEF Deletes, IInv, Condemned
      <3> QED BY <1>5, <3>1, <3>2 DEF Deletes, Imported, AllIn, Sound
    <2>5. CASE pc = "prune" /\ UnlinkOne
      BY <1>5, <2>5 DEF UnlinkOne, Imported, AllIn, Sound
    <2>6. ASSUME NEW a \in Accounts, PassAccount(a) \/ PlanAccount(a) PROVE AllIn'
      <3>1. pc = "prune" /\ request' = request /\ present' = present
        BY <2>6 DEF PassAccount, PlanAccount, budget
      <3>2. failed => failed'
        BY <2>6 DEF PassAccount, PlanAccount
      <3>3. Sound
        BY <1>5, <3>1, <3>2 DEF Sound
      <3> QED BY <3>1, <3>3 DEF Imported, AllIn
    <2>7. CASE \E t \in plan : TakeOrphan(t)
      BY <1>5, <2>7 DEF TakeOrphan, Imported, AllIn, Sound, budget
    <2> QED BY <1>5, <2>1, <2>2, <2>3, <2>4, <2>5, <2>6, <2>7, Arrivals
  <1>6. ASSUME pc' = "ended", Sound' PROVE AllIn'
    <2>1. CASE Verify \/ EndPrune
      BY <1>6, <2>1 DEF Verify, EndPrune, Imported, budget, AllIn, Sound
    <2>2. CASE JobRaises
      BY <1>6, <2>2, Zenon DEF JobRaises, Sound
    <2> QED BY <1>6, <2>1, <2>2, Arrivals
  <1> QED BY <1>2, <1>3, <1>4, <1>5, <1>6 DEF Imported

(***************************************************************************)
(* The release: what may be cleared, and that nothing of it is missed.      *)
(***************************************************************************)

LEMMA AsJudged ==
  ASSUME present' = present, locked' = locked, request' = request, start' = start
  PROVE  /\ ToRelink(start)' = ToRelink(start) /\ ToLink(start)' = ToLink(start)
         /\ Clearable(start)' = Clearable(start) /\ Freed(start)' = Freed(start)
  <1>1. ToRelink(start)' = ToRelink(start)
    BY DEF ToRelink, Relinkable, Usable, Elsewhere, Releasable, Involved, Kept, Linked, Points
  <1>2. ToLink(start)' = ToLink(start)
    BY <1>1 DEF ToLink, Linked, Linkable, Usable, Points, Elsewhere
  <1>3. Clearable(start)' = Clearable(start) /\ Freed(start)' = Freed(start)
    BY <1>1 DEF Clearable, Freed, Elsewhere
  <1> QED BY <1>1, <1>2, <1>3

LEMMA UnlinkInTurn ==
  ASSUME NEW l \in [Rows -> Ends], NEW leg \in Rows, l[leg] \in Rows
  PROVE  LET U == Unlink(leg, l)
         IN  /\ U \in Seq(Updates) /\ Len(U) \in {1, 2}
             /\ \A k \in 1..Len(U) : U[k].row = leg \/ (U[k].row = l[leg] /\ l[l[leg]] # NoRow)
             /\ \E k \in 1..Len(U) : U[k].row = leg
             /\ l[l[leg]] # NoRow => U[1].row = l[leg]
             /\ Len(U) = 2 => l[l[leg]] # NoRow
             /\ \A k \in 1..Len(U) : \A r \in U[k].ends :
                    \/ r = U[k].row
                    \/ r = l[leg] /\ (l[l[leg]] = NoRow \/ \E j \in 1..Len(U) : j < k /\ U[j].row = r)
  <1> DEFINE first == [row |-> l[leg], ends |-> {}]
             last == [row |-> leg, ends |-> {leg, l[leg]}]
  <1>1. first \in Updates /\ last \in Updates
    BY DEF Updates, Ends
  <1>2. Unlink(leg, l) = IF l[l[leg]] = NoRow THEN <<last>> ELSE <<first>> \o <<last>>
    BY Zenon DEF Unlink
  <1>3. /\ first.row = l[leg] /\ first.ends = {} /\ last.row = leg /\ last.ends = {leg, l[leg]}
    OBVIOUS
  <1> HIDE DEF first, last
  <1>4. /\ <<first>> \o <<last>> \in Seq(Updates) /\ Len(<<first>> \o <<last>>) = 2
        /\ (<<first>> \o <<last>>)[1] = first /\ (<<first>> \o <<last>>)[2] = last
    BY <1>1
  <1>5. CASE l[l[leg]] = NoRow
    BY <1>1, <1>2, <1>3, <1>5
  <1>6. CASE l[l[leg]] # NoRow
    <2> DEFINE U == <<first>> \o <<last>>
    <2>1. Unlink(leg, l) = U /\ U \in Seq(Updates) /\ Len(U) = 2 /\ U[1] = first /\ U[2] = last
      BY <1>2, <1>4, <1>6
    <2> HIDE DEF U
    <2>2. 1..Len(U) = {1, 2} /\ 1 < 2
      BY <2>1
    <2>3. \A k \in 1..Len(U) : U[k] = first \/ (U[k] = last /\ k = 2)
      BY <2>1, <2>2
    <2>4. \A k \in 1..Len(U) : \A r \in U[k].ends :
              r = U[k].row \/ (r = l[leg] /\ \E j \in 1..Len(U) : j < k /\ U[j].row = r)
      BY <1>3, <2>1, <2>2, <2>3
    <2> QED BY <1>3, <1>6, <2>1, <2>2, <2>3, <2>4
  <1> QED BY <1>5, <1>6

LEMMA ConcatInTurn ==
  ASSUME NEW a \in Seq(Updates), NEW b \in Seq(Updates), EndsInTurn(a), EndsInTurn(b)
  PROVE  /\ EndsInTurn(a \o b)
         /\ \A i \in 1..Len(a) : \E k \in 1..Len(a \o b) : (a \o b)[k] = a[i]
         /\ \A i \in 1..Len(b) : \E k \in 1..Len(a \o b) : (a \o b)[k] = b[i]
  <1> DEFINE s == a \o b
             m == Len(a)
             n == Len(b)
  <1>1. m \in Nat /\ n \in Nat /\ Len(s) = m + n
    OBVIOUS
  <1>2. \A i \in 1..m : s[i] = a[i]
    OBVIOUS
  <1>3. \A i \in 1..n : s[m + i] = b[i]
    OBVIOUS
  <1> HIDE DEF s, m, n
  <1>4. \A i \in 1..m : i \in 1..Len(s)
    BY <1>1
  <1>5. \A i \in 1..n : m + i \in 1..Len(s)
    BY <1>1
  <1>6. \A k \in 1..Len(s) : k \in 1..m \/ \E i \in 1..n : k = m + i
    <2> TAKE k \in 1..Len(s)
    <2>1. CASE k <= m
      BY <1>1, <2>1
    <2>2. CASE k > m
      <3>1. k - m \in 1..n /\ k = m + (k - m)
        BY <1>1, <2>2
      <3> QED BY <3>1
    <2> QED BY <1>1, <2>1, <2>2
  <1>7. ASSUME NEW k \in 1..Len(s), NEW r \in s[k].ends \cap Rows
        PROVE  r = s[k].row \/ link[r] = NoRow \/ \E j \in 1..Len(s) : j < k /\ s[j].row = r
    <2>1. CASE k \in 1..m
      <3>1. r = a[k].row \/ link[r] = NoRow \/ \E j \in 1..m : j < k /\ a[j].row = r
        BY <1>2, <1>7, <2>1 DEF EndsInTurn, m
      <3> QED BY <1>2, <1>4, <2>1, <3>1
    <2>2. ASSUME NEW i \in 1..n, k = m + i
          PROVE  r = s[k].row \/ link[r] = NoRow \/ \E j \in 1..Len(s) : j < k /\ s[j].row = r
      <3>1. r = b[i].row \/ link[r] = NoRow \/ \E j \in 1..n : j < i /\ b[j].row = r
        BY <1>3, <1>7, <2>2 DEF EndsInTurn, n
      <3>2. \A j \in 1..n : j < i => m + j < k
        BY <1>1, <2>2
      <3> QED BY <1>3, <1>5, <2>2, <3>1, <3>2
    <2> QED BY <1>6, <2>1, <2>2
  <1>8. EndsInTurn(s)
    BY <1>7 DEF EndsInTurn
  <1> QED BY <1>2, <1>3, <1>4, <1>5, <1>8 DEF s, m, n

(* A leg that is to be released, and the partner it is released from.       *)
LEMMA ReleasedFrom ==
  ASSUME IInv, NEW l \in [Rows -> Ends], NEW p \in ToRelink(l), NEW r \in Elsewhere(p, l)
  PROVE  /\ p \in request.pairs /\ r \in Legs(p) /\ r \in Rows
         /\ Own(r) /\ r \in present
         /\ l[r] \in Rows /\ Own(l[r]) /\ l[r] \in present
         /\ l[l[r]] \in {NoRow, r}
  <1>1. p \in request.pairs /\ Relinkable(p, l) /\ r \in Legs(p)
    BY DEF ToRelink, Elsewhere
  <1>2. r \in Ours
    BY <1>1, OnePair
  <1> QED BY <1>1, <1>2 DEF Relinkable, Usable, Releasable, Own

(* All the updates of the release of a pair p, chosen on the links start.   *)
LEMMA ReleaseInTurn ==
  ASSUME IInv, pc = "release", NEW p \in ToRelink(start)
  PROVE  LET U == Release(p, start)
         IN  /\ EndsInTurn(U)
             /\ \A k \in 1..Len(U) : U[k].row \in Clearable(start)
             /\ \A r \in Elsewhere(p, start) :
                    \/ {r, start[r]} \in released
                    \/ /\ \E k \in 1..Len(U) : U[k].row = r
                       /\ link[start[r]] = NoRow \/ \E k \in 1..Len(U) : U[k].row = start[r]
  <1> DEFINE Leg(r) == IF r \in Elsewhere(p, start) /\ {r, start[r]} \notin released
                       THEN Unlink(r, start) ELSE <<>>
  <1>1. /\ p \in request.pairs /\ Relinkable(p, start) /\ p \in Rows \X Rows
        /\ start \in [Rows -> Ends] /\ \A r \in Rows : link[r] \in {start[r], NoRow}
    <2>1. p \in request.pairs /\ Relinkable(p, start)
      BY DEF ToRelink
    <2> QED BY <2>1, OnePair DEF IInv, TypeOK, AsRead, Ends
  <1>2. \A r \in Elsewhere(p, start) :
            /\ r \in Legs(p) /\ r \in Rows /\ start[r] \in Rows
            /\ start[start[r]] \in {NoRow, r} /\ (start[start[r]] = NoRow => link[start[r]] = NoRow)
    BY <1>1 DEF Elsewhere, Relinkable, Releasable, Legs
  <1>3. ASSUME NEW r \in {p[1], p[2]}
        PROVE  /\ Leg(r) \in Seq(Updates) /\ EndsInTurn(Leg(r))
               /\ \A k \in 1..Len(Leg(r)) : Leg(r)[k].row \in Clearable(start)
               /\ r \in Elsewhere(p, start) =>
                    \/ {r, start[r]} \in released
                    \/ /\ \E k \in 1..Len(Leg(r)) : Leg(r)[k].row = r
                       /\ link[start[r]] = NoRow \/ \E k \in 1..Len(Leg(r)) : Leg(r)[k].row = start[r]
    <2>1. CASE r \in Elsewhere(p, start) /\ {r, start[r]} \notin released
      <3> DEFINE U == Unlink(r, start)
      <3>1. Leg(r) = U
        BY <2>1
      <3>2. /\ U \in Seq(Updates) /\ Len(U) \in {1, 2}
            /\ \A k \in 1..Len(U) : U[k].row = r \/ (U[k].row = start[r] /\ start[start[r]] # NoRow)
            /\ \E k \in 1..Len(U) : U[k].row = r
            /\ start[start[r]] # NoRow => U[1].row = start[r]
            /\ \A k \in 1..Len(U) : \A q \in U[k].ends :
                   \/ q = U[k].row
                   \/ q = start[r] /\ (start[start[r]] = NoRow
                                        \/ \E j \in 1..Len(U) : j < k /\ U[j].row = q)
        BY <1>1, <1>2, <2>1, UnlinkInTurn
      <3> HIDE DEF U, Leg
      <3>3. EndsInTurn(U)
        BY <1>2, <2>1, <3>2 DEF EndsInTurn
      <3>4. \A k \in 1..Len(U) : U[k].row \in Clearable(start)
        <4>1. \A k \in 1..Len(U) : U[k].row = r \/ (U[k].row = start[r] /\ start[start[r]] = r)
          BY <1>2, <2>1, <3>2
        <4> QED BY <1>2, <2>1, <4>1 DEF Clearable
      <3>5. link[start[r]] = NoRow \/ \E k \in 1..Len(U) : U[k].row = start[r]
        BY <1>2, <2>1, <3>2
      <3> QED BY <3>1, <3>2, <3>3, <3>4, <3>5
    <2>2. CASE ~(r \in Elsewhere(p, start) /\ {r, start[r]} \notin released)
      <3>1. Leg(r) = <<>>
        BY <2>2
      <3> HIDE DEF Leg
      <3> QED BY <2>2, <3>1 DEF EndsInTurn
    <2> QED BY <2>1, <2>2
  <1>4. Release(p, start) = Leg(p[1]) \o Leg(p[2])
    BY DEF Release
  <1> HIDE DEF Leg
  <1> DEFINE U == Leg(p[1]) \o Leg(p[2])
  <1>5. /\ EndsInTurn(U)
        /\ \A i \in 1..Len(Leg(p[1])) : \E k \in 1..Len(U) : U[k] = Leg(p[1])[i]
        /\ \A i \in 1..Len(Leg(p[2])) : \E k \in 1..Len(U) : U[k] = Leg(p[2])[i]
    BY <1>3, ConcatInTurn
  <1>6. ASSUME NEW k \in 1..Len(U) PROVE U[k].row \in Clearable(start)
    <2>1. \/ \E i \in 1..Len(Leg(p[1])) : U[k] = Leg(p[1])[i]
          \/ \E i \in 1..Len(Leg(p[2])) : U[k] = Leg(p[2])[i]
      BY <1>3, ConcatParts
    <2> HIDE DEF U
    <2> QED BY <1>3, <2>1
  <1> HIDE DEF U
  <1>7. ASSUME NEW r \in Elsewhere(p, start)
        PROVE  \/ {r, start[r]} \in released
               \/ /\ \E k \in 1..Len(U) : U[k].row = r
                  /\ link[start[r]] = NoRow \/ \E k \in 1..Len(U) : U[k].row = start[r]
    <2>1. r \in {p[1], p[2]}
      BY <1>2 DEF Legs
    <2>2. \A i \in 1..Len(Leg(r)) : \E k \in 1..Len(U) : U[k] = Leg(r)[i]
      BY <1>5, <2>1
    <2>3. \A q : (\E i \in 1..Len(Leg(r)) : Leg(r)[i].row = q) => \E k \in 1..Len(U) : U[k].row = q
      <3> TAKE q
      <3> HAVE \E i \in 1..Len(Leg(r)) : Leg(r)[i].row = q
      <3>1. PICK i \in 1..Len(Leg(r)) : Leg(r)[i].row = q
        OBVIOUS
      <3>2. PICK k \in 1..Len(U) : U[k] = Leg(r)[i]
        BY <2>2
      <3> QED BY <3>1, <3>2
    <2>4. \/ {r, start[r]} \in released
          \/ /\ \E i \in 1..Len(Leg(r)) : Leg(r)[i].row = r
             /\ link[start[r]] = NoRow \/ \E i \in 1..Len(Leg(r)) : Leg(r)[i].row = start[r]
      BY <1>3, <2>1
    <2> QED BY <2>3, <2>4
  <1>8. Release(p, start) = U
    BY <1>4 DEF U
  <1>9. EndsInTurn(U)
    BY <1>5
  <1> QED BY <1>6, <1>7, <1>8, <1>9

LEMMA JudgingReleases ==
  ASSUME IInv, JudgePairs
  PROVE  Releasing' /\ Recording'
  <1>1. /\ link' = link /\ start' = link /\ ops' = <<>> /\ todo' = ToRelink(link) /\ barred' = {}
        /\ released' = {} /\ present' = present /\ locked' = locked /\ request' = request
    BY DEF JudgePairs, budget, IInv, InPlace
  <1>2. ToRelink(start)' = ToRelink(link)
    BY <1>1 DEF ToRelink, Relinkable, Usable, Elsewhere, Releasable, Involved, Kept, Linked, Points
  <1>3. Releasing'
    BY <1>1 DEF Releasing
  <1>4. Recording'
    BY <1>1, <1>2 DEF Recording, EndsInTurn
  <1> QED BY <1>3, <1>4

LEMMA TakingReleases ==
  ASSUME IInv, Releasing, Recording, pc = "release", NEW p \in todo, TakeRelease(p)
  PROVE  Releasing' /\ Recording'
  <1>1. /\ ops = <<>> /\ ops' = Release(p, start) /\ todo' = todo \ {p} /\ link' = link
        /\ present' = present /\ locked' = locked /\ request' = request /\ start' = start
        /\ released' = released /\ barred' = barred /\ pc' = pc
    BY DEF TakeRelease, budget, linking
  <1>2. ToRelink(start)' = ToRelink(start) /\ Clearable(start)' = Clearable(start)
    BY <1>1, AsJudged
  <1>3. p \in ToRelink(start)
    BY DEF IInv, AsRead
  <1> DEFINE U == Release(p, start)
  <1>4. /\ EndsInTurn(U)
        /\ \A k \in 1..Len(U) : U[k].row \in Clearable(start)
        /\ \A r \in Elsewhere(p, start) :
               \/ {r, start[r]} \in released
               \/ /\ \E k \in 1..Len(U) : U[k].row = r
                  /\ link[start[r]] = NoRow \/ \E k \in 1..Len(U) : U[k].row = start[r]
    BY <1>3, ReleaseInTurn
  <1> HIDE DEF U
  <1>5. ops' = U
    BY <1>1 DEF U
  <1>6. ~failed' => ~failed
    BY DEF TakeRelease
  <1>7. Releasing'
    BY <1>1, <1>2, <1>4, <1>5, <1>6 DEF Releasing
  <1>8. EndsInTurn(ops)'
    BY <1>1, <1>4, <1>5 DEF EndsInTurn
  <1>9. \A s \in released : \A r \in s \cap Rows : link[r] = NoRow
    BY DEF Recording
  <1>10. \A r \in Elsewhere(p, start) : Gone(r)' /\ Gone(start[r])'
    <2> TAKE r \in Elsewhere(p, start)
    <2>1. link' = link /\ ops' = U
      BY <1>1, <1>5
    <2>2. CASE {r, start[r]} \in released
      <3>1. r \in Rows /\ start[r] \in Rows
        BY <1>3, ReleasedFrom DEF IInv, TypeOK, Ends
      <3>2. link[r] = NoRow /\ link[start[r]] = NoRow
        BY <1>9, <2>2, <3>1
      <3> QED BY <1>1, <2>1, <3>2 DEF Gone
    <2>3. CASE {r, start[r]} \notin released
      <3>1. /\ \E k \in 1..Len(U) : U[k].row = r
            /\ link[start[r]] = NoRow \/ \E k \in 1..Len(U) : U[k].row = start[r]
        BY <1>4, <2>3
      <3> QED BY <1>1, <2>1, <3>1 DEF Gone
    <2> QED BY <2>2, <2>3
  <1>11. ASSUME ~failed', NEW q \in ToRelink(start) \ todo', NEW r \in Elsewhere(q, start)
         PROVE  Gone(r)' /\ Gone(start[r])'
    <2>1. CASE q = p
      BY <1>10, <2>1
    <2>2. CASE q # p
      <3>1. q \in ToRelink(start) \ todo /\ Gone(r) /\ Gone(start[r])
        BY <1>1, <1>6, <1>11, <2>2 DEF Recording
      <3>2. link[r] = NoRow /\ link[start[r]] = NoRow
        BY <1>1, <3>1 DEF Gone
      <3> QED BY <1>1, <3>2 DEF Gone
    <2> QED BY <2>1, <2>2
  <1>12. Recording'
    BY <1>1, <1>2, <1>8, <1>9, <1>11 DEF Recording, Gone, Elsewhere
  <1> QED BY <1>7, <1>12

LEMMA UnlinkingReleases ==
  ASSUME IInv, Releasing, Recording, pc = "release", UnlinkOne
  PROVE  Releasing' /\ Recording'
  <1> DEFINE c == ops[1].row
  <1>1. /\ ops # <<>> /\ ops \in Seq(Updates) /\ ops' = Tail(ops) /\ todo' = todo
        /\ present' = present /\ locked' = locked /\ request' = request /\ start' = start
        /\ barred' = barred /\ pc' = pc /\ link \in [Rows -> Ends]
    BY DEF UnlinkOne, IInv, InPlace, TypeOK, Ends
  <1>2. ~failed' => ~failed
    BY DEF UnlinkOne
  <1>3. /\ c \in Rows /\ Head(ops) = ops[1] /\ 1 \in 1..Len(ops)
        /\ \A k \in 1..Len(ops') : k + 1 \in 1..Len(ops) /\ ops'[k] = ops[k + 1]
    BY <1>1, OneLessUpdate DEF Updates
  <1>4. link' = [link EXCEPT ![c] = NoRow] /\ released' \subseteq released \cup {ops[1].ends}
    BY <1>1, <1>3 DEF UnlinkOne, Cleared
  <1>5. ToRelink(start)' = ToRelink(start) /\ Clearable(start)' = Clearable(start)
    BY <1>1, AsJudged
  <1>6. Len(ops) \in Nat /\ Len(ops') = Len(ops) - 1
    BY <1>1
  <1>7. \A k \in 1..Len(ops) : k = 1 \/ (k - 1 \in 1..Len(ops') /\ ops'[k - 1] = ops[k])
    <2> TAKE k \in 1..Len(ops)
    <2>1. k # 1 => k - 1 \in 1..Len(ops') /\ (k - 1) + 1 = k
      BY <1>6
    <2> QED BY <1>3, <2>1
  <1>8. c \in Clearable(start) /\ \A k \in 1..Len(ops') : ops'[k].row \in Clearable(start)
    BY <1>1, <1>3 DEF Releasing
  <1>9. \A r \in Rows : link'[r] # start[r] => r \in Clearable(start)
    BY <1>1, <1>3, <1>4, <1>8 DEF Releasing
  <1>10. Releasing'
    BY <1>1, <1>2, <1>5, <1>8, <1>9 DEF Releasing
  <1>11. \A r \in Rows : link[r] = NoRow \/ r = c => link'[r] = NoRow
    BY <1>1, <1>3, <1>4
  <1> HIDE DEF c
  <1>12. ASSUME NEW k \in 1..Len(ops'), NEW r \in ops'[k].ends \cap Rows
         PROVE  r = ops'[k].row \/ link'[r] = NoRow \/ \E j \in 1..Len(ops') : j < k /\ ops'[j].row = r
    <2>1. k + 1 \in 1..Len(ops) /\ ops'[k] = ops[k + 1]
      BY <1>3
    <2>2. r = ops[k + 1].row \/ link[r] = NoRow \/ \E j \in 1..Len(ops) : j < k + 1 /\ ops[j].row = r
      BY <1>1, <1>12, <2>1 DEF Recording, EndsInTurn
    <2>3. ASSUME NEW j \in 1..Len(ops), j < k + 1, ops[j].row = r
          PROVE  link'[r] = NoRow \/ \E i \in 1..Len(ops') : i < k /\ ops'[i].row = r
      <3>1. j = 1 => r = c
        BY <2>3 DEF c
      <3>2. j - 1 < k
        BY <1>6, <2>3
      <3> QED BY <1>7, <1>11, <2>3, <3>1, <3>2
    <2> QED BY <1>11, <2>1, <2>2, <2>3
  <1>13. \A r \in ops[1].ends \cap Rows : link'[r] = NoRow
    <2> TAKE r \in ops[1].ends \cap Rows
    <2>1. r = ops[1].row \/ link[r] = NoRow \/ \E j \in 1..Len(ops) : j < 1 /\ ops[j].row = r
      BY <1>1, <1>3 DEF Recording, EndsInTurn
    <2>2. ~ \E j \in 1..Len(ops) : j < 1
      BY <1>6
    <2> QED BY <1>11, <2>1, <2>2 DEF c
  <1>14. \A s \in released' : \A r \in s \cap Rows : link'[r] = NoRow
    BY <1>1, <1>4, <1>11, <1>13 DEF Recording
  <1>15. \A r \in Rows : Gone(r) => Gone(r)'
    <2> TAKE r \in Rows
    <2> HAVE Gone(r)
    <2>1. CASE link[r] = NoRow
      BY <1>11, <2>1 DEF Gone
    <2>2. ASSUME NEW k \in 1..Len(ops), ops[k].row = r PROVE Gone(r)'
      BY <1>7, <1>11, <2>2 DEF Gone, c
    <2> QED BY <2>1, <2>2 DEF Gone
  <1>16. ASSUME ~failed', NEW p \in ToRelink(start) \ todo, NEW r \in Elsewhere(p, start)
         PROVE  Gone(r)' /\ (Gone(start[r]))'
    <2>1. r \in Rows /\ start[r] \in Rows
      BY <1>16, ReleasedFrom DEF IInv, TypeOK, Ends
    <2>2. Gone(r) /\ Gone(start[r])
      BY <1>1, <1>2, <1>16 DEF Recording
    <2>3. Gone(r)' /\ \A s \in Rows : s = start[r] => Gone(s)'
      BY <1>15, <2>1, <2>2
    <2> QED BY <1>1, <2>1, <2>3 DEF Gone
  <1>17. EndsInTurn(ops)'
    BY <1>12 DEF EndsInTurn
  <1>18. Recording'
    BY <1>1, <1>5, <1>14, <1>16, <1>17 DEF Recording, Gone, Elsewhere
  <1> QED BY <1>10, <1>18

LEMMA ReleasingKept ==
  ASSUME IInv, Releasing, Recording, Next
  PROVE  Releasing' /\ Recording'
  <1>1. CASE pc' # "release"
    BY <1>1 DEF Releasing, Recording
  <1>2. CASE JudgePairs
    BY <1>2, JudgingReleases
  <1>3. ASSUME pc = "release", NEW p \in todo, TakeRelease(p) PROVE Releasing' /\ Recording'
    BY <1>3, TakingReleases
  <1>4. CASE pc = "release" /\ UnlinkOne
    BY <1>4, UnlinkingReleases
  <1>5. CASE pc = "release" /\ ReleaseFails
    <2>1. /\ ops' = <<>> /\ present' = present /\ locked' = locked /\ request' = request
          /\ start' = start /\ released' = released /\ link \in [Rows -> Ends]
          /\ ops # <<>> /\ ops \in Seq(Updates)
      BY <1>5 DEF ReleaseFails, IInv, InPlace, TypeOK, Ends
    <2>2. failed'
      BY <1>5, Zenon DEF ReleaseFails
    <2>3. Head(ops) = ops[1] /\ ops[1].row \in Rows /\ ops[1].row \in Clearable(start)
      BY <1>5, <2>1, OneLessUpdate DEF Updates, Releasing
    <2>4. link' = link \/ link' = [link EXCEPT ![ops[1].row] = NoRow]
      BY <1>5, <2>3 DEF ReleaseFails, Cleared
    <2>5. \A r \in Rows : link[r] # start[r] => r \in Clearable(start)
      BY <1>5 DEF Releasing
    <2> DEFINE c == ops[1].row
    <2> HIDE DEF c
    <2>6. \A r \in Rows : link'[r] # start[r] => r \in Clearable(start)
      BY <2>1, <2>3, <2>4, <2>5 DEF c
    <2>7. \A r \in Rows : link[r] = NoRow => link'[r] = NoRow
      BY <2>1, <2>3, <2>4 DEF c
    <2>8. Clearable(start)' = Clearable(start)
      BY <2>1, AsJudged
    <2>9. Releasing'
      BY <2>1, <2>2, <2>6, <2>8 DEF Releasing
    <2>10. Recording'
      BY <1>5, <2>1, <2>2, <2>7 DEF Recording, EndsInTurn
    <2> QED BY <2>9, <2>10
  <1> QED BY <1>1, <1>2, <1>3, <1>4, <1>5, Arrivals

(***************************************************************************)
(* The linking: a pair is linked as it was judged, or was released in full. *)
(***************************************************************************)

LEMMA SameLegs ==
  ASSUME NEW p, NEW l, NEW m, \A r \in Legs(p) : l[r] = m[r]
  PROVE  /\ Points(p, l) = Points(p, m) /\ Elsewhere(p, l) = Elsewhere(p, m)
         /\ Linkable(p, l) = Linkable(p, m) /\ Linked(p, l) = Linked(p, m)
  BY DEF Points, Elsewhere, Linkable, Linked, Legs

(* A release touches no pair that was linked, or could be, before it.       *)
LEMMA ReleaseSpares ==
  ASSUME IInv, NEW l \in [Rows -> Ends], NEW p \in request.pairs, Linked(p, l) \/ Linkable(p, l)
  PROVE  \A r \in Legs(p) : r \notin Clearable(l)
  <1> SUFFICES ASSUME NEW r \in Legs(p), r \in Clearable(l) PROVE FALSE
    OBVIOUS
  <1>1. PICK q \in ToRelink(l) : \E s \in Elsewhere(q, l) : r = s \/ (r = l[s] /\ l[r] = s)
    BY DEF Clearable
  <1>2. PICK s \in Elsewhere(q, l) : r = s \/ (r = l[s] /\ l[r] = s)
    BY <1>1
  <1>3. q \in request.pairs /\ s \in Legs(q) /\ s \in Rows /\ l[s] \notin {NoRow, Mate(q, s)}
    BY ReleasedFrom DEF Elsewhere
  <1>4. CASE Linked(p, l)
    <2>1. Legs(p) \subseteq Kept(l) /\ Involved(q, l) \cap Kept(l) = {}
      BY <1>4 DEF Kept, ToRelink
    <2>2. r \in Involved(q, l)
      BY <1>2, <1>3 DEF Involved
    <2> QED BY <2>1, <2>2
  <1>5. CASE Linkable(p, l)
    <2>1. Elsewhere(p, l) = {}
      BY <1>5 DEF Linkable
    <2>2. s \in Legs(p)
      <3>1. l[r] \in {NoRow, Mate(p, r)} /\ Mate(p, r) \in Legs(p)
        BY <2>1, OnePair DEF Elsewhere
      <3> QED BY <1>2, <1>3, <3>1
    <2>3. q = p
      BY <1>3, <2>2, OnePair
    <2> QED BY <2>1, <2>3
  <1> QED BY <1>4, <1>5

LEMMA ReadingLinks ==
  ASSUME IInv, Releasing, Recording, ReadAgain
  PROVE  LinkingRight'
  <1>1. /\ pc = "release" /\ pc' = "link" /\ ops = <<>> /\ todo = {}
        /\ todo' = ToLink(start) \ barred /\ index' \in {start, link} /\ inhand' = NoRow
        /\ link' = link /\ present' = present /\ locked' = locked /\ request' = request
        /\ start' = start /\ start \in [Rows -> Ends]
    BY DEF ReadAgain, budget, IInv, TypeOK, Ends
  <1>2. ~failed' => ~failed
    BY DEF ReadAgain
  <1>3. /\ ToRelink(start)' = ToRelink(start) /\ ToLink(start)' = ToLink(start)
        /\ Clearable(start)' = Clearable(start) /\ Freed(start)' = Freed(start)
    BY <1>1, AsJudged
  <1>4. ASSUME NEW p \in todo', p \notin ToRelink(start), NEW r \in Legs(p)
        PROVE  index'[r] = start[r] /\ link[r] = start[r]
    <2>1. p \in request.pairs /\ (Linked(p, start) \/ Linkable(p, start)) /\ r \in Rows
      BY <1>1, <1>4, OnePair DEF ToLink
    <2>2. r \notin Clearable(start)
      BY <1>1, <2>1, ReleaseSpares
    <2>3. link[r] = start[r]
      BY <1>1, <2>1, <2>2 DEF Releasing
    <2> QED BY <1>1, <2>3
  <1>5. ~failed' => todo' = ToLink(start)
    BY <1>1, <1>2 DEF Releasing
  <1>6. ASSUME ~failed', NEW r \in Freed(start) PROVE link[r] = NoRow
    <2>1. PICK p \in ToRelink(start) : \E s \in Elsewhere(p, start) : r = start[s]
      BY DEF Freed
    <2>2. PICK s \in Elsewhere(p, start) : r = start[s]
      BY <2>1
    <2>3. Gone(start[s])
      BY <1>1, <1>2, <1>6 DEF Recording
    <2> QED BY <1>1, <2>2, <2>3 DEF Gone
  <1>7. \A r \in Rows : link[r] # start[r] => r \in Clearable(start)
    BY <1>1 DEF Releasing
  <1>8. todo' \subseteq ToLink(start)
    BY <1>1
  <1>9. \A p \in todo' : \A r \in Legs(p) :
            /\ p \notin ToRelink(start) => index'[r] = start[r] /\ link[r] = start[r]
            /\ index' = start \/ link[r] = index'[r]
    BY <1>1, <1>4
  <1>10. ~failed' => \A p \in ToLink(start) : Done(p)'
    BY <1>5 DEF Done
  <1> QED BY <1>1, <1>3, <1>6, <1>7, <1>8, <1>9, <1>10 DEF LinkingRight

(* A step that changes the legs of one pair only.                           *)
LEMMA LinkingOn ==
  ASSUME IInv, LinkingRight, pc \in {"link", "second"}, NEW p \in ToLink(start),
         \A r \in Rows \ Legs(p) : link'[r] = link[r], todo' \subseteq todo, p \notin todo',
         start' = start, index' = index, present' = present, locked' = locked, request' = request,
         ~failed' => ~failed,
         pc' = "second" => inhand' = p /\ link'[p[1]] = p[2],
         ~failed' => \A q \in ToLink(start) :
                        \/ q \in todo' \/ (pc' = "second" /\ q = inhand')
                        \/ (q # p /\ Points(q, link)) \/ Points(q, link')
  PROVE  LinkingRight'
  <1>1. /\ ToRelink(start)' = ToRelink(start) /\ ToLink(start)' = ToLink(start)
        /\ Clearable(start)' = Clearable(start) /\ Freed(start)' = Freed(start)
    BY AsJudged
  <1>2. ToLink(start) \subseteq request.pairs
    BY DEF ToLink, ToRelink
  <1>3. \A q \in ToLink(start) : q # p => \A r \in Legs(q) : r \in Rows /\ link'[r] = link[r]
    BY <1>2, OnePair
  <1>4. todo' \subseteq ToLink(start)
    BY DEF LinkingRight
  <1>5. ASSUME NEW r \in Rows, link'[r] # start[r]
        PROVE  r \in Clearable(start) \/ LegOf(r, ToLink(start))
    BY <1>5 DEF LinkingRight, LegOf
  <1>6. ASSUME NEW q \in todo', NEW r \in Legs(q)
        PROVE  /\ q \notin ToRelink(start) => index[r] = start[r] /\ link'[r] = start[r]
               /\ index = start \/ link'[r] = index[r]
    <2>1. q \in todo /\ q \in ToLink(start) /\ link'[r] = link[r]
      BY <1>3, <1>4
    <2> QED BY <2>1 DEF LinkingRight
  <1>7. ASSUME ~failed', NEW q \in ToLink(start) PROVE Done(q)'
    <2>1. q # p /\ Points(q, link) => Points(q, link')
      BY <1>3, SameLegs
    <2> QED BY <1>7, <2>1 DEF Done, Points
  <1>8. ASSUME ~failed', NEW r \in Freed(start) PROVE link'[r] = NoRow \/ LegOf(r, ToLink(start))
    <2>1. r \in Rows
      BY <1>2, ReleasedFrom DEF Freed, IInv, TypeOK, Ends
    <2> QED BY <1>8, <2>1 DEF LinkingRight, LegOf
  <1> QED BY <1>1, <1>4, <1>5, <1>6, <1>7, <1>8 DEF LinkingRight, LegOf

LEMMA PassingOver ==
  ASSUME IInv, LinkingRight, NEW p \in todo, PassOver(p)
  PROVE  LinkingRight'
  <1>1. /\ pc = "link" /\ pc' = "link" /\ ~Linkable(p, index) /\ todo' = todo \ {p} /\ link' = link
        /\ start' = start /\ index' = index /\ present' = present /\ locked' = locked
        /\ request' = request
    BY DEF PassOver, budget, linking
  <1>2. ~failed' => ~failed /\ (p \notin ToRelink(start) \/ Linked(p, index))
    BY DEF PassOver
  <1>3. p \in ToLink(start)
    BY <1>1 DEF LinkingRight
  <1>4. ASSUME ~failed' PROVE Points(p, link)
    <2>1. CASE p \in ToRelink(start)
      <3>1. Points(p, index) /\ p[1] # p[2]
        BY <1>2, <1>4, <2>1, OnePair DEF Linked, ToRelink
      <3>2. index # start
        <4>1. Elsewhere(p, start) # {}
          BY <2>1 DEF ToRelink, Relinkable
        <4>2. Points(p, start) => Elsewhere(p, start) = {}
          BY <3>1 DEF Points, Elsewhere, Legs, Mate
        <4> QED BY <3>1, <4>1, <4>2
      <3>3. \A r \in Legs(p) : link[r] = index[r]
        BY <1>1, <3>2 DEF LinkingRight
      <3> QED BY <3>1, <3>3, SameLegs
    <2>2. CASE p \notin ToRelink(start)
      <3>1. Linked(p, start) \/ Linkable(p, start)
        BY <1>3, <2>2 DEF ToLink
      <3>2. \A r \in Legs(p) : index[r] = start[r] /\ link[r] = start[r]
        BY <1>1, <2>2 DEF LinkingRight
      <3>3. Linkable(p, index) = Linkable(p, start)
        BY <3>2, SameLegs
      <3>4. Points(p, start)
        BY <1>1, <3>1, <3>3 DEF Linked
      <3> QED BY <3>2, <3>4, SameLegs
    <2> QED BY <2>1, <2>2
  <1>5. ASSUME ~failed', NEW q \in ToLink(start)
        PROVE  q \in todo' \/ (q # p /\ Points(q, link)) \/ Points(q, link')
    BY <1>1, <1>2, <1>4, <1>5 DEF LinkingRight, Done
  <1> QED BY <1>1, <1>2, <1>3, <1>5, LinkingOn

LEMMA LinkingFirst ==
  ASSUME IInv, LinkingRight, NEW p \in todo, LinkFirst(p)
  PROVE  LinkingRight'
  <1>1. /\ pc = "link" /\ pc' = "second" /\ inhand' = p /\ todo' = todo \ {p}
        /\ link' = [link EXCEPT ![p[1]] = p[2]]
        /\ start' = start /\ index' = index /\ present' = present /\ locked' = locked
        /\ request' = request
    BY DEF LinkFirst, linking
  <1>2. ~failed' => ~failed
    BY DEF LinkFirst
  <1>3. p \in ToLink(start) /\ p \in request.pairs
    BY <1>1 DEF LinkingRight, IInv, InPlace
  <1>4. p \in Ours \X Ours /\ link \in [Rows -> Ends]
    BY <1>3, OnePair DEF IInv, TypeOK, Ends
  <1>5. (\A r \in Rows \ Legs(p) : link'[r] = link[r]) /\ link'[p[1]] = p[2]
    BY <1>1, <1>4 DEF Legs
  <1>6. ASSUME ~failed', NEW q \in ToLink(start)
        PROVE  \/ q \in todo' \/ (pc' = "second" /\ q = inhand')
               \/ (q # p /\ Points(q, link)) \/ Points(q, link')
    BY <1>1, <1>2, <1>6 DEF LinkingRight, Done
  <1> QED BY <1>1, <1>2, <1>3, <1>5, <1>6, LinkingOn

LEMMA LinkingSecond ==
  ASSUME IInv, LinkingRight, LinkSecond
  PROVE  LinkingRight'
  <1>1. /\ pc = "second" /\ pc' = "link" /\ todo' = todo
        /\ link' = [link EXCEPT ![inhand[2]] = inhand[1]]
        /\ start' = start /\ index' = index /\ present' = present /\ locked' = locked
        /\ request' = request
    BY DEF LinkSecond, linking
  <1>2. ~failed' => ~failed
    BY DEF LinkSecond
  <1>3. /\ inhand \in ToLink(start) /\ inhand \in request.pairs /\ inhand \notin todo
        /\ link[inhand[1]] = inhand[2]
    BY <1>1 DEF LinkingRight, IInv, AsRead
  <1>4. inhand \in Ours \X Ours /\ inhand[1] # inhand[2] /\ link \in [Rows -> Ends]
    BY <1>3, OnePair DEF IInv, TypeOK, Ends
  <1>5. (\A r \in Rows \ Legs(inhand) : link'[r] = link[r]) /\ Points(inhand, link')
    BY <1>1, <1>3, <1>4 DEF Legs, Points
  <1>6. ASSUME ~failed', NEW q \in ToLink(start)
        PROVE  q \in todo' \/ (q # inhand /\ Points(q, link)) \/ Points(q, link')
    BY <1>1, <1>2, <1>5, <1>6 DEF LinkingRight, Done
  <1>7. pc' # "second" /\ todo' \subseteq todo /\ inhand \notin todo'
    BY <1>1, <1>3
  <1> QED BY <1>1, <1>2, <1>3, <1>5, <1>6, <1>7, LinkingOn

LEMMA LinkingFails ==
  ASSUME IInv, LinkingRight, LinkFails
  PROVE  LinkingRight'
  <1>1. /\ pc' = "link" /\ start' = start /\ index' = index /\ present' = present
        /\ locked' = locked /\ request' = request
    BY DEF LinkFails, linking
  <1>2. failed'
    BY Zenon DEF LinkFails
  <1>3. link \in [Rows -> Ends]
    BY DEF IInv, TypeOK, Ends
  <1>4. ASSUME NEW p \in todo, pc = "link", link' \in {link, [link EXCEPT ![p[1]] = p[2]]},
               todo' = todo \ {p}
        PROVE  LinkingRight'
    <2>1. p \in ToLink(start) /\ p \in request.pairs
      BY <1>4 DEF LinkingRight, IInv, InPlace
    <2>2. p \in Ours \X Ours
      BY <2>1, OnePair
    <2>3. \A r \in Rows \ Legs(p) : link'[r] = link[r]
      BY <1>3, <1>4, <2>2 DEF Legs
    <2> QED BY <1>1, <1>2, <1>4, <2>1, <2>3, LinkingOn
  <1>5. ASSUME pc = "second", link' \in {link, [link EXCEPT ![inhand[2]] = inhand[1]]}, todo' = todo
        PROVE  LinkingRight'
    <2>1. inhand \in ToLink(start) /\ inhand \in request.pairs /\ inhand \notin todo
      BY <1>5 DEF LinkingRight, IInv, AsRead
    <2>2. inhand \in Ours \X Ours
      BY <2>1, OnePair
    <2>3. \A r \in Rows \ Legs(inhand) : link'[r] = link[r]
      BY <1>3, <1>5, <2>2 DEF Legs
    <2> QED BY <1>1, <1>2, <1>5, <2>1, <2>3, LinkingOn
  <1> QED BY <1>4, <1>5 DEF LinkFails

LEMMA LinkingKept ==
  ASSUME IInv, Releasing, Recording, LinkingRight, Next
  PROVE  LinkingRight'
  <1>1. CASE pc' \notin {"link", "second"}
    BY <1>1 DEF LinkingRight
  <1>2. CASE ReadAgain
    BY <1>2, ReadingLinks
  <1>3. CASE LinkSecond \/ LinkFails
    BY <1>3, LinkingSecond, LinkingFails
  <1>4. CASE \E p \in todo : PassOver(p) \/ LinkFirst(p)
    BY <1>4, PassingOver, LinkingFirst
  <1> QED BY <1>1, <1>2, <1>3, <1>4, Arrivals

(* A leg whose partner may not be unlinked is not cleared by the release of *)
(* another pair either, and a release never costs a pair that is kept.      *)
LEMMA NoneIsLinkable ==
  ASSUME IInv, LinkingRight, pc = "link", todo = {}, ~failed, NEW p \in request.pairs
  PROVE  ~Linkable(p, link)
  <1>1. start \in [Rows -> Ends] /\ p \in Ours \X Ours /\ p[1] # p[2]
    BY OnePair DEF IInv, TypeOK, Ends
  <1>2. \A q \in ToLink(start) : q \in request.pairs
    BY DEF ToLink, ToRelink
  <1>3. CASE p \in ToLink(start)
    BY <1>3 DEF LinkingRight, Done, Linkable
  <1>4. CASE p \notin ToLink(start)
    <2> SUFFICES ASSUME Usable(p) PROVE ~Linkable(p, link)
      BY DEF Linkable
    <2>1. Elsewhere(p, start) # {}
      BY <1>4 DEF ToLink, Linked, Linkable
    <2>2. ASSUME NEW r \in Elsewhere(p, start), ~Releasable(r, start)
          PROVE  link[r] = start[r]
      <3>1. r \in Legs(p) /\ r \in Rows
        BY <1>1 DEF Elsewhere, Legs
      <3>2. ~LegOf(r, ToLink(start))
        BY <1>2, <1>4, <3>1, OnePair DEF LegOf
      <3>3. r \notin Clearable(start)
        <4> SUFFICES ASSUME NEW q \in ToRelink(start), NEW s \in Elsewhere(q, start),
                            r = s \/ (r = start[s] /\ start[r] = s)
                     PROVE  FALSE
          BY DEF Clearable
        <4>1. /\ q \in ToLink(start) /\ s \in Legs(q) /\ Own(s) /\ s \in present /\ start[s] \in Rows
          BY <1>1, ReleasedFrom DEF ToLink
        <4>2. r # s
          BY <3>2, <4>1 DEF LegOf
        <4>3. start[r] = s /\ start[start[r]] = r
          BY <4>2
        <4> QED BY <2>2, <4>1, <4>3 DEF Releasable, Own
      <3> QED BY <3>1, <3>2, <3>3 DEF LinkingRight
    <2>3. ASSUME \A r \in Elsewhere(p, start) : Releasable(r, start) PROVE FALSE
      <3>1. Relinkable(p, start)
        BY <2>1, <2>3 DEF Relinkable
      <3>2. PICK k \in Involved(p, start) : k \in Kept(start)
        BY <1>4, <3>1 DEF ToLink, ToRelink
      <3>3. PICK q \in request.pairs : Linked(q, start) /\ k \in Legs(q)
        BY <3>2 DEF Kept
      <3>4. q # p
        BY <1>4, <3>3 DEF ToLink
      <3>5. start[k] = Mate(q, k) /\ Mate(q, k) \in Legs(q) /\ q[1] # q[2] /\ k \in Rows
        BY <3>3, OnePair DEF Linked, Points, Legs, Mate
      <3>6. CASE k \in Legs(p)
        BY <3>3, <3>4, <3>6, OnePair
      <3>7. ASSUME NEW r \in Elsewhere(p, start), k = start[r] PROVE FALSE
        <4>1. r \in Legs(p) /\ r \in Rows /\ start[k] \in {NoRow, r}
          BY <1>1, <2>3, <3>7 DEF Elsewhere, Releasable, Legs
        <4>2. start[k] \in Ours
          BY <3>3, <3>5, OnePair
        <4>3. r \in Legs(q)
          BY <3>5, <4>1, <4>2
        <4> QED BY <3>3, <3>4, <4>1, <4>3, OnePair
      <3> QED BY <3>2, <3>6, <3>7 DEF Involved
    <2>4. PICK r \in Elsewhere(p, start) : ~Releasable(r, start)
      BY <2>3
    <2>5. r \in Elsewhere(p, link)
      BY <2>2, <2>4 DEF Elsewhere
    <2> QED BY <2>5 DEF Linkable
  <1> QED BY <1>3, <1>4

LEMMA NoneLinkableKept ==
  ASSUME IInv, LinkingRight, NoneLinkable, Next
  PROVE  NoneLinkable'
  <1>1. ASSUME present' \subseteq present, locked' = locked, request' = request,
               \A r \in Rows : link'[r] = link[r], \A p \in request.pairs : ~Linkable(p, link)
        PROVE  \A p \in request'.pairs : (~Linkable(p, link))'
    <2> SUFFICES ASSUME NEW p \in request.pairs PROVE (~Linkable(p, link))'
      BY <1>1
    <2>1. \A r \in Legs(p) : link'[r] = link[r]
      BY <1>1, OnePair
    <2>2. ~Linkable(p, link')
      BY <1>1, <2>1, SameLegs
    <2> QED BY <1>1, <2>2 DEF Linkable, Usable, Points, Elsewhere
  <1>2. CASE pc' \notin {"prune", "ended"}
    BY <1>2 DEF NoneLinkable
  <1>3. CASE Begin
    BY <1>3 DEF Begin, NoneLinkable, Sound, IInv, InPlace, work
  <1>4. CASE Verify
    <2>1. /\ pc = "link" /\ todo = {} /\ ops' = <<>> /\ pc' \in {"prune", "ended"} /\ link' = link
          /\ present' = present /\ locked' = locked /\ request' = request
      BY <1>4 DEF Verify, budget, IInv, InPlace
    <2>2. ~failed' => ~failed
      BY <1>4 DEF Verify
    <2>3. Sound' => \A p \in request.pairs : ~Linkable(p, link)
      BY <2>1, <2>2, NoneIsLinkable DEF Sound
    <2> QED BY <1>1, <2>1, <2>3 DEF NoneLinkable
  <1>5. CASE JobRaises
    BY <1>5 DEF JobRaises, NoneLinkable, Sound
  <1>6. CASE RemovalFails
    BY <1>6 DEF RemovalFails, NoneLinkable, Sound
  <1>7. CASE EndPrune
    <2>1. /\ pc = "prune" /\ link' = link /\ present' = present /\ locked' = locked
          /\ request' = request /\ pc' # "prune"
      BY <1>7 DEF EndPrune, budget
    <2>2. Sound' /\ pc' = "ended" => Sound /\ ~unlinked
      BY <1>7 DEF EndPrune, Sound
    <2> QED BY <1>1, <2>1, <2>2 DEF NoneLinkable
  <1>8. CASE pc = "prune" /\ UnlinkOne
    BY <1>8 DEF UnlinkOne, NoneLinkable, removing
  <1>9. CASE DeleteOrphan
    <2>1. Deletes /\ pc = "prune" /\ ops' = <<>> /\ locked' = locked /\ request' = request /\ pc' = pc
      BY <1>9, Deleting DEF DeleteOrphan
    <2>2. (~unlinked' => ~unlinked) /\ (~failed' => ~failed)
      BY <1>9 DEF DeleteOrphan
    <2> QED BY <1>1, <2>1, <2>2 DEF NoneLinkable, Sound, Deletes
  <1>10. CASE \/ \E a \in Accounts : PassAccount(a) \/ PlanAccount(a)
              \/ \E t \in plan : TakeOrphan(t)
    <2>1. /\ pc = "prune" /\ pc' = pc /\ link' = link /\ present' = present /\ locked' = locked
          /\ request' = request
      BY <1>10 DEF PassAccount, PlanAccount, TakeOrphan, budget
    <2>2. (~unlinked' => ~unlinked) /\ (~failed' => ~failed) /\ (ops' = ops \/ unlinked')
      <3>1. CASE \E a \in Accounts : PassAccount(a) \/ PlanAccount(a)
        BY <3>1 DEF PassAccount, PlanAccount, removing
      <3>2. CASE \E t \in plan : TakeOrphan(t)
        BY <3>2 DEF TakeOrphan
      <3> QED BY <1>10, <3>1, <3>2
    <2> QED BY <1>1, <2>1, <2>2 DEF NoneLinkable, Sound
  <1> QED BY <1>2, <1>3, <1>4, <1>5, <1>6, <1>7, <1>8, <1>9, <1>10, Arrivals

(***************************************************************************)
(* The removal: what is planned can go, and nothing that could is left.     *)
(***************************************************************************)

LEMMA PlannedKept ==
  ASSUME IInv, Tidy, Planned, Next
  PROVE  Planned'
  <1>1. CASE pc' # "prune"
    BY <1>1 DEF Planned
  <1>2. CASE Begin \/ Verify
    BY <1>2 DEF Begin, Verify, Planned, IInv, InPlace, InPlan, work
  <1>3. CASE RemovalFails
    BY <1>3 DEF RemovalFails, Planned, InPlan
  <1>4. ASSUME NEW a \in Accounts, PassAccount(a) PROVE Planned'
    BY <1>4 DEF PassAccount, NothingInHand, budget, Planned, InPlan, IInv, Clearing
  <1>5. ASSUME NEW a \in Accounts, PlanAccount(a) PROVE Planned'
    <2>1. /\ plan' = {[row |-> r, partner |-> link[r]] : r \in Prunable(a)} /\ inhand' = NoRow
          /\ ops' = <<>> /\ link' = link /\ present' = present /\ locked' = locked
      BY <1>5 DEF PlanAccount, NothingInHand, budget, IInv, Clearing
    <2>2. \A t \in plan' : t.row \in Prunable(a) /\ t = [row |-> t.row, partner |-> link[t.row]]
      BY <2>1
    <2>3. \A r \in Prunable(a) : AccountOf[r] = a /\ r \in present /\ (link[r] = NoRow \/ Movable(r))
      BY DEF Prunable, Orphans, Of
    <2>4. \A t \in plan' : link[t.row] = t.partner
      BY <2>2
    <2>5. \A r : Movable(r) => Movable(r)'
      BY <2>1 DEF Movable, Releasable
    <2>6. \A t \in plan' : t.row \in present /\ (link[t.row] = NoRow \/ (link[t.row] = t.partner /\ Movable(t.row)'))
      BY <2>2, <2>3, <2>4, <2>5
    <2>7. \A t, u \in plan' : AccountOf[t.row] = AccountOf[u.row] /\ (t.row = u.row => t = u)
      BY <2>2, <2>3
    <2> QED BY <2>1, <2>6, <2>7 DEF Planned, Movable
  <1>6. ASSUME NEW target \in plan, TakeOrphan(target) PROVE Planned'
    <2> DEFINE o == target.row
    <2>1. /\ pc = "prune" /\ inhand = NoRow /\ ops = <<>> /\ plan' = plan \ {target} /\ link' = link
          /\ present' = present /\ locked' = locked
      BY <1>6 DEF TakeOrphan, budget, IInv, Clearing
    <2>2. o \in present /\ (link[o] = NoRow \/ (link[o] = target.partner /\ Movable(o)))
      BY <2>1 DEF Planned
    <2>3. /\ inhand' = o
          /\ \/ ops' = <<>>
             \/ Movable(o) /\ ops' = Unlink(o, link)
      BY <1>6, <2>1, <2>2 DEF TakeOrphan
    <2>4. \A r : Movable(r) => Movable(r)'
      BY <2>1 DEF Movable, Releasable
    <2>5. Len(ops') <= 2 /\ (Len(ops') = 2 => ops'[1].row = link[o] /\ Movable(o))
      <3>1. CASE ops' = <<>>
        BY <3>1
      <3>2. CASE Movable(o) /\ ops' = Unlink(o, link)
        <4>1. link[o] \in Rows /\ o \in Rows /\ link \in [Rows -> Ends]
          BY <2>2, <3>2 DEF Movable, Releasable, IInv, TypeOK, Ends
        <4> DEFINE U == Unlink(o, link)
        <4>2. Len(U) \in {1, 2} /\ (link[link[o]] # NoRow => U[1].row = link[o])
              /\ (Len(U) = 2 => link[link[o]] # NoRow)
          BY <4>1, UnlinkInTurn
        <4> QED BY <3>2, <4>2
      <3> QED BY <2>3, <3>1, <3>2
    <2>6. o \notin InPlan' /\ \A t \in plan' : AccountOf[t.row] = AccountOf[o]
      BY <2>1 DEF Planned, InPlan
    <2>7. \A t \in plan' : t.row \in present /\ (link[t.row] = NoRow \/ (link[t.row] = t.partner /\ Movable(t.row)'))
      BY <2>1, <2>4 DEF Planned
    <2>8. \A t, u \in plan' : AccountOf[t.row] = AccountOf[u.row] /\ (t.row = u.row => t = u)
      BY <2>1 DEF Planned
    <2>9. (Len(ops) = 2 => ops[1].row = link[inhand] /\ Movable(inhand))'
      BY <2>1, <2>3, <2>5 DEF Movable, Releasable
    <2> HIDE DEF o
    <2> QED BY <2>1, <2>2, <2>3, <2>5, <2>6, <2>7, <2>8, <2>9 DEF Planned
  <1>7. CASE pc = "prune" /\ UnlinkOne
    <2> DEFINE c == ops[1].row
    <2>1. /\ ops # <<>> /\ ops \in Seq(Updates) /\ ops' = Tail(ops) /\ plan' = plan /\ inhand' = inhand
          /\ present' = present /\ locked' = locked /\ link \in [Rows -> Ends] /\ pc' = "prune"
      BY <1>7 DEF UnlinkOne, IInv, InPlace, TypeOK, Ends
    <2>2. c \in Rows /\ link' = [link EXCEPT ![c] = NoRow]
      BY <1>7, <2>1, OneLessUpdate DEF UnlinkOne, Cleared, Updates
    <2>3. Len(ops') <= 1
      <3>1. Len(ops) \in Nat /\ Len(Tail(ops)) = Len(ops) - 1 /\ Len(ops) <= 2
        BY <1>7, <2>1 DEF Planned
      <3> QED BY <2>1, <3>1
    <2>4. ASSUME NEW t \in plan
          PROVE  t.row \in present' /\ (link'[t.row] = NoRow \/ (link'[t.row] = t.partner /\ Movable(t.row)'))
      <3>1. t.row \in present /\ (link[t.row] = NoRow \/ (link[t.row] = t.partner /\ Movable(t.row)))
        BY <1>7 DEF Planned
      <3>2. t.row \in Rows
        BY <3>1 DEF IInv, TypeOK
      <3>3. CASE t.row = c \/ link[t.row] = NoRow
        BY <2>1, <2>2, <3>1, <3>2, <3>3
      <3>4. CASE t.row # c /\ link[t.row] # NoRow
        <4>1. link'[t.row] = link[t.row] /\ Movable(t.row) /\ link[t.row] = t.partner
          BY <2>1, <2>2, <3>1, <3>2, <3>4
        <4>2. link[t.row] \in Rows /\ link'[link[t.row]] \in {NoRow, link[link[t.row]]}
          BY <2>1, <2>2, <4>1 DEF Movable, Releasable
        <4>3. Movable(t.row)'
          BY <2>1, <4>1, <4>2 DEF Movable, Releasable
        <4> QED BY <2>1, <3>1, <4>1, <4>3
      <3> QED BY <3>3, <3>4
    <2> HIDE DEF c
    <2>5. ~(Len(ops') = 2)
      <3> DEFINE n == Len(ops')
      <3>1. n <= 1
        BY <2>3
      <3>2. n \in Nat
        BY <2>1
      <3> HIDE DEF n
      <3>3. ~(n = 2) /\ n <= 2
        BY <3>1, <3>2
      <3> QED BY <3>3 DEF n
    <2>6. Len(ops') <= 2
      <3> DEFINE n == Len(ops')
      <3>1. n <= 1
        BY <2>3
      <3>2. n \in Nat
        BY <2>1
      <3> HIDE DEF n
      <3>3. n <= 2
        BY <3>1, <3>2
      <3> QED BY <3>3 DEF n
    <2>7. InPlan' = InPlan
      BY <2>1 DEF InPlan
    <2> QED BY <1>7, <2>1, <2>4, <2>5, <2>6, <2>7 DEF Planned
  <1>8. CASE DeleteOrphan
    <2>1. /\ Deletes /\ pc = "prune" /\ ops = <<>> /\ ops' = <<>> /\ inhand # NoRow /\ inhand' = NoRow
          /\ plan' = plan /\ locked' = locked
      BY <1>8, Deleting DEF DeleteOrphan
    <2>2. ASSUME NEW t \in plan
          PROVE  t.row \in present' /\ (link'[t.row] = NoRow \/ (link'[t.row] = t.partner /\ Movable(t.row)'))
      <3>1. /\ t.row \in present /\ (link[t.row] = NoRow \/ (link[t.row] = t.partner /\ Movable(t.row)))
            /\ t.row # inhand /\ AccountOf[t.row] = AccountOf[inhand]
        BY <2>1 DEF Planned, InPlan
      <3>2. t.row \in Rows /\ present' = present \ {inhand} /\ \A r \in Rows : link'[r] = link[r]
        BY <2>1, <3>1 DEF Deletes, IInv, TypeOK
      <3>3. CASE link[t.row] = NoRow
        BY <3>1, <3>2, <3>3
      <3>4. CASE link[t.row] # NoRow
        <4>1. link[t.row] # inhand
          BY <3>1, <3>2, <3>4 DEF Tidy
        <4>2. link[t.row] \in Rows
          BY <3>1, <3>4 DEF Movable, Releasable
        <4>3. Movable(t.row)'
          BY <2>1, <3>1, <3>2, <3>4, <4>1, <4>2 DEF Movable, Releasable
        <4> QED BY <3>1, <3>2, <3>4, <4>3
      <3> QED BY <3>3, <3>4
    <2>3. ops' = <<>> => Len(ops') = 0
      BY EmptySeq
    <2> QED BY <2>1, <2>2, <2>3 DEF Planned, InPlan
  <1> QED BY <1>1, <1>2, <1>3, <1>4, <1>5, <1>6, <1>7, <1>8, Arrivals

(* An orphan that stays does so as long as its own link is not touched and  *)
(* the row it names does not come to name it.                               *)
LEMMA StaysStill ==
  ASSUME NEW r, Stays(r, link), link'[r] = link[r],
         locked' = locked, Tidy, link \in [Rows -> Ends], r \in Rows,
         link[r] \in Rows => link'[link[r]] = link[link[r]] \/ link'[link[r]] # r
  PROVE  Stays(r, link)'
  <1>1. link'[r] # NoRow
    BY DEF Stays
  <1>2. ASSUME Mutual(r, link)' PROVE FALSE
    <2>1. /\ r \notin locked' /\ link'[r] \in (present' \cap Ours) \ locked' /\ link'[link'[r]] = r
      BY <1>2 DEF Mutual, Releasable
    <2>2. link[r] \in Rows /\ link[link[r]] = r
      BY <2>1 DEF Ends
    <2>3. r # NoRow
      OBVIOUS
    <2>4. link[r] \in present
      BY <2>2, <2>3 DEF Tidy
    <2>5. Mutual(r, link)
      BY <2>1, <2>2, <2>4 DEF Mutual, Releasable
    <2> QED BY <2>5 DEF Stays
  <1> QED BY <1>1, <1>2 DEF Stays

(* A row that may be unlinked from the row r it names, and names it alone,  *)
(* is no orphan that stays.                                                 *)
LEMMA PartnerIsMutual ==
  ASSUME NEW l \in [Rows -> Ends], NEW r \in Rows, l[r] \in Rows,
         Own(r), r \in present, Own(l[r]), l[l[r]] \in {NoRow, r}
  PROVE  ~Stays(l[r], l)
  BY DEF Stays, Mutual, Releasable, Own

LEMMA NoneLeftWhilePruning ==
  ASSUME IInv, Tidy, Planned, NoneLeft, Next, Sound', pc' = "prune",
         NEW a \in Accounts \ todo', Pruned(a)', NEW r \in Orphans(a)'
  PROVE  (r \in InPlan \/ r = inhand \/ Stays(r, link))'
  <1> USE DEF Sound
  <1>1. link \in [Rows -> Ends] /\ present \subseteq Rows
    BY DEF IInv, TypeOK, Ends
  <1>2. CASE Begin
    BY <1>2 DEF Begin
  <1>3. CASE Verify
    BY <1>3 DEF Verify
  <1>4. CASE RemovalFails
    BY <1>4 DEF RemovalFails
  <1>5. ASSUME NEW b \in Accounts, PassAccount(b) PROVE Stays(r, link)'
    <2>1. /\ pc = "prune" /\ plan = {} /\ inhand = NoRow /\ todo' = todo \ {b} /\ request' = request
          /\ present' = present /\ link' = link /\ locked' = locked /\ ~failed
      BY <1>5 DEF PassAccount, NothingInHand, budget
    <2>2. a # b
      BY <1>5 DEF PassAccount, Pruned
    <2>3. r \in Orphans(a) /\ Pruned(a) /\ a \in Accounts \ todo
      BY <2>1, <2>2 DEF Orphans, Pruned
    <2>4. r \in InPlan \/ r = inhand \/ Stays(r, link)
      BY <2>1, <2>3 DEF NoneLeft
    <2>5. Stays(r, link)
      BY <1>1, <2>1, <2>3, <2>4 DEF InPlan, Orphans
    <2> QED BY <2>1, <2>5 DEF Stays, Mutual, Releasable
  <1>6. ASSUME NEW b \in Accounts, PlanAccount(b) PROVE (r \in InPlan \/ Stays(r, link))'
    <2>1. /\ pc = "prune" /\ plan = {} /\ inhand = NoRow /\ todo' = todo \ {b} /\ request' = request
          /\ present' = present /\ link' = link /\ locked' = locked /\ ~failed
          /\ plan' = {[row |-> s, partner |-> link[s]] : s \in Prunable(b)}
      BY <1>6 DEF PlanAccount, NothingInHand, budget
    <2>2. r \in Orphans(a) /\ Pruned(a)
      BY <2>1 DEF Orphans, Pruned
    <2>3. CASE a = b
      <3>1. CASE r \in Prunable(b)
        <4>1. [row |-> r, partner |-> link[r]] \in plan'
          BY <2>1, <3>1
        <4> QED BY <4>1 DEF InPlan
      <3>2. CASE r \notin Prunable(b)
        <4>1. link[r] # NoRow /\ ~Movable(r)
          BY <2>2, <2>3, <3>2 DEF Prunable
        <4>2. Stays(r, link)
          BY <4>1 DEF Movable, Stays, Mutual
        <4> QED BY <2>1, <4>2 DEF Stays, Mutual, Releasable
      <3> QED BY <3>1, <3>2
    <2>4. CASE a # b
      <3>1. r \in InPlan \/ r = inhand \/ Stays(r, link)
        BY <2>1, <2>2, <2>4 DEF NoneLeft
      <3>2. Stays(r, link)
        BY <1>1, <2>1, <2>2, <3>1 DEF InPlan, Orphans
      <3> QED BY <2>1, <3>2 DEF Stays, Mutual, Releasable
    <2> QED BY <2>3, <2>4
  <1>7. ASSUME NEW target \in plan, TakeOrphan(target)
        PROVE  (r \in InPlan \/ r = inhand \/ Stays(r, link))'
    <2>1. /\ pc = "prune" /\ inhand = NoRow /\ plan' = plan \ {target} /\ todo' = todo
          /\ request' = request /\ present' = present /\ link' = link /\ locked' = locked /\ ~failed
      BY <1>7 DEF TakeOrphan, budget
    <2>2. target.row \in present
          /\ (link[target.row] = NoRow \/ (link[target.row] = target.partner /\ Movable(target.row)))
      BY <2>1 DEF Planned
    <2>3. inhand' = target.row
      BY <1>7, <2>1, <2>2 DEF TakeOrphan
    <2>4. r \in Orphans(a) /\ Pruned(a) /\ a \in Accounts \ todo
      BY <2>1 DEF Orphans, Pruned
    <2>5. r \in InPlan \/ r = inhand \/ Stays(r, link)
      BY <2>1, <2>4 DEF NoneLeft
    <2>6. r \in InPlan => r = target.row \/ r \in InPlan'
      BY <2>1 DEF InPlan
    <2>7. r # inhand
      BY <1>1, <2>1, <2>4 DEF Orphans
    <2>8. Stays(r, link) => Stays(r, link)'
      BY <2>1 DEF Stays, Mutual, Releasable
    <2> QED BY <2>3, <2>5, <2>6, <2>7, <2>8
  <1>8. CASE pc = "prune" /\ UnlinkOne
    <2> DEFINE c == ops[1].row
    <2>1. /\ ops # <<>> /\ ops \in Seq(Updates) /\ plan' = plan /\ inhand' = inhand /\ todo' = todo
          /\ present' = present /\ locked' = locked /\ request' = request /\ ~failed
      BY <1>8 DEF UnlinkOne, IInv, InPlace
    <2>2. c \in Rows /\ link' = [link EXCEPT ![c] = NoRow] /\ 1 \in 1..Len(ops)
      BY <1>8, <2>1, OneLessUpdate DEF UnlinkOne, Cleared, Updates
    <2>3. c = inhand \/ (c = link[inhand] /\ Movable(inhand))
      <3> DEFINE n == Len(ops)
      <3>1. n \in Nat /\ n # 0 /\ n <= 2 /\ (n = 2 => ops[1].row = link[inhand] /\ Movable(inhand))
        BY <1>8, <2>1, EmptySeq DEF Planned
      <3>2. ops[n].row = inhand
        BY <1>8, <2>1 DEF IInv, Clearing
      <3> HIDE DEF n
      <3>3. n = 1 \/ n = 2
        BY <3>1
      <3> QED BY <3>1, <3>2, <3>3
    <2>4. inhand \in present /\ Own(inhand)
      <3>1. inhand # NoRow /\ inhand \in Leaving
        BY <1>8, <2>1 DEF IInv, Clearing, Leaving
      <3>2. 1..Len(ops) # {} /\ Len(ops) \in 1..Len(ops)
        BY <2>2, <2>1
      <3>3. Touchable(ops[Len(ops)].row)
        BY <3>2 DEF IInv, Clearing
      <3> QED BY <1>8, <2>1, <3>1, <3>3 DEF Planned, IInv, Clearing, Touchable
    <2> HIDE DEF c
    <2>5. r \in Orphans(a) /\ Pruned(a) /\ a \in Accounts \ todo /\ r \in Rows
      BY <1>1, <2>1 DEF Orphans, Pruned
    <2>6. r \in InPlan \/ r = inhand \/ Stays(r, link)
      BY <1>8, <2>1, <2>5 DEF NoneLeft
    <2>7. InPlan' = InPlan
      BY <2>1 DEF InPlan
    <2>8. ASSUME Stays(r, link), r # inhand PROVE Stays(r, link)'
      <3>1. r # c
        <4>1. ASSUME c = link[inhand], Movable(inhand) PROVE ~Stays(c, link)
          <5>1. inhand \in Rows /\ link[inhand] \in Rows /\ Own(link[inhand])
                /\ link[link[inhand]] \in {NoRow, inhand}
            BY <1>1, <2>4, <4>1 DEF Movable, Releasable, Own
          <5> QED BY <1>1, <2>4, <4>1, <5>1, PartnerIsMutual
        <4> QED BY <2>3, <2>8, <4>1
      <3>2. link'[r] = link[r]
        BY <1>1, <2>2, <2>5, <3>1
      <3>3. link[r] \in Rows => link'[link[r]] = link[link[r]] \/ link'[link[r]] # r
        BY <1>1, <2>2, <2>5
      <3> QED BY <1>1, <2>1, <2>5, <2>8, <3>2, <3>3, StaysStill
    <2> QED BY <2>1, <2>6, <2>7, <2>8
  <1>9. CASE DeleteOrphan
    <2>1. /\ Deletes /\ pc = "prune" /\ inhand # NoRow /\ inhand' = NoRow /\ todo' = todo
          /\ plan' = plan /\ locked' = locked /\ request' = request /\ ~failed
      BY <1>9, Deleting DEF DeleteOrphan
    <2>2. present' = present \ {inhand} /\ \A s \in Rows : link'[s] = link[s]
      BY <2>1 DEF Deletes
    <2>3. r \in Orphans(a) /\ Pruned(a) /\ a \in Accounts \ todo /\ r \in Rows /\ r # inhand
      BY <1>1, <2>1, <2>2 DEF Orphans, Pruned
    <2>4. r \in InPlan \/ Stays(r, link)
      BY <2>1, <2>3 DEF NoneLeft
    <2>5. InPlan' = InPlan
      BY <2>1 DEF InPlan
    <2>6. Stays(r, link) => Stays(r, link)'
      BY <1>1, <2>1, <2>2, <2>3, StaysStill
    <2> QED BY <2>4, <2>5, <2>6
  <1> QED BY <1>2, <1>3, <1>4, <1>5, <1>6, <1>7, <1>8, <1>9, Arrivals

LEMMA NoneLeftInRound2 ==
  ASSUME IInv, Tidy, Releasing, NoneLeft, Next, Sound', round' = 2 \/ pc' = "ended"
  PROVE  AllStay(link)' /\ (pc' = "release" => AllStay(start)')
  <1> USE DEF Sound
  <1>1. link \in [Rows -> Ends] /\ start \in [Rows -> Ends] /\ present \subseteq Rows
    BY DEF IInv, TypeOK, Ends
  <1>2. ASSUME AllStay(link), link' = link, present' \cap Ours \subseteq present \cup request.expected,
               locked' = locked, request' = request
        PROVE  AllStay(link)'
    <2> SUFFICES ASSUME NEW a \in Accounts, Pruned(a)', NEW r \in Orphans(a)'
                 PROVE  Stays(r, link)'
      BY DEF AllStay
    <2>1. r \in Orphans(a) /\ Pruned(a) /\ r \in Rows
      BY <1>1, <1>2 DEF Orphans, Pruned
    <2>2. Stays(r, link)
      BY <1>2, <2>1 DEF AllStay
    <2> QED BY <1>1, <1>2, <2>1, <2>2, StaysStill
  <1>3. ASSUME AllStay(start), start' = start, present' = present, locked' = locked, request' = request
        PROVE  AllStay(start)'
    BY <1>3 DEF AllStay, Stays, Mutual, Releasable, Pruned, Orphans
  <1>4. ASSUME AllStay(link), NEW c \in Rows, NEW d \in Ends, link' = [link EXCEPT ![c] = d],
               present' = present, locked' = locked, request' = request,
               d = NoRow \/ d \in request.expected,
               \A a \in Accounts : Pruned(a) => c \notin Orphans(a)
        PROVE  AllStay(link)'
    <2> SUFFICES ASSUME NEW a \in Accounts, Pruned(a)', NEW r \in Orphans(a)'
                 PROVE  Stays(r, link)'
      BY DEF AllStay
    <2>1. r \in Orphans(a) /\ Pruned(a) /\ r \in Rows /\ r \notin request.expected
      BY <1>1, <1>4 DEF Orphans, Pruned
    <2>2. Stays(r, link) /\ r # c
      BY <1>4, <2>1 DEF AllStay
    <2>3. link'[r] = link[r] /\ (link[r] \in Rows => link'[link[r]] = link[link[r]] \/ link'[link[r]] # r)
      BY <1>1, <1>4, <2>1, <2>2
    <2> QED BY <1>1, <1>4, <2>1, <2>2, <2>3, StaysStill
  <1>5. ASSUME NEW p \in request.pairs
        PROVE  /\ p[1] \in Rows /\ p[2] \in Rows /\ p[1] \in request.expected /\ p[2] \in request.expected
               /\ \A a \in Accounts : p[1] \notin Orphans(a) /\ p[2] \notin Orphans(a)
    BY OnePair DEF Orphans, Legs
  <1>6. CASE Begin
    BY <1>6 DEF Begin, IInv, Condemned
  <1>7. CASE EndPrune
    <2>1. /\ pc = "prune" /\ plan = {} /\ inhand = NoRow /\ todo = {} /\ link' = link /\ ~failed
          /\ present' = present /\ locked' = locked /\ request' = request /\ pc' # "release"
      BY <1>7 DEF EndPrune, NothingInHand, budget
    <2>2. AllStay(link)
      <3> SUFFICES ASSUME NEW a \in Accounts, Pruned(a), NEW r \in Orphans(a)
                   PROVE  Stays(r, link)
        BY DEF AllStay
      <3>1. r \in InPlan \/ r = inhand \/ Stays(r, link)
        BY <2>1 DEF NoneLeft
      <3> QED BY <1>1, <2>1, <3>1 DEF InPlan, Orphans
    <2> QED BY <1>2, <2>1, <2>2
  <1>8. ASSUME NEW a \in Accounts, Import(a) PROVE AllStay(link)' /\ pc' # "release"
    <2>1. /\ pc = "import" /\ pc' = "import" /\ round' = round /\ link' = link /\ ~failed
          /\ present' \subseteq present \cup request.expected /\ locked' = locked /\ request' = request
      BY <1>8 DEF Import
    <2>2. AllStay(link)
      BY <2>1 DEF NoneLeft
    <2> QED BY <1>2, <2>1, <2>2
  <1>9. CASE JudgePairs
    <2>1. /\ round' = round /\ pc' = "release" /\ link' = link /\ start' = link /\ ~failed
          /\ present' = present /\ locked' = locked /\ request' = request
      BY <1>9 DEF JudgePairs, budget
    <2>2. AllStay(link)
      BY <2>1 DEF NoneLeft
    <2>3. AllStay(link)'
      BY <1>2, <2>1, <2>2
    <2> QED BY <2>1, <2>3 DEF AllStay, Stays, Mutual, Releasable
  <1>10. ASSUME pc = "release", NEW p \in todo, TakeRelease(p)
         PROVE  AllStay(link)' /\ AllStay(start)'
    <2>1. /\ round' = round /\ pc' = "release" /\ link' = link /\ start' = start /\ ~failed
          /\ present' = present /\ locked' = locked /\ request' = request
      BY <1>10 DEF TakeRelease, budget, linking
    <2>2. AllStay(link) /\ AllStay(start)
      BY <1>10, <2>1 DEF NoneLeft
    <2> QED BY <1>2, <1>3, <2>1, <2>2
  <1>11. CASE pc = "release" /\ UnlinkOne
    <2> DEFINE c == ops[1].row
    <2>1. /\ ops # <<>> /\ ops \in Seq(Updates) /\ start' = start /\ round' = round /\ pc' = "release"
          /\ present' = present /\ locked' = locked /\ request' = request /\ ~failed
      BY <1>11 DEF UnlinkOne, IInv, InPlace
    <2>2. c \in Rows /\ link' = [link EXCEPT ![c] = NoRow] /\ c \in Clearable(start)
      BY <1>11, <2>1, OneLessUpdate DEF UnlinkOne, Cleared, Updates, Releasing
    <2>3. AllStay(link) /\ AllStay(start)
      BY <1>11, <2>1 DEF NoneLeft
    <2> HIDE DEF c
    <2>4. ASSUME NEW a \in Accounts, Pruned(a), c \in Orphans(a) PROVE FALSE
      <3>1. PICK q \in ToRelink(start) : \E s \in Elsewhere(q, start) : c = s \/ (c = start[s] /\ start[c] = s)
        BY <2>2 DEF Clearable
      <3>2. PICK s \in Elsewhere(q, start) : c = s \/ (c = start[s] /\ start[c] = s)
        BY <3>1
      <3>3. /\ q \in request.pairs /\ s \in Legs(q) /\ s \in Rows /\ Own(s) /\ s \in present
            /\ start[s] \in Rows /\ Own(start[s]) /\ start[start[s]] \in {NoRow, s}
        BY <1>1, ReleasedFrom
      <3>4. s \notin Orphans(a)
        BY <1>5, <3>3 DEF Legs
      <3>5. ~Stays(start[s], start)
        BY <1>1, <3>3, PartnerIsMutual
      <3>6. Stays(c, start)
        BY <2>3, <2>4 DEF AllStay
      <3> QED BY <2>4, <3>2, <3>4, <3>5, <3>6
    <2>5. AllStay(link)'
      BY <1>4, <2>1, <2>2, <2>3, <2>4 DEF Ends
    <2> QED BY <1>3, <2>1, <2>3, <2>5
  <1>12. CASE ReleaseFails
    BY <1>12 DEF ReleaseFails
  <1>13. CASE LinkFails
    BY <1>13 DEF LinkFails
  <1>14. CASE ReadAgain \/ \E p \in todo : PassOver(p)
    <2>1. /\ round' = round /\ pc' = "link" /\ link' = link /\ ~failed
          /\ present' = present /\ locked' = locked /\ request' = request
      <3>1. CASE ReadAgain
        BY <3>1 DEF ReadAgain, budget
      <3>2. CASE \E p \in todo : PassOver(p)
        BY <3>2 DEF PassOver, budget
      <3> QED BY <1>14, <3>1, <3>2
    <2>2. AllStay(link)
      BY <2>1 DEF NoneLeft
    <2> QED BY <1>2, <2>1, <2>2
  <1>15. ASSUME NEW p \in todo, LinkFirst(p) PROVE AllStay(link)' /\ pc' # "release"
    <2>1. /\ round' = round /\ pc' = "second" /\ link' = [link EXCEPT ![p[1]] = p[2]] /\ ~failed
          /\ present' = present /\ locked' = locked /\ request' = request /\ p \in request.pairs
      BY <1>15 DEF LinkFirst, IInv, InPlace
    <2>2. AllStay(link)
      BY <2>1 DEF NoneLeft
    <2> QED BY <1>4, <1>5, <2>1, <2>2 DEF Ends
  <1>16. CASE LinkSecond
    <2>1. /\ round' = round /\ pc' = "link" /\ link' = [link EXCEPT ![inhand[2]] = inhand[1]] /\ ~failed
          /\ present' = present /\ locked' = locked /\ request' = request /\ inhand \in request.pairs
      BY <1>16 DEF LinkSecond, IInv, AsRead
    <2>2. AllStay(link)
      BY <2>1 DEF NoneLeft
    <2> QED BY <1>4, <1>5, <2>1, <2>2 DEF Ends
  <1>17. CASE Verify
    <2>1. /\ round' = round /\ pc' \in {"prune", "ended"} /\ link' = link /\ ~failed /\ round \in {1, 2}
          /\ present' = present /\ locked' = locked /\ request' = request
          /\ (round = 1 => pc' = "prune")
      BY <1>17 DEF Verify, budget, IInv, TypeOK
    <2>2. AllStay(link)
      BY <2>1 DEF NoneLeft
    <2> QED BY <1>2, <2>1, <2>2
  <1>18. CASE JobRaises
    BY <1>18 DEF JobRaises
  <1>19. pc' # "prune"
    <2>1. pc' = "prune" => round' = 1
      BY StepIInv DEF IInv, Condemned
    <2> QED BY <2>1
  <1>20. round' = 2 => pc' \notin {"idle", "queued"}
    BY StepIInv DEF IInv, Condemned
  <1>21. pc' \in {"import", "release", "link", "second", "prune", "ended"}
    BY <1>20, StepIInv DEF IInv, TypeOK
  <1> QED BY <1>6, <1>7, <1>8, <1>9, <1>10, <1>11, <1>12, <1>13, <1>14, <1>15, <1>16, <1>17, <1>18,
             <1>19, <1>21, Arrivals

LEMMA NoneLeftKept ==
  ASSUME IInv, Tidy, Releasing, Planned, NoneLeft, Next
  PROVE  NoneLeft'
  <1>1. ASSUME Sound', pc' = "prune", NEW a \in Accounts \ todo', Pruned(a)', NEW r \in Orphans(a)'
        PROVE  (r \in InPlan \/ r = inhand \/ Stays(r, link))'
    BY <1>1, NoneLeftWhilePruning
  <1>2. ASSUME Sound', round' = 2 \/ pc' = "ended"
        PROVE  AllStay(link)' /\ (pc' = "release" => AllStay(start)')
    BY <1>2, NoneLeftInRound2
  <1> QED BY <1>1, <1>2 DEF NoneLeft

(***************************************************************************)
(* The second invariant, and the links a push leaves behind.                *)
(***************************************************************************)

LEMMA InitJInv == Init => JInv
  <1> SUFFICES ASSUME Init PROVE JInv
    OBVIOUS
  <1>1. ~Sound
    BY DEF Init, Sound, NoRequest
  <1> QED BY <1>1 DEF Init, JInv, Tidy, Imported, Releasing, Recording, LinkingRight, NoneLinkable,
                      Planned, NoneLeft

LEMMA StepJInv == IInv /\ JInv /\ [Next]_vars => JInv'
  <1> SUFFICES ASSUME IInv, JInv, [Next]_vars PROVE JInv'
    OBVIOUS
  <1>1. CASE Next
    <2>1. Tidy' /\ Imported'
      BY <1>1, TidyKept, ImportedKept DEF JInv
    <2>2. Releasing' /\ Recording' /\ LinkingRight'
      BY <1>1, ReleasingKept, LinkingKept DEF JInv
    <2>3. NoneLinkable' /\ Planned' /\ NoneLeft'
      BY <1>1, NoneLinkableKept, PlannedKept, NoneLeftKept DEF JInv
    <2> QED BY <2>1, <2>2, <2>3 DEF JInv
  <1>2. CASE UNCHANGED vars
    <2> USE <1>2 DEF vars, store, budget, linking, removing, work
    <2>1. Tidy' /\ Imported'
      BY DEF JInv, Tidy, Imported, AllIn, Sound
    <2>2. /\ ToRelink(start)' = ToRelink(start) /\ ToLink(start)' = ToLink(start)
          /\ Clearable(start)' = Clearable(start) /\ Freed(start)' = Freed(start)
      BY AsJudged
    <2>3. Releasing' /\ Recording'
      BY <2>2 DEF JInv, Releasing, Recording, EndsInTurn, Gone, Elsewhere
    <2>4. LinkingRight'
      BY <2>2 DEF JInv, LinkingRight, Done, Points, LegOf
    <2>5. NoneLinkable' /\ Planned'
      BY DEF JInv, NoneLinkable, Planned, InPlan, Movable, Releasable, Linkable, Usable, Points,
             Elsewhere, Sound
    <2>6. NoneLeft'
      BY DEF JInv, NoneLeft, AllStay, Stays, Mutual, Releasable, Pruned, Orphans, InPlan, Sound
    <2> QED BY <2>1, <2>3, <2>4, <2>5, <2>6 DEF JInv
  <1> QED BY <1>1, <1>2

LEMMA BothInvariants == Spec => [](IInv /\ JInv)
  <1>1. Init => IInv /\ JInv
    BY InitIInv, InitJInv
  <1>2. (IInv /\ JInv) /\ [Next]_vars => (IInv /\ JInv)'
    BY StepIInv, StepJInv
  <1> QED BY <1>1, <1>2, PTL DEF Spec

(* The links once every pair is done are those that Outcome computes.       *)
LEMMA LinksAreOutcome ==
  ASSUME IInv, LinkingRight, pc = "link", todo = {}, ~failed
  PROVE  link = Outcome(start)
  <1>1. link \in [Rows -> Ends] /\ start \in [Rows -> Ends]
    BY DEF IInv, TypeOK, Ends
  <1>2. \A p \in ToLink(start) : p \in request.pairs /\ Points(p, link)
    BY DEF ToLink, ToRelink, LinkingRight, Done
  <1>3. ASSUME NEW r \in Rows
        PROVE  link[r] = CASE \E p \in ToLink(start) : r \in Legs(p) ->
                                  Mate(CHOOSE p \in ToLink(start) : r \in Legs(p), r)
                           [] OTHER -> IF r \in Freed(start) THEN NoRow ELSE start[r]
    <2>1. CASE \E p \in ToLink(start) : r \in Legs(p)
      <3> DEFINE q == CHOOSE p \in ToLink(start) : r \in Legs(p)
      <3>1. q \in ToLink(start) /\ r \in Legs(q)
        BY <2>1
      <3> HIDE DEF q
      <3>2. link[r] = Mate(q, r)
        BY <1>2, <3>1 DEF Points, Legs, Mate
      <3> QED BY <2>1, <3>2 DEF q
    <2>2. CASE ~\E p \in ToLink(start) : r \in Legs(p)
      <3>1. ~LegOf(r, ToLink(start))
        BY <2>2 DEF LegOf
      <3>2. r \in Freed(start) => link[r] = NoRow
        BY <3>1 DEF LinkingRight
      <3>3. ASSUME r \notin Freed(start) PROVE link[r] = start[r]
        <4>1. r \notin Clearable(start)
          <5> SUFFICES ASSUME NEW q \in ToRelink(start), NEW s \in Elsewhere(q, start),
                              r = s \/ (r = start[s] /\ start[r] = s)
                       PROVE  FALSE
            BY DEF Clearable
          <5>1. s \in Legs(q) /\ q \in ToLink(start)
            BY DEF Elsewhere, ToLink
          <5>2. r # s
            BY <2>2, <5>1
          <5>3. start[s] \in Freed(start)
            BY DEF Freed
          <5> QED BY <3>3, <5>2, <5>3
        <4> QED BY <3>1, <4>1 DEF LinkingRight
      <3> QED BY <2>2, <3>2, <3>3
    <2> QED BY <2>1, <2>2
  <1> QED BY <1>1, <1>3 DEF Outcome

(***************************************************************************)
(* The theorems.                                                            *)
(***************************************************************************)

(* Every variable keeps its type, and the pairs of the store and of every   *)
(* request stay one-to-one, whoever changes the budget and whatever throws. *)
THEOREM TypeCorrect == Spec => []TypeOK
  <1>1. IInv => TypeOK
    BY DEF IInv
  <1> QED BY <1>1, Inductive, PTL

(* pruneAccounts deletes rows of obdi's own that the request does not       *)
(* expect and nothing else, in no account more than were confirmed.         *)
THEOREM RemovesOnlyConfirmed == Spec => []OnlyConfirmedOrphans
  <1>1. ASSUME IInv PROVE OnlyConfirmedOrphans
    <2>1. removed \cap request.expected = {}
      BY <1>1 DEF IInv, Condemned, Leaving
    <2>2. ASSUME NEW a \in Accounts PROVE Cardinality(removed \cap Of(a)) <= request.shown
      <3>1. Leaving \cap Of(a) \subseteq Rows /\ removed \cap Of(a) \subseteq Leaving \cap Of(a)
        BY <1>1 DEF IInv, Condemned, Leaving
      <3>2. IsFiniteSet(Leaving \cap Of(a))
        BY <3>1, RowsAssumption, FS_Subset
      <3>3. Cardinality(removed \cap Of(a)) <= Cardinality(Leaving \cap Of(a))
        BY <3>1, <3>2, FS_Subset
      <3>4. Cardinality(removed \cap Of(a)) \in Nat /\ Cardinality(Leaving \cap Of(a)) \in Nat
        BY <3>1, <3>2, FS_Subset, FS_CardinalityType
      <3> QED BY <1>1, <3>3, <3>4 DEF IInv, Condemned, InPlace
    <2> QED BY <2>1, <2>2 DEF OnlyConfirmedOrphans
  <1> QED BY <1>1, Inductive, PTL

(* No step of a push, a prune or an align changes a link that a reconciled  *)
(* row or a row of somebody else's has part in, or deletes either of its    *)
(* rows, though links are read in one step and cleared in later ones.       *)
THEOREM LeavesOthersAlone == Spec => HandsOff
  <1>1. IInv /\ [Next]_vars => [Working => LeftAlone]_vars
    BY JobIsGentle
  <1>2. IInv /\ [Next]_vars =>
            [Working => \A r \in present :
                NotOurs(r) \/ (link[r] \in present /\ NotOurs(link[r])) =>
                    link'[r] = link[r] /\ (r \in present' \/ link[r] = NoRow)]_vars
    BY <1>1 DEF LeftAlone
  <1> QED BY <1>2, Inductive, PTL DEF Spec, HandsOff

(* A confirmed pair that is linked stays linked at every step of a job,     *)
(* whatever the job releases, links and deletes for the other pairs.        *)
THEOREM LinkedPairsStay == Spec => KeepsPairs
  <1>1. IInv /\ [Next]_vars => [Working => PairsKept]_vars
    BY JobIsGentle
  <1>2. IInv /\ [Next]_vars =>
            [Working => \A p \in request.pairs : Linked(p, link) => Points(p, link')
                                                  /\ Legs(p) \subseteq present']_vars
    BY <1>1 DEF PairsKept
  <1> QED BY <1>2, Inductive, PTL DEF Spec, KeepsPairs

(* "Complete": once an align has ended with nothing failed, all it was sent *)
(* is in the budget, no pair it was sent could have been linked and is not, *)
(* and where it prunes, what it could have removed names a row that does    *)
(* not name it back - whatever was linked, released, removed and linked     *)
(* again on the way, and however people and failures had left the budget.   *)
THEOREM CompleteIsAligned == Spec => []CompleteMeansAligned
  <1>1. ASSUME IInv, JInv PROVE CompleteMeansAligned
    <2> SUFFICES ASSUME pc = "ended", Sound
                 PROVE  /\ request.expected \subseteq present
                        /\ \A p \in request.pairs : ~Linkable(p, link)
                        /\ \A a \in Accounts : request.expected \cap Of(a) # {} =>
                              \A r \in Prunable(a) : link[r] # NoRow /\ link[link[r]] = NoRow
      BY DEF CompleteMeansAligned, Sound
    <2>1. request.expected \subseteq present
      BY <1>1 DEF JInv, Imported, AllIn
    <2>2. \A p \in request.pairs : ~Linkable(p, link)
      BY <1>1 DEF JInv, NoneLinkable
    <2>3. ASSUME NEW a \in Accounts, request.expected \cap Of(a) # {}, NEW r \in Prunable(a)
          PROVE  link[r] # NoRow /\ link[link[r]] = NoRow
      <3>1. AllStay(link)
        BY <1>1 DEF JInv, NoneLeft
      <3>2. Stays(r, link)
        BY <2>3, <3>1 DEF AllStay, Pruned, Prunable
      <3>3. Movable(r)
        BY <2>3, <3>2 DEF Prunable, Stays
      <3> QED BY <3>2, <3>3 DEF Stays, Mutual, Movable, Releasable
    <2> QED BY <2>1, <2>2, <2>3
  <1> QED BY <1>1, BothInvariants, PTL

(* linkTransfers: the links a push leaves are a function of the links it    *)
(* began with, in whatever order it released and linked the pairs, as long  *)
(* as no call failed.                                                       *)
THEOREM OrderIndifferent == Spec => []OrderFree
  <1>1. IInv /\ JInv => OrderFree
    BY LinksAreOutcome DEF JInv, OrderFree
  <1> QED BY <1>1, BothInvariants, PTL
=============================================================================
