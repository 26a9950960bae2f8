------------------------- MODULE ActualQueueProofs -------------------------
(***************************************************************************)
(* Proved of ActualQueue for any accounts, labels, budget ids and bounds,   *)
(* whichever side dies and wherever.  For any number of callers: its types, *)
(* which say that at most the newest bindings file is cut short and that a  *)
(* request has one answer.  For one caller at a time: no request joins two  *)
(* accounts, no live link is forgotten but to settle an empty or a sharing, *)
(* and no push follows an empty that answered partial.                      *)
(***************************************************************************)
EXTENDS ActualQueue, FiniteSetTheorems, SequenceTheorems, WellFoundedInduction, TLAPS

(***************************************************************************)
(* The newest of what is counted up to n.                                   *)
(***************************************************************************)

\* Every set of naturals has a least one: {1..n : n \in T} has a least set.
LEMMA LeastNat ==
  ASSUME NEW T \in SUBSET Nat, T # {}
  PROVE  \E n \in T : \A m \in T : n <= m
  <1> DEFINE W == {1..n : n \in T}
  <1>1. W \subseteq FiniteSubsetsOf(Nat) /\ W # {}
    <2>1. \A n \in T : IsFiniteSet(1..n) /\ 1..n \subseteq Nat
      BY FS_Interval
    <2>2. ASSUME NEW w \in W PROVE w \in FiniteSubsetsOf(Nat)
      BY <2>1 DEF FiniteSubsetsOf
    <2> QED BY <2>2
  <1>2. IsWellFoundedOn(StrictSubsetOrdering(Nat), FiniteSubsetsOf(Nat))
    BY FS_StrictSubsetOrderingWellFounded
  <1>3. PICK w \in W : \A v \in W : ~(<<v, w>> \in StrictSubsetOrdering(Nat))
    <2> HIDE DEF W
    <2> QED BY <1>1, <1>2, WFMin
  <1>4. PICK n \in T : w = 1..n
    BY <1>3
  <1>5. ASSUME NEW m \in T, m < n PROVE FALSE
    <2>1. 1..m \in W /\ 1..m \subseteq 1..n /\ n \in 1..n /\ n \notin 1..m
      BY <1>5
    <2>2. 1..m \in SUBSET Nat /\ 1..n \in SUBSET Nat /\ 1..m # 1..n
      BY <2>1
    <2>3. <<1..m, 1..n>> \in StrictSubsetOrdering(Nat)
      BY <2>1, <2>2 DEF StrictSubsetOrdering
    <2> QED BY <1>3, <1>4, <2>1, <2>3
  <1>6. \A m \in T : n <= m
    BY <1>5
  <1> QED BY <1>6

LEMMA NewestIn ==
  ASSUME NEW n \in Nat, NEW S \in SUBSET (1..n), S # {}
  PROVE  Max(S) \in S /\ \A k \in S : k <= Max(S)
  <1> DEFINE T == {n - k : k \in S}
  <1>1. T \in SUBSET Nat /\ T # {}
    OBVIOUS
  <1>2. PICK t \in T : \A u \in T : t <= u
    <2> HIDE DEF T
    <2> QED BY <1>1, LeastNat
  <1>3. PICK k \in S : t = n - k
    OBVIOUS
  <1>4. \A j \in S : k >= j
    <2>1. \A j \in S : n - k <= n - j
      BY <1>2, <1>3
    <2> QED BY <2>1
  <1>5. Max(S) \in S /\ \A j \in S : Max(S) >= j
    BY <1>4 DEF Max
  <1> QED BY <1>5

(***************************************************************************)
(* What the model's operators on files and answers return.                  *)
(***************************************************************************)

Whole(files) == \A k \in DOMAIN files : files[k].whole
OnlyNewestCut(files) == \A k \in DOMAIN files : files[k].whole \/ k = Len(files)

LEMMA ReadableIs ==
  ASSUME NEW files \in Seq(Files), OnlyNewestCut(files)
  PROVE  /\ Readable(files) \in Seq(Files) /\ Whole(Readable(files))
         /\ Len(Readable(files)) <= Len(files)
         /\ \A k \in DOMAIN Readable(files) : k \in DOMAIN files /\ Readable(files)[k] = files[k]
         /\ Whole(files) => Readable(files) = files
         /\ ~Whole(files) => Len(Readable(files)) = Len(files) - 1
  <1>1. DOMAIN files = 1..Len(files) /\ Len(files) \in Nat
    OBVIOUS
  <1>2. CASE files # <<>> /\ ~files[Len(files)].whole
    <2>1. Readable(files) = SubSeq(files, 1, Len(files) - 1)
      BY <1>2 DEF Readable, Last, Front
    <2>2. /\ Readable(files) \in Seq(Files) /\ Len(Readable(files)) = Len(files) - 1
          /\ \A k \in 1..(Len(files) - 1) : Readable(files)[k] = files[k]
      BY <1>1, <1>2, <2>1, SubSeqProperties
    <2>3. DOMAIN Readable(files) = 1..(Len(files) - 1)
      BY <2>2
    <2>4. \A k \in 1..(Len(files) - 1) : files[k].whole
      BY <1>1 DEF OnlyNewestCut
    <2>5. ~Whole(files)
      BY <1>1, <1>2 DEF Whole
    <2> QED BY <1>1, <2>2, <2>3, <2>4, <2>5 DEF Whole
  <1>3. CASE ~(files # <<>> /\ ~files[Len(files)].whole)
    <2>1. Readable(files) = files
      BY <1>3 DEF Readable, Last
    <2>2. Whole(files)
      BY <1>1, <1>3 DEF Whole, OnlyNewestCut
    <2> QED BY <2>1, <2>2 DEF Whole
  <1> QED BY <1>2, <1>3

LEMMA FilledIs ==
  ASSUME NEW files \in Seq(Files), carry \in Links
  PROVE  /\ Filled(files) \in Seq(Files) /\ Len(Filled(files)) = Len(files)
         /\ Whole(Filled(files))
  <1>1. DOMAIN files = 1..Len(files) /\ Len(files) \in Nat
    OBVIOUS
  <1>2. \A k \in 1..Len(files) : files[k] \in Files
    OBVIOUS
  <1>3. [whole |-> TRUE, links |-> carry] \in Files
    BY DEF Files
  <1>4. Filled(files) \in [1..Len(files) -> Files]
    BY <1>1, <1>2, <1>3 DEF Filled
  <1>5. Filled(files) \in Seq(Files) /\ Len(Filled(files)) = Len(files)
    BY <1>1, <1>4
  <1>6. \A k \in 1..Len(files) : Filled(files)[k].whole
    BY <1>1 DEF Filled
  <1> QED BY <1>4, <1>5, <1>6 DEF Whole

LEMMA RemovedIs ==
  ASSUME NEW S, NEW s \in Seq(S), NEW i \in DOMAIN s
  PROVE  /\ RemoveAt(s, i) \in Seq(S)
         /\ Len(RemoveAt(s, i)) = Len(s) - 1
         /\ \A k \in DOMAIN RemoveAt(s, i) :
               RemoveAt(s, i)[k] = s[IF k < i THEN k ELSE k + 1]
  <1> DEFINE a == SubSeq(s, 1, i - 1)
             b == SubSeq(s, i + 1, Len(s))
  <1>1. i \in 1..Len(s) /\ Len(s) \in Nat
    OBVIOUS
  <1>2. a \in Seq(S) /\ Len(a) = i - 1 /\ \A k \in 1..(i - 1) : a[k] = s[k]
    BY <1>1
  <1>3. b \in Seq(S) /\ Len(b) = Len(s) - i /\ \A k \in 1..(Len(s) - i) : b[k] = s[i + k]
    BY <1>1
  <1> HIDE DEF a, b
  <1>4. a \o b \in Seq(S) /\ Len(a \o b) = Len(s) - 1
    BY <1>1, <1>2, <1>3
  <1>5. \A k \in 1..(Len(s) - 1) : (a \o b)[k] = IF k < i THEN a[k] ELSE b[k - (i - 1)]
    BY <1>1, <1>2, <1>3, ConcatProperties
  <1>6. \A k \in 1..(Len(s) - 1) : (a \o b)[k] = s[IF k < i THEN k ELSE k + 1]
    BY <1>1, <1>2, <1>3, <1>5
  <1>7. DOMAIN (a \o b) = 1..(Len(s) - 1)
    BY <1>4
  <1> QED BY <1>4, <1>6, <1>7 DEF RemoveAt, a, b

(***************************************************************************)
(* What holds of any number of callers: the types, and what they rest on.   *)
(***************************************************************************)

MapRight == named \subseteq Canonicals /\ map \in Links /\ settled \subseteq Empties

\* Only while the applier fills it is a bindings file cut short, and no other
\* is written meanwhile; what a caller has read is whole.
FilesRight ==
    /\ pending \in Seq(Files) /\ Len(pending) <= 1
    /\ claims \in Seq(Files) /\ OnlyNewestCut(claims)
    /\ consumed \in [Callers -> Nat]
    /\ apc # "fill" => Whole(pending) /\ Whole(claims)
    /\ ~Whole(claims) => pending = <<>>
    /\ \A c \in Callers : consumed[c] <= Len(Readable(claims))

\* Empties are numbered as they are queued; nothing else has a number.
RequestsRight ==
    /\ requests \in Seq(Envelopes) /\ Len(requests) <= MaxQueue
    /\ queued \in Nat
    /\ \A k \in DOMAIN requests :
          requests[k].id <= queued /\ (requests[k].kind = "empty" <=> requests[k].id # 0)

ResultsRight ==
    /\ results \in Seq(Answers)
    /\ \A j, k \in DOMAIN results : results[j].id = results[k].id => j = k
    /\ \A k \in DOMAIN results :
          /\ results[k].id <= queued
          /\ results[k].kind = "empty" => results[k].id # 0
          /\ results[k].kind = "audit" => results[k].id = 0

Places == {"idle", "check", "settle", "claim", "merge", "mark", "forget", "record", "note",
           "drop", "build", "shown"}
CallersRight ==
    /\ pc \in [Callers -> Places]
    /\ goal \in [Callers -> {"none", "push", "audit", "empty"}]
    /\ waiting \in [Callers -> SUBSET Empties]
    /\ \A c \in Callers :
          /\ pc[c] \in {"check", "shown"} => goal[c] = "empty"
          /\ pc[c] \notin {"idle", "check", "shown"} => goal[c] \in {"push", "audit"}

\* Every caller that is about to queue an empty may still do it.
Emptiers == {c \in Callers : goal[c] = "empty"}
Counted == queued + Cardinality(Emptiers) <= MaxEmpties + Cardinality(Callers)

\* Where the applier is says which request is at the head, and whether it has
\* an outcome yet.
OnTheJob ==
    /\ apc \in {"idle", "provision", "bindings", "cut", "fill", "emptying", "answer", "away"}
    /\ apc # "idle" => requests # <<>>
    /\ apc \in {"provision", "bindings", "cut", "fill"} => Job.kind = "push"
    /\ apc = "emptying" => Job.kind = "empty"

ApplierRight ==
    /\ budget \in [Ids -> Names \cup {"never", "deleted"}]
    /\ minted \in Links /\ carry \in Links
    /\ outcome \in {"none", "ok", "complete", "partial", "refused", "failed"}
    /\ apc \in {"idle", "provision", "emptying"} => outcome = "none"
    /\ apc \in {"bindings", "cut", "fill"} => outcome = "ok"
    /\ apc \in {"answer", "away"} => outcome # "none"

TInv ==
    /\ MapRight /\ FilesRight /\ RequestsRight /\ ResultsRight
    /\ CallersRight /\ Counted /\ OnTheJob /\ ApplierRight

LEMMA CallersCounted ==
  /\ IsFiniteSet(Callers) /\ Cardinality(Callers) \in Nat
  /\ \A S \in SUBSET Callers :
        IsFiniteSet(S) /\ Cardinality(S) \in Nat /\ Cardinality(S) <= Cardinality(Callers)
  /\ \A S \in SUBSET Callers : \A R \in SUBSET S : Cardinality(R) <= Cardinality(S)
  /\ \A S \in SUBSET Callers : \A c \in S : Cardinality(S \ {c}) = Cardinality(S) - 1
  <1>1. IsFiniteSet(Callers) /\ Cardinality(Callers) \in Nat
    BY BoundsAssumption, FS_CardinalityType
  <1>2. \A S \in SUBSET Callers :
           IsFiniteSet(S) /\ Cardinality(S) \in Nat /\ Cardinality(S) <= Cardinality(Callers)
    BY <1>1, FS_Subset, FS_CardinalityType
  <1>3. \A S \in SUBSET Callers : \A R \in SUBSET S : Cardinality(R) <= Cardinality(S)
    BY <1>2, FS_Subset
  <1>4. \A S \in SUBSET Callers : \A c \in S : Cardinality(S \ {c}) = Cardinality(S) - 1
    BY <1>2, FS_RemoveElement
  <1> QED BY <1>1, <1>2, <1>3, <1>4

\* The bound on the empties is room enough, and the parts are the types.
LEMMA QueuedBound ==
  ASSUME queued \in Nat, Counted
  PROVE  /\ queued \in {0} \cup Empties
         /\ Emptiers # {} => queued + 1 \in Empties
  <1>1. Emptiers \in SUBSET Callers
    BY DEF Emptiers
  <1>2. Cardinality(Emptiers) \in Nat /\ Cardinality(Callers) \in Nat /\ MaxEmpties \in Nat
    BY <1>1, CallersCounted, BoundsAssumption
  <1>3. queued \in {0} \cup Empties
    BY <1>2 DEF Counted, Empties
  <1>4. ASSUME Emptiers # {} PROVE queued + 1 \in Empties
    <2>1. PICK c \in Emptiers : TRUE
      BY <1>4
    <2>2. Cardinality(Emptiers \ {c}) = Cardinality(Emptiers) - 1 /\ Emptiers \ {c} \in SUBSET Callers
      BY <1>1, <2>1, CallersCounted
    <2>3. Cardinality(Emptiers \ {c}) \in Nat
      BY <2>2, CallersCounted
    <2> QED BY <1>2, <2>2, <2>3 DEF Counted, Empties
  <1> QED BY <1>3, <1>4

LEMMA TypesFollow == TInv => TypeOK
  <1> SUFFICES ASSUME TInv PROVE TypeOK
    OBVIOUS
  <1>1. queued \in {0} \cup Empties
    BY QueuedBound DEF TInv, RequestsRight
  <1>2. \A k \in DOMAIN claims : claims[k].whole \/ k = Len(claims)
    BY DEF TInv, FilesRight, OnlyNewestCut
  <1>3. ASSUME NEW c \in Callers PROVE consumed[c] \in 0..Len(claims)
    <2>1. Len(Readable(claims)) <= Len(claims) /\ Readable(claims) \in Seq(Files)
      BY ReadableIs DEF TInv, FilesRight
    <2>2. consumed[c] \in Nat /\ consumed[c] <= Len(Readable(claims)) /\ claims \in Seq(Files)
      BY DEF TInv, FilesRight
    <2>3. Len(Readable(claims)) \in Nat /\ Len(claims) \in Nat
      BY <2>1, <2>2
    <2> QED BY <2>1, <2>2, <2>3
  <1>4. consumed \in [Callers -> 0..Len(claims)]
    BY <1>3 DEF TInv, FilesRight
  <1> QED BY <1>1, <1>2, <1>4
          DEF TInv, TypeOK, MapRight, FilesRight, RequestsRight, ResultsRight, CallersRight,
              Places, OnTheJob, ApplierRight

LEMMA InitTInv == Init => TInv
  <1> SUFFICES ASSUME Init PROVE TInv
    OBVIOUS
  <1> USE NamesakesAssumption, BoundsAssumption
  <1>1. NoLinks \in Links
    BY DEF NoLinks, Links
  <1>2. MapRight /\ RequestsRight /\ ResultsRight /\ CallersRight /\ OnTheJob /\ ApplierRight
    BY <1>1 DEF Init, MapRight, RequestsRight, ResultsRight, CallersRight, Places, OnTheJob,
                ApplierRight, Names
  <1>3. Emptiers = {} /\ Cardinality(Emptiers) = 0
    BY FS_EmptySet DEF Init, Emptiers
  <1>4. Counted
    BY <1>3, CallersCounted DEF Init, Counted
  <1>5. FilesRight
    BY DEF Init, FilesRight, Whole, OnlyNewestCut, Readable
  <1> QED BY <1>2, <1>4, <1>5 DEF TInv

(***************************************************************************)
(* A part stays as long as what it speaks of does.                          *)
(***************************************************************************)

LEMMA MapStays ==
  ASSUME MapRight, UNCHANGED <<named, map, settled>>
  PROVE  MapRight'
  BY DEF MapRight

LEMMA FilesStay ==
  ASSUME FilesRight, UNCHANGED <<pending, claims, consumed>>, apc = "fill" => apc' = "fill"
  PROVE  FilesRight'
  BY DEF FilesRight, Readable, Whole, OnlyNewestCut

LEMMA RequestsStay ==
  ASSUME RequestsRight, UNCHANGED <<requests, queued>>
  PROVE  RequestsRight'
  BY DEF RequestsRight

LEMMA ResultsStay ==
  ASSUME ResultsRight, UNCHANGED <<results, queued>>
  PROVE  ResultsRight'
  BY DEF ResultsRight

LEMMA CallersStay ==
  ASSUME CallersRight, UNCHANGED <<pc, goal, waiting>>
  PROVE  CallersRight'
  BY DEF CallersRight

LEMMA CountedStays ==
  ASSUME queued \in Nat, Counted, queued' = queued, Emptiers' \subseteq Emptiers
  PROVE  Counted'
  <1>1. Emptiers \in SUBSET Callers /\ Emptiers' \in SUBSET Emptiers
    BY DEF Emptiers
  <1>2. Cardinality(Emptiers') <= Cardinality(Emptiers)
    BY <1>1, CallersCounted
  <1>3. Cardinality(Emptiers) \in Nat /\ Cardinality(Emptiers') \in Nat /\ Cardinality(Callers) \in Nat
    BY <1>1, CallersCounted
  <1> QED BY <1>2, <1>3, BoundsAssumption DEF Counted

LEMMA JobStays ==
  ASSUME OnTheJob, UNCHANGED <<apc, requests>>
  PROVE  OnTheJob'
  BY DEF OnTheJob, Job

LEMMA ApplierStays ==
  ASSUME ApplierRight, UNCHANGED <<budget, apc, minted, carry, outcome>>
  PROVE  ApplierRight'
  BY DEF ApplierRight

\* The steps of a caller that leave the files, the queue and the applier be.
LEMMA CallerMoves ==
  ASSUME TInv, MapRight', CallersRight', UNCHANGED <<pending, claims, consumed, queue, applier>>,
         Emptiers' \subseteq Emptiers
  PROVE  TInv'
  <1>1. FilesRight'
    <2>1. apc' = apc /\ UNCHANGED <<pending, claims, consumed>>
      BY DEF applier
    <2> QED BY <2>1, FilesStay DEF TInv
  <1>2. RequestsRight' /\ ResultsRight' /\ OnTheJob' /\ ApplierRight'
    BY RequestsStay, ResultsStay, JobStays, ApplierStays DEF TInv, applier, queue
  <1>3. Counted'
    BY CountedStays DEF TInv, RequestsRight, queue
  <1> QED BY <1>1, <1>2, <1>3 DEF TInv

\* The steps of the applier that leave the files, the store and the queue be.
LEMMA ApplierMoves ==
  ASSUME TInv, OnTheJob', ApplierRight', UNCHANGED <<store, queue, caller>>,
         apc = "fill" => apc' = "fill"
  PROVE  TInv'
  <1>1. MapRight' /\ FilesRight'
    BY MapStays, FilesStay DEF TInv, store, caller
  <1>2. RequestsRight' /\ ResultsRight' /\ CallersRight'
    BY RequestsStay, ResultsStay, CallersStay DEF TInv, queue, caller
  <1>3. Emptiers' \subseteq Emptiers
    BY DEF Emptiers, caller
  <1>4. Counted'
    BY <1>3, CountedStays DEF TInv, RequestsRight, queue
  <1> QED BY <1>1, <1>2, <1>4 DEF TInv

(***************************************************************************)
(* Every step of a caller keeps the parts.                                  *)
(***************************************************************************)

LEMMA ClaimedIs ==
  ASSUME FilesRight
  PROVE  /\ claims \o pending \in Seq(Files) /\ OnlyNewestCut(claims \o pending)
         /\ Whole(claims) /\ Whole(pending) => Whole(claims \o pending)
         /\ Len(Readable(claims \o pending)) >= Len(Readable(claims))
  <1> DEFINE all == claims \o pending
  <1>1. claims \in Seq(Files) /\ pending \in Seq(Files) /\ Len(pending) \in {0, 1} /\ Len(claims) \in Nat
    <2>1. claims \in Seq(Files) /\ pending \in Seq(Files) /\ Len(pending) <= 1
      BY DEF FilesRight
    <2>2. Len(pending) \in Nat /\ Len(claims) \in Nat
      BY <2>1
    <2>3. \A m \in Nat : m <= 1 => m \in {0, 1}
      OBVIOUS
    <2> QED BY <2>1, <2>2, <2>3, Zenon
  <1>2. CASE pending = <<>>
    <2>1. all = claims
      BY <1>1, <1>2
    <2>2. Len(Readable(claims)) \in Nat
      BY <1>1, ReadableIs DEF FilesRight
    <2> QED BY <1>1, <2>1, <2>2 DEF FilesRight
  <1>3. CASE pending # <<>>
    <2>1. Len(pending) = 1 /\ Whole(claims)
      BY <1>1, <1>3 DEF FilesRight
    <2>2. /\ all \in Seq(Files) /\ Len(all) = Len(claims) + 1
          /\ \A k \in 1..Len(claims) : all[k] = claims[k]
          /\ all[Len(all)] = pending[1]
      BY <1>1, <2>1, ConcatProperties
    <2>3. DOMAIN all = 1..(Len(claims) + 1) /\ DOMAIN claims = 1..Len(claims) /\ DOMAIN pending = 1..1
      BY <1>1, <2>1, <2>2
    <2>4. OnlyNewestCut(all)
      <3> HIDE DEF all
      <3> QED BY <1>1, <2>1, <2>2, <2>3 DEF OnlyNewestCut, Whole
    <2>5. Whole(pending) => Whole(all)
      <3> HIDE DEF all
      <3> QED BY <1>1, <2>1, <2>2, <2>3 DEF Whole
    <2>6. Len(Readable(all)) \in {Len(all) - 1, Len(all)}
      <3> HIDE DEF all
      <3> QED BY <2>2, <2>4, ReadableIs
    <2>7. Readable(claims) = claims
      BY <1>1, <2>1, ReadableIs DEF FilesRight
    <2> QED BY <1>1, <2>2, <2>4, <2>5, <2>6, <2>7
  <1> QED BY <1>2, <1>3

LEMMA RestIs ==
  ASSUME NEW S, NEW s \in Seq(S), NEW n \in Nat, n <= Len(s)
  PROVE  /\ SubSeq(s, n + 1, Len(s)) \in Seq(S)
         /\ Len(SubSeq(s, n + 1, Len(s))) = Len(s) - n
         /\ \A k \in 1..(Len(s) - n) : SubSeq(s, n + 1, Len(s))[k] = s[n + k]
  <1>1. Len(s) \in Nat /\ n + 1 \in 1..(Len(s) + 1) /\ Len(s) \in (n + 1 - 1)..Len(s)
    OBVIOUS
  <1> QED BY <1>1, SubSeqProperties

\* What parses of the claims is shorter by as much as is marked merged.
LEMMA MarkedIs ==
  ASSUME FilesRight, NEW n \in Nat, n <= Len(Readable(claims))
  PROVE  LET rest == SubSeq(claims, n + 1, Len(claims)) IN
         /\ rest \in Seq(Files) /\ OnlyNewestCut(rest)
         /\ Whole(claims) => Whole(rest)
         /\ Len(Readable(rest)) = Len(Readable(claims)) - n
  <1> DEFINE rest == SubSeq(claims, n + 1, Len(claims))
  <1>1. claims \in Seq(Files) /\ Len(claims) \in Nat /\ DOMAIN claims = 1..Len(claims)
    BY DEF FilesRight
  <1>2. /\ Len(Readable(claims)) \in Nat
        /\ Len(Readable(claims)) <= Len(claims)
        /\ Whole(claims) => Len(Readable(claims)) = Len(claims)
        /\ ~Whole(claims) => Len(Readable(claims)) = Len(claims) - 1
    <2>1. /\ Readable(claims) \in Seq(Files)
          /\ Len(Readable(claims)) <= Len(claims)
          /\ Whole(claims) => Readable(claims) = claims
          /\ ~Whole(claims) => Len(Readable(claims)) = Len(claims) - 1
      BY <1>1, ReadableIs DEF FilesRight
    <2>2. Len(Readable(claims)) \in Nat
      BY <2>1
    <2>3. Whole(claims) => Len(Readable(claims)) = Len(claims)
      BY <2>1
    <2> QED BY <2>1, <2>2, <2>3
  <1>3. /\ rest \in Seq(Files) /\ Len(rest) = Len(claims) - n
        /\ \A k \in 1..(Len(claims) - n) : rest[k] = claims[n + k]
    <2>1. n <= Len(claims)
      <3>1. \A i, j \in Nat : n <= i /\ i <= j => n <= j
        OBVIOUS
      <3> QED BY <1>1, <1>2, <3>1, Zenon
    <2> QED BY <1>1, <2>1, RestIs
  <1>4. DOMAIN rest = 1..(Len(claims) - n)
    BY <1>3
  <1> HIDE DEF rest
  <1>5. \A k \in DOMAIN rest : n + k \in DOMAIN claims /\ rest[k] = claims[n + k]
    BY <1>1, <1>3, <1>4
  <1>6. OnlyNewestCut(rest)
    BY <1>1, <1>3, <1>4, <1>5 DEF OnlyNewestCut, FilesRight
  <1>7. Whole(claims) => Whole(rest)
    BY <1>5 DEF Whole
  <1>8. ASSUME ~Whole(claims) PROVE ~Whole(rest)
    <2>1. PICK k \in DOMAIN claims : ~claims[k].whole
      BY <1>8 DEF Whole
    <2>2. k = Len(claims)
      BY <2>1 DEF FilesRight, OnlyNewestCut
    <2>3. Len(rest) \in DOMAIN rest /\ rest[Len(rest)] = claims[k]
      BY <1>1, <1>2, <1>3, <1>4, <1>5, <1>8, <2>1, <2>2
    <2> QED BY <2>1, <2>3 DEF Whole
  <1>9. Len(Readable(rest)) = Len(Readable(claims)) - n
    <2>1. /\ Whole(rest) => Readable(rest) = rest
          /\ ~Whole(rest) => Len(Readable(rest)) = Len(rest) - 1
      BY <1>3, <1>6, ReadableIs
    <2>2. Whole(rest) => Len(Readable(rest)) = Len(rest)
      BY <2>1
    <2>3. CASE Whole(claims)
      BY <1>2, <1>3, <1>7, <2>2, <2>3
    <2>4. CASE ~Whole(claims)
      <3>1. Len(Readable(rest)) = (Len(claims) - n) - 1 /\ Len(Readable(claims)) = Len(claims) - 1
        BY <1>2, <1>3, <1>8, <2>1, <2>4
      <3>2. \A m \in Nat : (m - n) - 1 = (m - 1) - n
        OBVIOUS
      <3> QED BY <1>1, <3>1, <3>2
    <2> QED BY <2>3, <2>4
  <1> QED BY <1>3, <1>6, <1>7, <1>9 DEF rest

LEMMA ClaimKeeps ==
  ASSUME TInv, NEW c \in Callers, Claim(c)
  PROVE  TInv'
  <1>1. MapRight' /\ CallersRight'
    BY MapStays DEF Claim, Goto, AfterMerge, TInv, CallersRight, Places
  <1>2. /\ claims' = claims \o pending /\ pending' = <<>>
        /\ consumed' = consumed /\ apc' = apc /\ UNCHANGED <<requests, results, queued>>
    BY DEF Claim, queue, applier
  <1>3. FilesRight'
    <2>1. /\ claims' \in Seq(Files) /\ OnlyNewestCut(claims')
          /\ Whole(claims) /\ Whole(pending) => Whole(claims')
          /\ Len(Readable(claims')) >= Len(Readable(claims))
      BY <1>2, ClaimedIs DEF TInv
    <2>2. Readable(claims) \in Seq(Files) /\ Readable(claims') \in Seq(Files)
      BY <2>1, ReadableIs DEF TInv, FilesRight
    <2>3. Len(Readable(claims)) \in Nat /\ Len(Readable(claims')) \in Nat
      BY <2>2
    <2>4. \A d \in Callers : consumed'[d] <= Len(Readable(claims'))
      BY <1>2, <2>1, <2>3 DEF TInv, FilesRight
    <2>5. pending' \in Seq(Files) /\ Len(pending') <= 1 /\ Whole(pending')
      BY <1>2 DEF Whole
    <2>6. consumed' \in [Callers -> Nat] /\ (apc' # "fill" => Whole(claims) /\ Whole(pending))
      BY <1>2 DEF TInv, FilesRight
    <2> QED BY <1>2, <2>1, <2>4, <2>5, <2>6 DEF FilesRight, Readable, Whole, OnlyNewestCut
  <1>4. RequestsRight' /\ ResultsRight' /\ OnTheJob'
    BY <1>2, RequestsStay, ResultsStay, JobStays DEF TInv
  <1>5. ApplierRight'
    BY ApplierStays DEF Claim, TInv, applier
  <1>6. Emptiers' \subseteq Emptiers
    BY DEF Claim, Emptiers
  <1>7. Counted'
    BY <1>2, <1>6, CountedStays DEF TInv, RequestsRight
  <1> QED BY <1>1, <1>3, <1>4, <1>5, <1>7 DEF TInv

LEMMA MergeClaimsKeeps ==
  ASSUME TInv, NEW c \in Callers, MergeClaims(c)
  PROVE  TInv'
  <1>1. ASSUME NEW d \in Canonicals, Offering(d) # {}
        PROVE  claims[Max(Offering(d))].links[d] \in Ids \cup {NoId}
    <2>1. claims \in Seq(Files) /\ Len(claims) \in Nat /\ Offering(d) \in SUBSET (1..Len(claims))
      BY DEF Offering, TInv, FilesRight
    <2>2. Max(Offering(d)) \in 1..Len(claims)
      BY <1>1, <2>1, NewestIn
    <2>3. claims[Max(Offering(d))] \in Files
      BY <2>1, <2>2
    <2> QED BY <2>3 DEF Files, Links
  <1>2. map' \in Links
    BY <1>1 DEF MergeClaims, TInv, MapRight, Links
  <1>3. MapRight' /\ CallersRight'
    BY <1>2 DEF MergeClaims, Goto, TInv, MapRight, CallersRight, Places
  <1>4. /\ claims' = claims /\ pending' = pending /\ apc' = apc
        /\ consumed' = [consumed EXCEPT ![c] = Len(Readable(claims))]
        /\ UNCHANGED <<requests, results, queued>>
    BY DEF MergeClaims, queue, applier
  <1>5. FilesRight'
    <2>1. Readable(claims) \in Seq(Files)
      BY ReadableIs DEF TInv, FilesRight
    <2>2. Len(Readable(claims)) \in Nat
      BY <2>1
    <2>3. Readable(claims)' = Readable(claims)
      BY <1>4 DEF Readable
    <2>4. consumed' \in [Callers -> Nat]
          /\ \A d \in Callers : consumed'[d] <= Len(Readable(claims))
      BY <1>4, <2>2 DEF TInv, FilesRight
    <2> QED BY <1>4, <2>3, <2>4 DEF TInv, FilesRight, Whole, OnlyNewestCut
  <1>6. RequestsRight' /\ ResultsRight' /\ OnTheJob'
    BY <1>4, RequestsStay, ResultsStay, JobStays DEF TInv
  <1>7. ApplierRight'
    BY ApplierStays DEF MergeClaims, TInv, applier
  <1>8. Emptiers' \subseteq Emptiers
    BY DEF MergeClaims, Emptiers
  <1>9. Counted'
    BY <1>4, <1>8, CountedStays DEF TInv, RequestsRight
  <1> QED BY <1>3, <1>5, <1>6, <1>7, <1>9 DEF TInv

LEMMA MarkMergedKeeps ==
  ASSUME TInv, NEW c \in Callers, MarkMerged(c)
  PROVE  TInv'
  <1>1. MapRight' /\ CallersRight'
    BY MapStays DEF MarkMerged, Goto, AfterMerge, TInv, CallersRight, Places
  <1>2. /\ claims' = SubSeq(claims, consumed[c] + 1, Len(claims))
        /\ pending' = pending /\ apc' = apc
        /\ consumed' = [d \in Callers |->
                          IF consumed[d] > consumed[c] THEN consumed[d] - consumed[c] ELSE 0]
        /\ UNCHANGED <<requests, results, queued>>
    BY DEF MarkMerged, queue, applier
  <1>3. FilesRight'
    <2>1. consumed[c] \in Nat /\ consumed[c] <= Len(Readable(claims))
      BY DEF TInv, FilesRight
    <2>2. /\ claims' \in Seq(Files) /\ OnlyNewestCut(claims')
          /\ Whole(claims) => Whole(claims')
          /\ Len(Readable(claims')) = Len(Readable(claims)) - consumed[c]
      BY <1>2, <2>1, MarkedIs DEF TInv
    <2>3. Readable(claims) \in Seq(Files)
      BY ReadableIs DEF TInv, FilesRight
    <2>4. Len(Readable(claims)) \in Nat
      BY <2>3
    <2>5. consumed' \in [Callers -> Nat] /\ \A d \in Callers : consumed'[d] <= Len(Readable(claims'))
      BY <1>2, <2>1, <2>2, <2>4 DEF TInv, FilesRight
    <2> QED BY <1>2, <2>2, <2>5 DEF TInv, FilesRight, Readable, Whole, OnlyNewestCut
  <1>4. RequestsRight' /\ ResultsRight' /\ OnTheJob'
    BY <1>2, RequestsStay, ResultsStay, JobStays DEF TInv
  <1>5. ApplierRight'
    BY ApplierStays DEF MarkMerged, TInv, applier
  <1>6. Emptiers' \subseteq Emptiers
    BY DEF MarkMerged, Emptiers
  <1>7. Counted'
    BY <1>2, <1>6, CountedStays DEF TInv, RequestsRight
  <1> QED BY <1>1, <1>3, <1>4, <1>5, <1>7 DEF TInv

\* The newest audit, the newest answer named an empty and the newest numbered
\* one are what their names say.
LEMMA NewestAudit ==
  ASSUME ResultsRight
  PROVE  /\ NewestOf(IsAudit) \in 0..Len(results)
         /\ NewestOf(IsAudit) # 0 => results[NewestOf(IsAudit)].kind = "audit"
         /\ \A k \in DOMAIN results : results[k].kind = "audit" => k <= NewestOf(IsAudit)
  <1> DEFINE places == {k \in DOMAIN results : IsAudit(results[k])}
  <1>1. results \in Seq(Answers) /\ Len(results) \in Nat /\ places \in SUBSET (1..Len(results))
    BY DEF ResultsRight
  <1>2. NewestOf(IsAudit) = IF places = {} THEN 0 ELSE Max(places)
    BY DEF NewestOf
  <1>3. CASE places = {}
    BY <1>1, <1>2, <1>3 DEF IsAudit
  <1>4. CASE places # {}
    <2>1. Max(places) \in places /\ \A k \in places : k <= Max(places)
      BY <1>1, <1>4, NewestIn
    <2> QED BY <1>1, <1>2, <1>4, <2>1 DEF IsAudit
  <1> QED BY <1>3, <1>4

LEMMA ShownIds == ResultsRight => Shown \subseteq Ids
  <1>1. ASSUME ResultsRight, NewestOf(IsAudit) # 0 PROVE results[NewestOf(IsAudit)].seen \subseteq Ids
    <2>1. NewestOf(IsAudit) \in 1..Len(results) /\ results \in Seq(Answers)
      BY <1>1, NewestAudit DEF ResultsRight
    <2>2. results[NewestOf(IsAudit)] \in Answers
      BY <2>1
    <2> QED BY <2>2 DEF Answers
  <1> QED BY <1>1 DEF Shown

LEMMA RequestIs ==
  ASSUME MapRight, NEW kind \in {"push", "audit", "empty"}
  PROVE  Request(kind) \in Envelopes /\ Request(kind).kind = kind /\ Request(kind).id = 0
  <1>1. \A d \in Canonicals : NameFor(d) \in Names
    BY DEF NameFor, Names
  <1>2. Unlinked \subseteq Canonicals
    BY DEF MapRight, Unlinked
  <1>3. {[canonical |-> d, name |-> NameFor(d)] : d \in Unlinked}
          \in SUBSET [canonical : Canonicals, name : Names]
    BY <1>1, <1>2
  <1>4. Request(kind).provision \in SUBSET [canonical : Canonicals, name : Names]
    BY <1>3 DEF Request
  <1> QED BY <1>4 DEF MapRight, Request, Envelopes

\* A request more at the end of the queue.
LEMMA QueueGrows ==
  ASSUME TInv, NEW r \in Envelopes, Len(requests) < MaxQueue, requests' = Append(requests, r),
         queued' \in Nat, queued <= queued', results' = results, apc' = apc,
         r.id <= queued' /\ (r.kind = "empty" <=> r.id # 0)
  PROVE  RequestsRight' /\ ResultsRight' /\ OnTheJob'
  <1>1. requests \in Seq(Envelopes) /\ Len(requests) \in Nat /\ MaxQueue \in Nat /\ queued \in Nat
    BY BoundsAssumption DEF TInv, RequestsRight
  <1>2. /\ requests' \in Seq(Envelopes) /\ Len(requests') = Len(requests) + 1
        /\ DOMAIN requests' = 1..(Len(requests) + 1)
        /\ \A k \in 1..Len(requests) : requests'[k] = requests[k]
        /\ requests'[Len(requests) + 1] = r
    BY <1>1
  <1>3. \A k \in 1..Len(requests) : requests[k] \in Envelopes
    BY <1>1
  <1>4. \A k \in 1..Len(requests) : requests[k].id \in Nat
    BY <1>3, CallersCounted, BoundsAssumption DEF Envelopes, Empties
  <1>5. \A k \in DOMAIN requests' :
           requests'[k].id <= queued' /\ (requests'[k].kind = "empty" <=> requests'[k].id # 0)
    BY <1>1, <1>2, <1>4 DEF TInv, RequestsRight
  <1>6. RequestsRight'
    BY <1>1, <1>2, <1>5 DEF RequestsRight
  <1>7. ResultsRight'
    <2>1. \A k \in DOMAIN results : results[k] \in Answers
      BY DEF TInv, ResultsRight
    <2>2. \A k \in DOMAIN results : results[k].id \in Nat
      BY <2>1, CallersCounted, BoundsAssumption DEF Answers, Empties
    <2> QED BY <1>1, <2>2 DEF TInv, ResultsRight
  <1>8. OnTheJob'
    <2>1. requests # <<>> => Head(requests') = Head(requests)
      BY <1>1, <1>2
    <2> QED BY <1>1, <1>2, <2>1 DEF TInv, OnTheJob, Job
  <1> QED BY <1>6, <1>7, <1>8

LEMMA BuildAndQueueKeeps ==
  ASSUME TInv, NEW c \in Callers, BuildAndQueue(c)
  PROVE  TInv'
  <1>1. MapRight' /\ CallersRight'
    BY MapStays DEF BuildAndQueue, Goto, Leave, store, TInv, CallersRight, Places
  <1>2. /\ UNCHANGED <<pending, claims, consumed>> /\ apc' = apc
        /\ results' = results /\ queued' = queued /\ queued \in Nat
    BY DEF BuildAndQueue, store, applier, TInv, RequestsRight
  <1>3. RequestsRight' /\ ResultsRight' /\ OnTheJob'
    <2>1. CASE NothingQueued(goal[c])
      <3>1. requests' = requests
        BY <2>1 DEF BuildAndQueue
      <3> QED BY <1>2, <3>1, RequestsStay, ResultsStay, JobStays DEF TInv
    <2>2. CASE ~NothingQueued(goal[c])
      <3>1. requests' = Append(requests, Request(goal[c])) /\ Len(requests) < MaxQueue
        BY <2>2 DEF BuildAndQueue
      <3>2. goal[c] \in {"push", "audit"}
        BY DEF BuildAndQueue, TInv, CallersRight
      <3>3. Request(goal[c]) \in Envelopes /\ Request(goal[c]).kind = goal[c] /\ Request(goal[c]).id = 0
        BY <3>2, RequestIs DEF TInv
      <3> QED BY <1>2, <3>1, <3>2, <3>3, QueueGrows
    <2> QED BY <2>1, <2>2
  <1>4. FilesRight' /\ ApplierRight'
    BY <1>2, FilesStay, ApplierStays DEF BuildAndQueue, TInv, applier
  <1>5. Emptiers' \subseteq Emptiers
    BY DEF BuildAndQueue, Leave, Emptiers, TInv, CallersRight
  <1>6. Counted'
    BY <1>2, <1>5, CountedStays DEF TInv
  <1> QED BY <1>1, <1>3, <1>4, <1>6 DEF TInv

LEMMA QueueEmptyKeeps ==
  ASSUME TInv, NEW c \in Callers, QueueEmpty(c)
  PROVE  TInv'
  <1>1. MapRight' /\ CallersRight'
    BY MapStays DEF QueueEmpty, Goto, Leave, store, TInv, CallersRight, Places
  <1>2. /\ UNCHANGED <<pending, claims, consumed>> /\ apc' = apc
        /\ results' = results /\ queued' = queued + 1 /\ queued \in Nat
    BY DEF QueueEmpty, store, applier, TInv, RequestsRight
  <1>3. goal[c] = "empty" /\ c \in Emptiers
    BY DEF QueueEmpty, TInv, CallersRight, Emptiers
  <1>4. queued + 1 \in Empties
    BY <1>2, <1>3, QueuedBound DEF TInv
  <1> DEFINE r == [kind |-> "empty", id |-> queued + 1, links |-> NoLinks, shown |-> Shown,
                   provision |-> {}]
  <1>5. r \in Envelopes /\ r.kind = "empty" /\ r.id = queued + 1
    <2>1. NoLinks \in Links /\ Shown \subseteq Ids
      BY ShownIds DEF NoLinks, Links, TInv
    <2> QED BY <1>4, <2>1 DEF Envelopes
  <1>6. requests' = Append(requests, r) /\ Len(requests) < MaxQueue
    BY DEF QueueEmpty
  <1> HIDE DEF r
  <1>7. RequestsRight' /\ ResultsRight' /\ OnTheJob'
    BY <1>2, <1>5, <1>6, QueueGrows
  <1>8. FilesRight' /\ ApplierRight'
    BY <1>2, FilesStay, ApplierStays DEF QueueEmpty, TInv, applier
  <1>9. Counted'
    <2>1. Emptiers' = Emptiers \ {c} /\ Emptiers \in SUBSET Callers
      BY <1>3 DEF QueueEmpty, Leave, Emptiers, TInv, CallersRight
    <2>2. Cardinality(Emptiers') = Cardinality(Emptiers) - 1 /\ Cardinality(Emptiers) \in Nat
          /\ Cardinality(Callers) \in Nat
      BY <1>3, <2>1, CallersCounted
    <2> QED BY <1>2, <2>2, BoundsAssumption DEF TInv, Counted
  <1> QED BY <1>1, <1>7, <1>8, <1>9 DEF TInv

LEMMA CallerDiesKeeps ==
  ASSUME TInv, NEW c \in Callers, CallerDies(c)
  PROVE  TInv'
  <1>1. MapRight' /\ CallersRight'
    BY MapStays DEF CallerDies, Goto, Leave, store, TInv, CallersRight, Places
  <1>2. /\ UNCHANGED <<pending, claims, requests, results, queued>> /\ apc' = apc
        /\ consumed' = [consumed EXCEPT ![c] = 0]
    BY DEF CallerDies, store, applier, queue
  <1>3. FilesRight'
    <2>1. Readable(claims) \in Seq(Files)
      BY ReadableIs DEF TInv, FilesRight
    <2>2. Len(Readable(claims)) \in Nat
      BY <2>1
    <2>3. Readable(claims)' = Readable(claims)
      BY <1>2 DEF Readable
    <2>4. consumed' \in [Callers -> Nat]
          /\ \A d \in Callers : consumed'[d] <= Len(Readable(claims))
      BY <1>2, <2>2 DEF TInv, FilesRight
    <2> QED BY <1>2, <2>3, <2>4 DEF TInv, FilesRight, Whole, OnlyNewestCut
  <1>4. RequestsRight' /\ ResultsRight' /\ OnTheJob'
    BY <1>2, RequestsStay, ResultsStay, JobStays DEF TInv
  <1>5. ApplierRight'
    BY ApplierStays DEF CallerDies, TInv, applier
  <1>6. Emptiers' \subseteq Emptiers
    BY DEF CallerDies, Leave, Emptiers, TInv, CallersRight
  <1>7. Counted'
    BY <1>2, <1>6, CountedStays DEF TInv, RequestsRight
  <1> QED BY <1>1, <1>3, <1>4, <1>5, <1>7 DEF TInv

LEMMA CallerKeepsTypes ==
  ASSUME TInv, NEW c \in Callers
  PROVE  /\ \A kind \in {"push", "audit", "empty"} : Press(c, kind) => TInv'
         /\ CallerStep(c) \/ CallerDies(c) => TInv'
  <1> USE DEF Goto, Leave, store
  <1>1. ASSUME NEW kind \in {"push", "audit", "empty"}, Press(c, kind) PROVE TInv'
    <2>1. MapRight' /\ CallersRight'
      BY <1>1, MapStays DEF Press, TInv, CallersRight, Places
    <2>2. CASE kind # "empty"
      <3>1. Emptiers' \subseteq Emptiers
        BY <1>1, <2>2 DEF Press, Emptiers, TInv, CallersRight
      <3> QED BY <1>1, <2>1, <3>1, CallerMoves DEF Press
    <2>3. CASE kind = "empty"
      <3>1. queued < MaxEmpties /\ Emptiers' \in SUBSET Callers
        BY <1>1, <2>3 DEF Press, Emptiers
      <3>2. Cardinality(Emptiers') \in Nat /\ Cardinality(Emptiers') <= Cardinality(Callers)
            /\ Cardinality(Callers) \in Nat
        BY <3>1, CallersCounted
      <3>3. queued' = queued /\ queued \in Nat
        BY <1>1 DEF Press, queue, TInv, RequestsRight
      <3>4. Counted'
        BY <3>1, <3>2, <3>3, BoundsAssumption DEF Counted
      <3>5. apc' = apc /\ UNCHANGED <<pending, claims, consumed, requests, results, queued>>
        BY <1>1 DEF Press, queue, applier
      <3>6. FilesRight' /\ RequestsRight' /\ ResultsRight' /\ OnTheJob'
        BY <3>5, FilesStay, RequestsStay, ResultsStay, JobStays DEF TInv
      <3>7. ApplierRight'
        BY <1>1, ApplierStays DEF Press, TInv, applier
      <3> QED BY <2>1, <3>4, <3>6, <3>7 DEF TInv
    <2> QED BY <2>2, <2>3
  <1>2. CASE ReadSettled(c)
    <2>1. CompleteEmpties \subseteq Empties
      <3>1. \A k \in DOMAIN results : results[k] \in Answers
        BY DEF TInv, ResultsRight
      <3>2. \A k \in DOMAIN results : results[k].kind = "empty" => results[k].id \in Empties
        BY <3>1 DEF TInv, ResultsRight, Answers
      <3> QED BY <3>2 DEF CompleteEmpties
    <2>2. MapRight' /\ CallersRight'
      BY <1>2, <2>1, MapStays DEF ReadSettled, TInv, CallersRight, Places, AfterSettling
    <2>3. Emptiers' \subseteq Emptiers
      BY <1>2 DEF ReadSettled, Emptiers
    <2> QED BY <1>2, <2>2, <2>3, CallerMoves DEF ReadSettled
  <1>3. CASE Claim(c)
    BY <1>3, ClaimKeeps
  <1>4. CASE MergeClaims(c)
    BY <1>4, MergeClaimsKeeps
  <1>5. CASE MarkMerged(c)
    BY <1>5, MarkMergedKeeps
  <1>6. CASE ForgetLinks(c)
    <2>1. NoLinks \in Links
      BY DEF NoLinks, Links
    <2>2. MapRight' /\ CallersRight'
      BY <1>6, <2>1 DEF ForgetLinks, TInv, MapRight, CallersRight, Places
    <2>3. Emptiers' \subseteq Emptiers
      BY <1>6 DEF ForgetLinks, Emptiers
    <2> QED BY <1>6, <2>2, <2>3, CallerMoves DEF ForgetLinks
  <1>7. CASE RecordSettled(c)
    <2>1. MapRight' /\ CallersRight'
      BY <1>7 DEF RecordSettled, TInv, MapRight, CallersRight, Places, AfterSettling
    <2>2. Emptiers' \subseteq Emptiers
      BY <1>7 DEF RecordSettled, Emptiers
    <2> QED BY <1>7, <2>1, <2>2, CallerMoves DEF RecordSettled
  <1>8. CASE Blocked(c)
    <2>1. MapRight' /\ CallersRight'
      BY <1>8, MapStays DEF Blocked, TInv, CallersRight, Places
    <2>2. Emptiers' \subseteq Emptiers
      BY <1>8 DEF Blocked, Emptiers, TInv, CallersRight
    <2> QED BY <1>8, <2>1, <2>2, CallerMoves DEF Blocked
  <1>9. CASE DropConflicts(c)
    <2>1. map' \in Links
      BY <1>9 DEF DropConflicts, TInv, MapRight, Links
    <2>2. MapRight' /\ CallersRight'
      BY <1>9, <2>1 DEF DropConflicts, TInv, MapRight, CallersRight, Places
    <2>3. Emptiers' \subseteq Emptiers
      BY <1>9 DEF DropConflicts, Emptiers
    <2> QED BY <1>9, <2>2, <2>3, CallerMoves DEF DropConflicts
  <1>10. CASE BuildAndQueue(c)
    BY <1>10, BuildAndQueueKeeps
  <1>11. CASE CheckEmpty(c)
    <2>1. MapRight' /\ CallersRight'
      BY <1>11, MapStays DEF CheckEmpty, TInv, CallersRight, Places
    <2>2. Emptiers' \subseteq Emptiers
      BY <1>11 DEF CheckEmpty, Emptiers, TInv, CallersRight
    <2> QED BY <1>11, <2>1, <2>2, CallerMoves DEF CheckEmpty
  <1>12. CASE QueueEmpty(c)
    BY <1>12, QueueEmptyKeeps
  <1>13. CASE CallerDies(c)
    BY <1>13, CallerDiesKeeps
  <1> QED BY <1>1, <1>2, <1>3, <1>4, <1>5, <1>6, <1>7, <1>8, <1>9, <1>10, <1>11, <1>12, <1>13 DEF CallerStep

(***************************************************************************)
(* Every step of the applier keeps the parts.                               *)
(***************************************************************************)

LEMMA JobIs ==
  ASSUME RequestsRight, requests # <<>>
  PROVE  /\ Job \in Envelopes /\ Job = requests[1] /\ 1 \in DOMAIN requests
         /\ Job.id \in Nat /\ Job.id <= queued
         /\ Job.kind = "empty" <=> Job.id # 0
  <1>1. requests \in Seq(Envelopes) /\ 1 \in DOMAIN requests /\ Job = requests[1]
    BY DEF RequestsRight, Job
  <1>2. Job \in Envelopes
    BY <1>1
  <1>3. Job.id \in Nat
    BY <1>2, CallersCounted, BoundsAssumption DEF Envelopes, Empties
  <1> QED BY <1>1, <1>2, <1>3 DEF RequestsRight

LEMMA AccountForIs ==
  ASSUME NEW name, Named(name) # {} \/ Named("never") # {}
  PROVE  /\ AccountFor(name) \in Ids
         /\ budget[AccountFor(name)] = IF Named(name) = {} THEN "never" ELSE name
  <1>1. \E i \in Ids : budget[i] = (IF Named(name) = {} THEN "never" ELSE name)
    BY DEF Named
  <1> QED BY <1>1 DEF AccountFor

LEMMA ProvisionKeeps ==
  ASSUME TInv, Provision
  PROVE  TInv'
  <1>1. Job \in Envelopes
    BY JobIs DEF Provision, TInv, OnTheJob
  <1>2. PICK entry \in Job.provision :
           /\ Named(entry.name) # {} \/ Named("never") # {}
           /\ budget' = [budget EXCEPT ![AccountFor(entry.name)] = entry.name]
           /\ minted' = [minted EXCEPT ![entry.canonical] = AccountFor(entry.name)]
    BY DEF Provision
  <1>3. entry \in [canonical : Canonicals, name : Names]
    BY <1>1 DEF Envelopes
  <1>4. AccountFor(entry.name) \in Ids
    BY <1>2, AccountForIs
  <1>5. budget' \in [Ids -> Names \cup {"never", "deleted"}] /\ minted' \in Links
    BY <1>2, <1>3, <1>4 DEF TInv, ApplierRight, Links
  <1>6. ApplierRight'
    BY <1>5 DEF Provision, TInv, ApplierRight
  <1>7. OnTheJob' /\ apc' = apc
    BY JobStays DEF Provision, TInv, queue
  <1> QED BY <1>6, <1>7, ApplierMoves DEF Provision

LEMMA ReadPendingKeeps ==
  ASSUME TInv, ReadPending
  PROVE  TInv'
  <1>1. PendingLinks \in Links
    <2>1. CASE Readable(pending) = <<>>
      BY <2>1 DEF PendingLinks, NoLinks, Links
    <2>2. CASE Readable(pending) # <<>>
      <3>1. pending \in Seq(Files) /\ pending # <<>>
        BY <2>2 DEF Readable, TInv, FilesRight
      <3>2. Head(pending) \in Files
        BY <3>1
      <3> QED BY <2>2, <3>2 DEF PendingLinks, Files
    <2> QED BY <2>1, <2>2
  <1>2. Over(minted, PendingLinks) \in Links
    BY <1>1 DEF Over, Links, TInv, ApplierRight
  <1>3. ApplierRight' /\ OnTheJob' /\ apc = "bindings"
    BY <1>2 DEF ReadPending, TInv, ApplierRight, OnTheJob, Job, queue
  <1> QED BY <1>3, ApplierMoves DEF ReadPending

\* The steps of the applier that write the bindings file.
LEMMA FilesChange ==
  ASSUME TInv, FilesRight', OnTheJob', ApplierRight',
         UNCHANGED <<named, map, settled, queue, caller>>
  PROVE  TInv'
  <1>1. MapRight' /\ RequestsRight' /\ ResultsRight' /\ CallersRight'
    BY MapStays, RequestsStay, ResultsStay, CallersStay DEF TInv, queue, caller
  <1>2. Emptiers' \subseteq Emptiers
    BY DEF Emptiers, caller
  <1>3. Counted'
    BY <1>2, CountedStays DEF TInv, RequestsRight, queue
  <1> QED BY <1>1, <1>3 DEF TInv

LEMMA CutPendingKeeps ==
  ASSUME TInv, CutPending
  PROVE  TInv'
  <1>1. [whole |-> FALSE, links |-> NoLinks] \in Files
    BY DEF Files, NoLinks, Links
  <1>2. pending' \in Seq(Files) /\ Len(pending') <= 1
    BY <1>1 DEF CutPending
  <1>3. apc' = "fill" /\ claims' = claims /\ consumed' = consumed /\ Whole(claims)
    BY DEF CutPending, caller, TInv, FilesRight
  <1>4. FilesRight'
    BY <1>2, <1>3 DEF TInv, FilesRight, Whole, OnlyNewestCut, Readable
  <1>5. ApplierRight' /\ OnTheJob'
    BY DEF CutPending, TInv, ApplierRight, OnTheJob, Job, queue
  <1> QED BY <1>4, <1>5, FilesChange DEF CutPending

LEMMA FillPendingKeeps ==
  ASSUME TInv, FillPending
  PROVE  TInv'
  <1>1. carry \in Links /\ pending \in Seq(Files) /\ claims \in Seq(Files) /\ Len(pending) <= 1
    BY DEF TInv, ApplierRight, FilesRight
  <1>2. /\ pending' \in Seq(Files) /\ Len(pending') = Len(pending) /\ Whole(pending')
        /\ claims' \in Seq(Files) /\ Len(claims') = Len(claims) /\ Whole(claims')
    BY <1>1, FilledIs DEF FillPending
  <1>3. OnlyNewestCut(claims')
    BY <1>2 DEF OnlyNewestCut, Whole
  <1>4. Readable(claims') = claims'
    BY <1>2, <1>3, ReadableIs
  <1>5. ASSUME NEW c \in Callers PROVE consumed[c] <= Len(claims)
    <2>1. consumed[c] \in Nat /\ consumed[c] <= Len(Readable(claims)) /\ Len(claims) \in Nat
      BY <1>1 DEF TInv, FilesRight
    <2>2. Readable(claims) \in Seq(Files) /\ Len(Readable(claims)) <= Len(claims)
      BY ReadableIs DEF TInv, FilesRight
    <2>3. Len(Readable(claims)) \in Nat
      BY <2>2
    <2> QED BY <2>1, <2>2, <2>3
  <1>6. consumed' = consumed
    BY DEF FillPending, caller
  <1>7. FilesRight'
    <2>1. Readable(claims)' = Readable(claims')
      BY DEF Readable
    <2>2. \A c \in Callers : consumed'[c] <= Len(Readable(claims'))
      BY <1>2, <1>4, <1>5, <1>6
    <2>3. Whole(pending)' /\ Whole(claims)' /\ OnlyNewestCut(claims)'
      BY <1>2, <1>3 DEF Whole, OnlyNewestCut
    <2> QED BY <1>1, <1>2, <1>6, <2>1, <2>2, <2>3 DEF TInv, FilesRight
  <1>8. ApplierRight' /\ OnTheJob'
    BY DEF FillPending, TInv, ApplierRight, OnTheJob, Job, queue
  <1> QED BY <1>7, <1>8, FilesChange DEF FillPending

LEMMA ApplierDiesKeeps ==
  ASSUME TInv, ApplierDies
  PROVE  TInv'
  <1>1. pending \in Seq(Files) /\ claims \in Seq(Files) /\ Len(pending) <= 1 /\ Len(pending) \in Nat
    BY DEF TInv, FilesRight
  <1>2. OnlyNewestCut(pending) /\ OnlyNewestCut(claims)
    BY <1>1 DEF TInv, FilesRight, OnlyNewestCut
  <1>3. /\ pending' \in Seq(Files) /\ Whole(pending') /\ Len(pending') <= Len(pending)
        /\ claims' \in Seq(Files) /\ Whole(claims')
    BY <1>1, <1>2, ReadableIs DEF ApplierDies
  <1>4. OnlyNewestCut(claims')
    BY <1>3 DEF OnlyNewestCut, Whole
  <1>5. Readable(claims') = claims' /\ claims' = Readable(claims)
    BY <1>3, <1>4, ReadableIs DEF ApplierDies
  <1>6. Len(pending') <= 1
    <2>1. Len(pending') \in Nat
      BY <1>3
    <2> QED BY <1>1, <1>3, <2>1
  <1>7. FilesRight'
    <2>1. Readable(claims)' = Readable(claims')
      BY DEF Readable
    <2>2. consumed' = consumed
      BY DEF ApplierDies, caller
    <2>3. \A c \in Callers : consumed'[c] <= Len(Readable(claims'))
      BY <1>5, <2>2 DEF TInv, FilesRight
    <2>4. Whole(pending)' /\ Whole(claims)' /\ OnlyNewestCut(claims)'
      BY <1>3, <1>4 DEF Whole, OnlyNewestCut
    <2> QED BY <1>3, <1>6, <2>1, <2>2, <2>3, <2>4 DEF TInv, FilesRight
  <1>8. NoLinks \in Links
    BY DEF NoLinks, Links
  <1>9. ApplierRight' /\ OnTheJob'
    BY <1>8 DEF ApplierDies, ApplierIdle, TInv, ApplierRight, OnTheJob, Job, queue
  <1> QED BY <1>7, <1>9, FilesChange DEF ApplierDies

\* What is kept of the answers: all but the one to the same request.
LEMMA KeptIs ==
  ASSUME ResultsRight
  PROVE  /\ Kept \in Seq(Answers) /\ Len(Kept) <= Len(results)
         /\ \A k \in DOMAIN Kept :
               \E j \in DOMAIN results : Kept[k] = results[j] /\ results[j].id # Job.id
         /\ \A j, k \in DOMAIN Kept : Kept[j].id = Kept[k].id => j = k
         /\ \A j \in DOMAIN results : results[j].id # Job.id =>
               \E k \in DOMAIN Kept : Kept[k] = results[j]
  <1>1. results \in Seq(Answers) /\ Len(results) \in Nat /\ DOMAIN results = 1..Len(results)
    BY DEF ResultsRight
  <1>2. CASE Before = {}
    <2>1. Kept = results
      BY <1>2 DEF Kept
    <2>2. \A k \in DOMAIN results : results[k].id # Job.id
      BY <1>2 DEF Before
    <2> QED BY <1>1, <2>1, <2>2 DEF ResultsRight
  <1>3. CASE Before # {}
    <2>1. Before \in SUBSET (1..Len(results))
      BY <1>1 DEF Before
    <2> DEFINE i == Max(Before)
    <2>2. i \in Before
      BY <1>1, <1>3, <2>1, NewestIn
    <2>3. Kept = RemoveAt(results, i) /\ i \in DOMAIN results /\ results[i].id = Job.id
      BY <1>3, <2>2 DEF Kept, Before
    <2> HIDE DEF i
    <2>4. /\ Kept \in Seq(Answers) /\ Len(Kept) = Len(results) - 1
          /\ \A k \in DOMAIN Kept : Kept[k] = results[IF k < i THEN k ELSE k + 1]
      BY <1>1, <2>3, RemovedIs
    <2>5. DOMAIN Kept = 1..(Len(results) - 1) /\ i \in 1..Len(results)
      BY <1>1, <2>3, <2>4
    <2> DEFINE Place(k) == IF k < i THEN k ELSE k + 1
    <2>6. \A k \in DOMAIN Kept : Place(k) \in DOMAIN results /\ Place(k) # i
      BY <1>1, <2>5
    <2>7. \A j, k \in DOMAIN Kept : Place(j) = Place(k) => j = k
      BY <1>1, <2>5
    <2>8. \A j \in DOMAIN results : j # i => \E k \in DOMAIN Kept : Place(k) = j
      <3> SUFFICES ASSUME NEW j \in DOMAIN results, j # i PROVE \E k \in DOMAIN Kept : Place(k) = j
        OBVIOUS
      <3>1. CASE j < i
        BY <1>1, <2>5, <3>1
      <3>2. CASE j > i
        <4>1. j - 1 \in DOMAIN Kept /\ Place(j - 1) = j
          BY <1>1, <2>5, <3>2
        <4> QED BY <4>1
      <3> QED BY <1>1, <2>5, <3>1, <3>2
    <2>9. \A k \in DOMAIN Kept : Kept[k] = results[Place(k)]
      BY <2>4
    <2> HIDE DEF Place
    <2>10. \A j \in DOMAIN results : results[j].id = Job.id => j = i
      BY <2>3 DEF ResultsRight
    <2>11. \A k \in DOMAIN Kept :
              \E j \in DOMAIN results : Kept[k] = results[j] /\ results[j].id # Job.id
      BY <2>6, <2>9, <2>10
    <2>12. \A j, k \in DOMAIN Kept : Kept[j].id = Kept[k].id => j = k
      BY <2>6, <2>7, <2>9 DEF ResultsRight
    <2>13. \A j \in DOMAIN results : results[j].id # Job.id => \E k \in DOMAIN Kept : Kept[k] = results[j]
      BY <2>3, <2>8, <2>9
    <2>14. Len(Kept) <= Len(results)
      BY <1>1, <2>4
    <2> QED BY <2>4, <2>11, <2>12, <2>13, <2>14
  <1> QED BY <1>2, <1>3

LEMMA WriteAnswerKeeps ==
  ASSUME TInv, WriteAnswer
  PROVE  TInv'
  <1>1. requests # <<>> /\ outcome # "none"
    BY DEF WriteAnswer, TInv, OnTheJob, ApplierRight
  <1>2. /\ Job \in Envelopes /\ Job.id \in Nat /\ Job.id <= queued
        /\ Job.kind = "empty" <=> Job.id # 0
    BY <1>1, JobIs DEF TInv
  <1>3. /\ UNCHANGED <<store, requests, queued, caller, budget, minted, carry, outcome>>
        /\ apc = "answer" /\ apc' = "away"
    BY DEF WriteAnswer
  <1>4. MapRight' /\ FilesRight' /\ RequestsRight' /\ CallersRight'
    BY <1>3, MapStays, FilesStay, RequestsStay, CallersStay DEF TInv, store, caller
  <1>5. ApplierRight' /\ OnTheJob'
    BY <1>3 DEF TInv, ApplierRight, OnTheJob, Job
  <1>6. Emptiers' \subseteq Emptiers
    BY <1>3 DEF Emptiers, caller
  <1>7. Counted'
    BY <1>3, <1>6, CountedStays DEF TInv, RequestsRight
  <1>8. ResultsRight'
    <2>1. CASE Job.kind = "push"
      <3>1. results' = results
        BY <2>1 DEF WriteAnswer
      <3> QED BY <1>3, <3>1, ResultsStay DEF TInv
    <2>2. CASE Job.kind # "push"
      <3>1. results' = Append(Kept, Answer)
        BY <2>2 DEF WriteAnswer
      <3>2. Answer \in Answers
        <4>1. Live \in SUBSET Ids
          BY DEF Live
        <4>2. Job.kind \in {"audit", "empty"} /\ Job.id \in {0} \cup Empties
          BY <1>2, <2>2 DEF Envelopes
        <4>3. outcome \in {"ok", "complete", "partial", "refused", "failed"}
          BY <1>1 DEF TInv, ApplierRight
        <4> QED BY <4>1, <4>2, <4>3 DEF Answer, Answers
      <3>3. /\ Answer.id = Job.id
            /\ Answer.kind = "empty" => Job.kind = "empty"
            /\ Answer.kind = "audit" => Job.kind = "audit"
        BY DEF Answer
      <3>4. /\ Kept \in Seq(Answers)
            /\ \A k \in DOMAIN Kept :
                  \E j \in DOMAIN results : Kept[k] = results[j] /\ results[j].id # Job.id
            /\ \A j, k \in DOMAIN Kept : Kept[j].id = Kept[k].id => j = k
        BY KeptIs DEF TInv
      <3>5. \A k \in DOMAIN Kept :
               /\ Kept[k].id # Job.id
               /\ Kept[k].id <= queued
               /\ Kept[k].kind = "empty" => Kept[k].id # 0
               /\ Kept[k].kind = "audit" => Kept[k].id = 0
        BY <3>4 DEF TInv, ResultsRight
      <3>6. /\ results' \in Seq(Answers) /\ Len(results') = Len(Kept) + 1
            /\ \A k \in 1..Len(Kept) : results'[k] = Kept[k]
            /\ results'[Len(Kept) + 1] = Answer
            /\ DOMAIN results' = 1..(Len(Kept) + 1) /\ DOMAIN Kept = 1..Len(Kept) /\ Len(Kept) \in Nat
        BY <3>1, <3>2, <3>4
      <3>7. \A k \in DOMAIN results' :
               \/ k \in DOMAIN Kept /\ results'[k] = Kept[k]
               \/ k = Len(Kept) + 1 /\ results'[k] = Answer
        <4>1. \A n \in Nat : \A k \in 1..(n + 1) : k \in 1..n \/ k = n + 1
          OBVIOUS
        <4>2. \A k \in DOMAIN results' : k \in DOMAIN Kept \/ k = Len(Kept) + 1
          BY <3>6, <4>1
        <4> QED BY <3>6, <4>2
      <3>8. \A j, k \in DOMAIN results' : results'[j].id = results'[k].id => j = k
        BY <3>3, <3>4, <3>5, <3>7
      <3>9. \A k \in DOMAIN results' :
               /\ results'[k].id <= queued'
               /\ results'[k].kind = "empty" => results'[k].id # 0
               /\ results'[k].kind = "audit" => results'[k].id = 0
        BY <1>2, <1>3, <3>3, <3>5, <3>7
      <3> QED BY <3>6, <3>8, <3>9 DEF ResultsRight
    <2> QED BY <2>1, <2>2
  <1> QED BY <1>4, <1>5, <1>7, <1>8 DEF TInv

LEMMA FileAwayKeeps ==
  ASSUME TInv, FileAway
  PROVE  TInv'
  <1>1. /\ UNCHANGED <<store, results, queued, caller, budget>>
        /\ requests' = Tail(requests) /\ ApplierIdle /\ apc = "away" /\ requests # <<>>
    BY DEF FileAway, TInv, OnTheJob
  <1>2. apc' = "idle"
    BY <1>1 DEF ApplierIdle
  <1>3. MapRight' /\ FilesRight' /\ ResultsRight' /\ CallersRight'
    BY <1>1, <1>2, MapStays, FilesStay, ResultsStay, CallersStay DEF TInv, store, caller
  <1>4. Emptiers' \subseteq Emptiers
    BY <1>1 DEF Emptiers, caller
  <1>5. Counted'
    BY <1>1, <1>4, CountedStays DEF TInv, RequestsRight
  <1>6. NoLinks \in Links
    BY DEF NoLinks, Links
  <1>7. ApplierRight' /\ OnTheJob'
    BY <1>1, <1>6 DEF ApplierIdle, TInv, ApplierRight, OnTheJob, Job
  <1>8. RequestsRight'
    <2>1. requests \in Seq(Envelopes) /\ Len(requests) \in Nat /\ Len(requests) <= MaxQueue
          /\ MaxQueue \in Nat
      BY BoundsAssumption DEF TInv, RequestsRight
    <2>2. /\ requests' \in Seq(Envelopes) /\ Len(requests') = Len(requests) - 1
          /\ DOMAIN requests' = 1..(Len(requests) - 1) /\ DOMAIN requests = 1..Len(requests)
          /\ \A k \in 1..(Len(requests) - 1) : requests'[k] = requests[k + 1]
      BY <1>1, <2>1
    <2>3. \A k \in DOMAIN requests' : k + 1 \in DOMAIN requests /\ requests'[k] = requests[k + 1]
      BY <2>1, <2>2
    <2> QED BY <1>1, <2>1, <2>2, <2>3 DEF TInv, RequestsRight
  <1> QED BY <1>3, <1>5, <1>7, <1>8 DEF TInv

LEMMA ApplierKeepsTypes ==
  ASSUME TInv
  PROVE  ApplierStep \/ StopEmpty \/ JobRaises \/ ApplierDies => TInv'
  <1>1. CASE StartJob
    <2>1. Job.kind \in {"push", "audit", "empty"}
      BY <1>1, JobIs DEF StartJob, TInv, Envelopes
    <2>2. OnTheJob' /\ apc # "fill"
      BY <1>1, <2>1 DEF StartJob, OnTheJob, TInv, Job, queue
    <2>3. ApplierRight'
      BY <1>1, <2>1 DEF StartJob, ApplierRight, TInv
    <2> QED BY <1>1, <2>2, <2>3, ApplierMoves DEF StartJob
  <1>2. CASE Provision
    BY <1>2, ProvisionKeeps
  <1>3. CASE Import
    <2>1. OnTheJob' /\ ApplierRight' /\ apc # "fill"
      BY <1>3 DEF Import, TInv, OnTheJob, ApplierRight, Job, queue
    <2> QED BY <1>3, <2>1, ApplierMoves DEF Import
  <1>4. CASE ReadPending
    BY <1>4, ReadPendingKeeps
  <1>5. CASE CutPending
    BY <1>5, CutPendingKeeps
  <1>6. CASE FillPending
    BY <1>6, FillPendingKeeps
  <1>7. CASE RefuseEmpty
    <2>1. OnTheJob' /\ ApplierRight' /\ apc # "fill"
      BY <1>7 DEF RefuseEmpty, TInv, OnTheJob, ApplierRight, Job, queue
    <2> QED BY <1>7, <2>1, ApplierMoves DEF RefuseEmpty
  <1>8. CASE DeleteAccount
    <2>1. OnTheJob' /\ ApplierRight' /\ apc # "fill"
      BY <1>8 DEF DeleteAccount, Live, TInv, OnTheJob, ApplierRight, Job, queue
    <2> QED BY <1>8, <2>1, ApplierMoves DEF DeleteAccount
  <1>9. CASE FinishEmpty
    <2>1. OnTheJob' /\ ApplierRight' /\ apc # "fill"
      BY <1>9 DEF FinishEmpty, TInv, OnTheJob, ApplierRight, Job, queue
    <2> QED BY <1>9, <2>1, ApplierMoves DEF FinishEmpty
  <1>10. CASE WriteAnswer
    BY <1>10, WriteAnswerKeeps
  <1>11. CASE FileAway
    BY <1>11, FileAwayKeeps
  <1>12. CASE StopEmpty
    <2>1. OnTheJob' /\ ApplierRight' /\ apc # "fill"
      BY <1>12 DEF StopEmpty, TInv, OnTheJob, ApplierRight, Job, queue
    <2> QED BY <1>12, <2>1, ApplierMoves DEF StopEmpty
  <1>13. CASE JobRaises
    <2>1. OnTheJob' /\ ApplierRight' /\ apc # "fill"
      BY <1>13 DEF JobRaises, TInv, OnTheJob, ApplierRight, Job, queue
    <2> QED BY <1>13, <2>1, ApplierMoves DEF JobRaises
  <1>14. CASE ApplierDies
    BY <1>14, ApplierDiesKeeps
  <1> QED BY <1>1, <1>2, <1>3, <1>4, <1>5, <1>6, <1>7, <1>8, <1>9, <1>10, <1>11, <1>12, <1>13,
             <1>14 DEF ApplierStep

LEMMA StutterKeepsTypes ==
  ASSUME TInv, UNCHANGED vars
  PROVE  TInv'
  <1>1. OnTheJob' /\ ApplierRight' /\ apc' = apc
    BY JobStays, ApplierStays DEF TInv, vars, queue, applier
  <1> QED BY <1>1, ApplierMoves DEF vars

LEMMA NextKeepsTypes ==
  ASSUME TInv, [Next]_vars
  PROVE  TInv'
  <1>1. ASSUME NEW c \in Canonicals, NameAccount(c) PROVE TInv'
    <2>1. MapRight' /\ CallersRight'
      BY <1>1, CallersStay DEF NameAccount, caller, TInv, MapRight
    <2>2. Emptiers' \subseteq Emptiers /\ UNCHANGED <<pending, claims, consumed, queue, applier>>
      BY <1>1 DEF NameAccount, caller, Emptiers
    <2> QED BY <2>1, <2>2, CallerMoves
  <1>2. CASE UNCHANGED vars
    BY <1>2, StutterKeepsTypes
  <1> QED BY <1>1, <1>2, CallerKeepsTypes, ApplierKeepsTypes DEF Next

\* The types, for any number of callers and whichever side dies: in particular
\* only the newest bindings file is ever cut short, one request has one answer,
\* and what a call has merged is still there to be marked.
THEOREM TypeCorrect == Spec => []TypeOK
  <1>1. Init => TInv
    BY InitTInv
  <1>2. TInv /\ [Next]_vars => TInv'
    BY NextKeepsTypes
  <1>3. TInv => TypeOK
    BY TypesFollow
  <1> QED BY <1>1, <1>2, <1>3, PTL DEF Spec

(***************************************************************************)
(* What holds of one caller at a time.                                      *)
(***************************************************************************)

OneCaller == \E c : Callers = {c}

\* A push that has read that no empty is pending, up to its queueing.
Noted(c) ==
    goal[c] = "push" /\ waiting[c] = {} /\ pc[c] \in {"claim", "merge", "mark", "drop", "build"}

\* A call on its way to forget the links that some empties killed.
Settling(c) == pc[c] \in {"claim", "merge", "mark", "forget"} /\ waiting[c] # {}

OnTheWay ==
    \A c \in Callers :
        /\ pc[c] \in {"note", "drop", "build"} => waiting[c] = {}
        /\ pc[c] = "forget" => waiting[c] # {}
        /\ pc[c] = "shown" => requests = <<>>
        /\ pc[c] = "build" => Sharers(map) = {}
        /\ Noted(c) => ~IsQueued("empty")

EmptyAlone ==
    \A k \in DOMAIN requests : requests[k].kind = "empty" => k = 1 /\ ~IsQueued("push")

\* An empty that is run again after it completed finds nothing to delete.
NothingLeft ==
    /\ outcome = "complete" => Live = {}
    /\ requests # <<>> /\ Job.id \in CompleteEmpties => Live = {}

\* What a call will settle has completed and is not settled; should the answer
\* be replaced meanwhile, nothing lives that a link could lead to.
ToForget ==
    \A c \in Callers : Settling(c) =>
        /\ waiting[c] \cap settled = {}
        /\ waiting[c] \subseteq CompleteEmpties \/ (Live = {} /\ ~IsQueued("push"))

SInv == OnTheWay /\ NoSharedImport /\ EmptyAlone /\ NothingLeft /\ ToForget

LEMMA QueueLooksTheSame ==
  ASSUME requests' = requests
  PROVE  /\ Job' = Job
         /\ IsQueued("empty")' = IsQueued("empty") /\ IsQueued("push")' = IsQueued("push")
         /\ NoSharedImport' = NoSharedImport /\ EmptyAlone' = EmptyAlone
  BY DEF Job, IsQueued, NoSharedImport, EmptyAlone, Sharers, Linked

LEMMA CompleteStays ==
  ASSUME results' = results
  PROVE  CompleteEmpties' = CompleteEmpties
  BY DEF CompleteEmpties

LEMMA CompleteAre ==
  ASSUME ResultsRight, NEW n \in CompleteEmpties
  PROVE  n # 0 /\ n \in Nat /\ n <= queued
  <1>1. PICK k \in DOMAIN results : results[k].kind = "empty" /\ results[k].id = n
    BY DEF CompleteEmpties
  <1>2. results[k] \in Answers
    BY DEF ResultsRight
  <1>3. results[k].id \in Nat
    BY <1>2, CallersCounted, BoundsAssumption DEF Answers, Empties
  <1> QED BY <1>1, <1>3 DEF ResultsRight

LEMMA InitSInv == Init => SInv
  BY DEF Init, SInv, OnTheWay, NoSharedImport, EmptyAlone, NothingLeft, ToForget, Noted, Settling

\* The steps of the caller that leave the queue and the applier be.
LEMMA CallKeeps ==
  ASSUME TInv, SInv, UNCHANGED <<queue, applier>>, OnTheWay', ToForget'
  PROVE  SInv'
  <1>1. requests' = requests /\ results' = results /\ outcome' = outcome /\ budget' = budget
    BY DEF queue, applier
  <1>2. NoSharedImport' /\ EmptyAlone'
    BY <1>1, QueueLooksTheSame DEF SInv
  <1>3. NothingLeft'
    BY <1>1, QueueLooksTheSame, CompleteStays DEF SInv, NothingLeft, Live
  <1> QED BY <1>2, <1>3 DEF SInv

\* Repairing the map leaves no two accounts on one.
LEMMA NoneShare ==
  ASSUME NEW links \in Links
  PROVE  Sharers([d \in Canonicals |-> IF d \in Sharers(links) THEN NoId ELSE links[d]]) = {}
  <1> DEFINE fixed == [d \in Canonicals |-> IF d \in Sharers(links) THEN NoId ELSE links[d]]
  <1>1. ASSUME NEW c \in Canonicals, NEW d \in Canonicals, c # d,
               fixed[c] # NoId, fixed[d] # NoId, fixed[c] = fixed[d]
        PROVE  FALSE
    <2>1. links[c] # NoId /\ links[d] # NoId /\ links[c] = links[d] /\ c \notin Sharers(links)
      BY <1>1
    <2>2. c \in Linked(links) /\ d \in Linked(links) \ {c}
      BY <1>1, <2>1 DEF Linked
    <2> QED BY <2>1, <2>2 DEF Sharers
  <1> HIDE DEF fixed
  <1>2. Sharers(fixed) = {}
    BY <1>1 DEF Sharers, Linked
  <1> QED BY <1>2 DEF fixed

LEMMA PressIsSafe ==
  ASSUME TInv, SInv, NEW p \in Callers, Callers = {p}, NEW kind \in {"push", "audit", "empty"},
         Press(p, kind)
  PROVE  SInv'
  <1>1. pc'[p] \in {"check", "settle"}
    BY DEF Press, Goto, TInv, CallersRight
  <1>2. OnTheWay' /\ ToForget'
    BY <1>1 DEF OnTheWay, ToForget, Noted, Settling
  <1> QED BY <1>2, CallKeeps DEF Press

\* A request more: nobody is shown an empty budget or has read that no empty is
\* queued, and no answered empty is at the head anew.
LEMMA RequestAdded ==
  ASSUME TInv, SInv, NEW p \in Callers, Callers = {p}, NEW r,
         requests' = Append(requests, r), pc'[p] = "idle", UNCHANGED <<results, applier>>,
         Sharers(r.links) = {}, r.id = 0 \/ r.id > queued,
         r.kind = "empty" => requests = <<>>,
         r.kind = "push" => ~IsQueued("empty")
  PROVE  SInv'
  <1>1. OnTheWay' /\ ToForget'
    BY DEF OnTheWay, ToForget, Noted, Settling
  <1>2. /\ requests \in Seq(Envelopes) /\ Len(requests) \in Nat
        /\ DOMAIN requests = 1..Len(requests) /\ DOMAIN requests' = 1..(Len(requests) + 1)
        /\ \A k \in 1..Len(requests) : requests'[k] = requests[k]
        /\ requests'[Len(requests) + 1] = r
    BY DEF TInv, RequestsRight
  <1>3. \A k \in DOMAIN requests' :
           \/ k \in DOMAIN requests /\ requests'[k] = requests[k]
           \/ k = Len(requests) + 1 /\ requests'[k] = r
    <2>1. \A n \in Nat : \A k \in 1..(n + 1) : k \in 1..n \/ k = n + 1
      OBVIOUS
    <2>2. \A k \in DOMAIN requests' : k \in DOMAIN requests \/ k = Len(requests) + 1
      BY <1>2, <2>1
    <2> QED BY <1>2, <2>2
  <1>4. NoSharedImport'
    <2>1. \A k \in DOMAIN requests' : Sharers(requests'[k].links) = {}
      BY <1>3 DEF SInv, NoSharedImport
    <2> QED BY <2>1 DEF NoSharedImport, Sharers, Linked
  <1>5. EmptyAlone'
    <2>1. ASSUME NEW k \in DOMAIN requests', requests'[k].kind = "empty"
          PROVE  k = 1 /\ \A j \in DOMAIN requests' : requests'[j].kind # "push"
      <3>1. CASE k \in DOMAIN requests
        <4>1. IsQueued("empty") /\ k = 1 /\ ~IsQueued("push")
          BY <1>3, <1>2, <2>1, <3>1 DEF IsQueued, SInv, EmptyAlone
        <4> QED BY <1>3, <4>1 DEF IsQueued
      <3>2. CASE k \notin DOMAIN requests
        <4>1. k = Len(requests) + 1 /\ r.kind = "empty" /\ requests = <<>>
          BY <1>3, <2>1, <3>2
        <4>2. k = 1 /\ DOMAIN requests = {}
          BY <4>1
        <4> QED BY <1>3, <4>1, <4>2
      <3> QED BY <3>1, <3>2
    <2> QED BY <2>1 DEF EmptyAlone, IsQueued
  <1>6. NothingLeft'
    <2>1. CompleteEmpties' = CompleteEmpties /\ outcome' = outcome /\ Live' = Live
      BY CompleteStays DEF applier, Live
    <2>2. CASE requests = <<>>
      <3>1. Job' = r
        BY <2>2 DEF Job
      <3>2. r.id \notin CompleteEmpties
        <4>1. \A n \in CompleteEmpties : n # 0 /\ n \in Nat /\ n <= queued
          BY CompleteAre DEF TInv
        <4> QED BY <4>1 DEF TInv, RequestsRight
      <3> QED BY <2>1, <3>1, <3>2 DEF SInv, NothingLeft
    <2>3. CASE requests # <<>>
      <3>1. Job' = Job
        BY <1>2, <2>3 DEF Job
      <3> QED BY <2>1, <2>3, <3>1 DEF SInv, NothingLeft
    <2> QED BY <2>2, <2>3
  <1> QED BY <1>1, <1>4, <1>5, <1>6 DEF SInv

LEMMA BuildAndQueueIsSafe ==
  ASSUME TInv, SInv, NEW p \in Callers, Callers = {p}, BuildAndQueue(p)
  PROVE  SInv'
  <1>1. /\ pc[p] = "build" /\ goal[p] \in {"push", "audit"} /\ waiting[p] = {} /\ Sharers(map) = {}
        /\ pc'[p] = "idle" /\ UNCHANGED <<results, applier, queued>>
    BY DEF BuildAndQueue, Leave, Goto, TInv, CallersRight, SInv, OnTheWay
  <1>2. CASE NothingQueued(goal[p])
    <2>1. requests' = requests /\ UNCHANGED <<queue, applier>>
      BY <1>1, <1>2 DEF BuildAndQueue, queue
    <2>2. OnTheWay' /\ ToForget'
      BY <1>1 DEF OnTheWay, ToForget, Noted, Settling
    <2> QED BY <2>1, <2>2, CallKeeps
  <1>3. CASE ~NothingQueued(goal[p])
    <2> DEFINE r == Request(goal[p])
    <2>1. requests' = Append(requests, r)
      BY <1>3 DEF BuildAndQueue
    <2>2. r.kind = goal[p] /\ r.id = 0 /\ r.links = map
      BY DEF Request
    <2>3. r.kind = "push" => ~IsQueued("empty")
      BY <1>1, <2>2 DEF SInv, OnTheWay, Noted
    <2> HIDE DEF r
    <2> QED BY <1>1, <2>1, <2>2, <2>3, RequestAdded
  <1> QED BY <1>2, <1>3

LEMMA QueueEmptyIsSafe ==
  ASSUME TInv, SInv, NEW p \in Callers, Callers = {p}, QueueEmpty(p)
  PROVE  SInv'
  <1> DEFINE r == [kind |-> "empty", id |-> queued + 1, links |-> NoLinks, shown |-> Shown,
                   provision |-> {}]
  <1>1. /\ requests' = Append(requests, r) /\ requests = <<>>
        /\ pc'[p] = "idle" /\ UNCHANGED <<results, applier>>
    BY DEF QueueEmpty, Leave, Goto, TInv, CallersRight, SInv, OnTheWay
  <1>2. Sharers(NoLinks) = {}
    BY DEF Sharers, Linked, NoLinks
  <1>3. r.kind = "empty" /\ r.id = queued + 1 /\ r.links = NoLinks
    OBVIOUS
  <1> HIDE DEF r
  <1>4. r.id > queued
    BY <1>3 DEF TInv, RequestsRight
  <1> QED BY <1>1, <1>2, <1>3, <1>4, RequestAdded

LEMMA CallIsSafe ==
  ASSUME TInv, SInv, NEW p \in Callers, Callers = {p}
  PROVE  CallerStep(p) \/ CallerDies(p) => SInv'
  <1> USE DEF Goto, Leave
  <1>1. CASE ReadSettled(p)
    <2>1. UNCHANGED <<queue, applier, goal, map, settled>> /\ goal[p] \in {"push", "audit"}
      BY <1>1 DEF ReadSettled, store, TInv, CallersRight
    <2>2. waiting'[p] = CompleteEmpties \ settled
          /\ pc'[p] = IF waiting'[p] = {} THEN AfterSettling(p) ELSE "claim"
      BY <1>1 DEF ReadSettled, TInv, CallersRight
    <2>3. pc'[p] \in {"note", "claim"} /\ (pc'[p] = "note" => waiting'[p] = {}) /\ ~Noted(p)'
      BY <2>1, <2>2 DEF AfterSettling, Noted
    <2>4. OnTheWay'
      BY <2>2, <2>3 DEF OnTheWay
    <2>5. CompleteEmpties' = CompleteEmpties
      BY <2>1, CompleteStays DEF queue
    <2>6. ToForget'
      BY <2>1, <2>2, <2>5 DEF ToForget
    <2> QED BY <2>1, <2>4, <2>6, CallKeeps
  <1>2. CASE Claim(p) \/ MergeClaims(p) \/ MarkMerged(p)
    <2>1. UNCHANGED <<queue, applier, goal, waiting, settled>>
      BY <1>2 DEF Claim, MergeClaims, MarkMerged
    <2>2. /\ pc[p] \in {"claim", "merge", "mark"} /\ pc'[p] \in {"merge", "mark", "forget", "drop"}
          /\ pc'[p] = "forget" => waiting[p] # {}
          /\ pc'[p] = "drop" => waiting[p] = {}
      BY <1>2 DEF Claim, MergeClaims, MarkMerged, AfterMerge, TInv, CallersRight
    <2>3. UNCHANGED <<requests, results, budget>>
      BY <2>1 DEF queue, applier
    <2>4. OnTheWay'
      BY <2>1, <2>2, <2>3, QueueLooksTheSame DEF OnTheWay, Noted, SInv
    <2>5. ToForget'
      BY <2>1, <2>2, <2>3, QueueLooksTheSame, CompleteStays DEF ToForget, Settling, SInv, Live
    <2> QED BY <2>1, <2>4, <2>5, CallKeeps
  <1>3. CASE ForgetLinks(p)
    <2>1. pc'[p] = "record" /\ UNCHANGED <<queue, applier>>
      BY <1>3 DEF ForgetLinks, TInv, CallersRight
    <2>2. OnTheWay' /\ ToForget'
      BY <2>1 DEF OnTheWay, ToForget, Noted, Settling
    <2> QED BY <2>1, <2>2, CallKeeps
  <1>4. CASE RecordSettled(p)
    <2>1. UNCHANGED <<queue, applier, goal>> /\ waiting'[p] = {} /\ pc'[p] = AfterSettling(p)
      BY <1>4 DEF RecordSettled, TInv, CallersRight
    <2>2. OnTheWay' /\ ToForget'
      BY <2>1 DEF OnTheWay, ToForget, Noted, Settling, AfterSettling
    <2> QED BY <2>1, <2>2, CallKeeps
  <1>5. CASE Blocked(p)
    <2>1. /\ UNCHANGED <<queue, applier, waiting>> /\ waiting[p] = {}
          /\ pc'[p] = "idle" \/ (pc'[p] = "claim" /\ ~EmptyPending)
      BY <1>5 DEF Blocked, TInv, CallersRight, SInv, OnTheWay
    <2>2. pc'[p] = "claim" => ~IsQueued("empty")
      BY <2>1 DEF EmptyPending
    <2>3. OnTheWay' /\ ToForget'
      BY <2>1, <2>2, QueueLooksTheSame DEF OnTheWay, ToForget, Noted, Settling, queue
    <2> QED BY <2>1, <2>3, CallKeeps
  <1>6. CASE DropConflicts(p)
    <2>1. /\ UNCHANGED <<queue, applier, goal, waiting>> /\ pc[p] = "drop" /\ pc'[p] = "build"
          /\ map' = [d \in Canonicals |-> IF d \in Sharers(map) THEN NoId ELSE map[d]]
      BY <1>6 DEF DropConflicts, TInv, CallersRight
    <2>2. Sharers(map') = {}
      BY <2>1, NoneShare DEF TInv, MapRight
    <2>3. Sharers(map)' = Sharers(map')
      BY DEF Sharers, Linked
    <2>4. OnTheWay' /\ ToForget'
      BY <2>1, <2>2, <2>3, QueueLooksTheSame DEF SInv, OnTheWay, ToForget, Noted, Settling, queue
    <2> QED BY <2>1, <2>4, CallKeeps
  <1>7. CASE BuildAndQueue(p)
    BY <1>7, BuildAndQueueIsSafe
  <1>8. CASE CheckEmpty(p)
    <2>1. /\ UNCHANGED <<queue, applier>>
          /\ pc'[p] = "idle" \/ (pc'[p] = "shown" /\ requests = <<>>)
      BY <1>8 DEF CheckEmpty, TInv, CallersRight
    <2>2. OnTheWay' /\ ToForget'
      BY <2>1 DEF OnTheWay, ToForget, Noted, Settling, queue
    <2> QED BY <2>1, <2>2, CallKeeps
  <1>9. CASE QueueEmpty(p)
    BY <1>9, QueueEmptyIsSafe
  <1>10. CASE CallerDies(p)
    <2>1. pc'[p] = "idle" /\ UNCHANGED <<queue, applier>>
      BY <1>10 DEF CallerDies, TInv, CallersRight
    <2>2. OnTheWay' /\ ToForget'
      BY <2>1 DEF OnTheWay, ToForget, Noted, Settling
    <2> QED BY <2>1, <2>2, CallKeeps
  <1> QED BY <1>1, <1>2, <1>3, <1>4, <1>5, <1>6, <1>7, <1>8, <1>9, <1>10 DEF CallerStep

\* The steps of the applier that leave the queue and every account be, or only
\* delete accounts.
LEMMA WorkKeeps ==
  ASSUME TInv, SInv, UNCHANGED <<queue, caller, map, settled>>, Live' \subseteq Live,
         outcome' = "complete" => Live' = {}
  PROVE  SInv'
  <1>1. UNCHANGED <<requests, results, pc, goal, waiting, map, settled>>
    BY DEF queue, caller
  <1>2. OnTheWay' /\ NoSharedImport' /\ EmptyAlone'
    BY <1>1, QueueLooksTheSame DEF SInv, OnTheWay, Noted, Sharers, Linked
  <1>3. NothingLeft'
    BY <1>1, QueueLooksTheSame, CompleteStays DEF SInv, NothingLeft
  <1>4. ToForget'
    BY <1>1, QueueLooksTheSame, CompleteStays DEF SInv, ToForget, Settling
  <1> QED BY <1>2, <1>3, <1>4 DEF SInv

LEMMA ProvisionIsSafe ==
  ASSUME TInv, SInv, Provision
  PROVE  SInv'
  <1>1. UNCHANGED <<requests, results, pc, goal, waiting, map, settled>> /\ outcome' = outcome
    BY DEF Provision, store, queue, caller
  <1>2. requests # <<>> /\ Job.kind = "push" /\ outcome = "none"
    BY DEF Provision, TInv, OnTheJob, ApplierRight
  <1>3. IsQueued("push") /\ Job.id = 0
    BY <1>2, JobIs DEF IsQueued, TInv
  <1>4. Job.id \notin CompleteEmpties
    BY <1>3, CompleteAre DEF TInv
  <1>5. OnTheWay' /\ NoSharedImport' /\ EmptyAlone'
    BY <1>1, QueueLooksTheSame DEF SInv, OnTheWay, Noted, Sharers, Linked
  <1>6. NothingLeft'
    BY <1>1, <1>2, <1>4, QueueLooksTheSame, CompleteStays DEF NothingLeft
  <1>7. ToForget'
    BY <1>1, <1>3, QueueLooksTheSame, CompleteStays DEF SInv, ToForget, Settling
  <1> QED BY <1>5, <1>6, <1>7 DEF SInv

LEMMA WriteAnswerIsSafe ==
  ASSUME TInv, SInv, WriteAnswer
  PROVE  SInv'
  <1>1. /\ UNCHANGED <<requests, pc, goal, waiting, map, settled, budget, outcome>>
        /\ requests # <<>>
    BY DEF WriteAnswer, store, caller, TInv, OnTheJob
  <1>2. OnTheWay' /\ NoSharedImport' /\ EmptyAlone'
    BY <1>1, QueueLooksTheSame DEF SInv, OnTheWay, Noted, Sharers, Linked
  <1>3. Live' = Live
    BY <1>1 DEF Live
  <1>4. CASE Job.kind = "push"
    <2>1. results' = results
      BY <1>4 DEF WriteAnswer
    <2> QED BY <1>1, <1>2, <1>3, <2>1, QueueLooksTheSame, CompleteStays
            DEF SInv, NothingLeft, ToForget, Settling
  <1>5. CASE Job.kind # "push"
    <2>1. results' = Append(Kept, Answer)
      BY <1>5 DEF WriteAnswer
    <2>2. /\ Kept \in Seq(Answers)
          /\ \A k \in DOMAIN Kept :
                \E j \in DOMAIN results : Kept[k] = results[j] /\ results[j].id # Job.id
          /\ \A j \in DOMAIN results : results[j].id # Job.id =>
                \E k \in DOMAIN Kept : Kept[k] = results[j]
      BY KeptIs DEF TInv
    <2>3. /\ DOMAIN results' = 1..(Len(Kept) + 1) /\ DOMAIN Kept = 1..Len(Kept) /\ Len(Kept) \in Nat
          /\ \A k \in 1..Len(Kept) : results'[k] = Kept[k]
          /\ results'[Len(Kept) + 1] = Answer
      BY <2>1, <2>2
    <2>4. \A n \in CompleteEmpties : n # Job.id => n \in CompleteEmpties'
      <3> SUFFICES ASSUME NEW j \in DOMAIN results, results[j].kind = "empty",
                          results[j].outcome = "complete", results[j].id # Job.id
                   PROVE  results[j].id \in CompleteEmpties'
        BY DEF CompleteEmpties
      <3>1. PICK k \in DOMAIN Kept : Kept[k] = results[j]
        BY <2>2
      <3>2. k \in DOMAIN results' /\ results'[k] = results[j]
        BY <2>3, <3>1
      <3> QED BY <3>2 DEF CompleteEmpties
    <2>5. ASSUME Job.id \in CompleteEmpties' PROVE Live = {}
      <3>1. PICK k \in DOMAIN results' : /\ results'[k].kind = "empty"
                                         /\ results'[k].outcome = "complete"
                                         /\ results'[k].id = Job.id
        BY <2>5 DEF CompleteEmpties
      <3>2. k \notin DOMAIN Kept
        BY <2>2, <2>3, <3>1
      <3>3. k = Len(Kept) + 1
        <4>1. \A n \in Nat : \A i \in 1..(n + 1) : i \in 1..n \/ i = n + 1
          OBVIOUS
        <4> QED BY <2>3, <3>2, <4>1
      <3>4. outcome = "complete"
        BY <2>3, <3>1, <3>3 DEF Answer
      <3> QED BY <3>4 DEF SInv, NothingLeft
    <2>6. NothingLeft'
      BY <1>1, <1>3, <2>5, QueueLooksTheSame DEF SInv, NothingLeft
    <2>7. ASSUME Job.id \in CompleteEmpties PROVE Live = {} /\ ~IsQueued("push")
      <3>1. Job.id # 0 /\ Job.kind = "empty" /\ Job = requests[1] /\ 1 \in DOMAIN requests
        BY <1>1, <2>7, CompleteAre, JobIs DEF TInv
      <3> QED BY <1>1, <2>7, <3>1 DEF SInv, NothingLeft, EmptyAlone
    <2>8. ToForget'
      <3> SUFFICES ASSUME NEW c \in Callers, Settling(c)
                   PROVE  /\ waiting[c] \cap settled = {}
                          /\ waiting[c] \subseteq CompleteEmpties' \/ (Live = {} /\ ~IsQueued("push"))
        BY <1>1, <1>3, QueueLooksTheSame DEF ToForget, Settling
      <3> QED BY <2>4, <2>7 DEF SInv, ToForget
    <2> QED BY <1>2, <2>6, <2>8 DEF SInv
  <1> QED BY <1>4, <1>5

LEMMA FileAwayIsSafe ==
  ASSUME TInv, SInv, FileAway
  PROVE  SInv'
  <1>1. /\ UNCHANGED <<results, pc, goal, waiting, map, settled, budget>> /\ outcome' = "none"
        /\ requests' = Tail(requests) /\ requests # <<>>
    BY DEF FileAway, ApplierIdle, store, caller, TInv, OnTheJob
  <1>2. /\ requests \in Seq(Envelopes) /\ Len(requests) \in Nat /\ Len(requests) # 0
        /\ requests' \in Seq(Envelopes) /\ Len(requests') = Len(requests) - 1
        /\ DOMAIN requests' = 1..(Len(requests) - 1) /\ DOMAIN requests = 1..Len(requests)
        /\ \A k \in 1..(Len(requests) - 1) : requests'[k] = requests[k + 1]
    BY <1>1 DEF TInv, RequestsRight
  <1>3. \A k \in DOMAIN requests' :
           k + 1 \in DOMAIN requests /\ k + 1 # 1 /\ requests'[k] = requests[k + 1]
    BY <1>2
  <1>4. \A k \in DOMAIN requests' : requests'[k].kind # "empty"
    BY <1>3 DEF SInv, EmptyAlone
  <1>5. ~IsQueued("empty")' /\ (~IsQueued("push") => ~IsQueued("push")')
    BY <1>3, <1>4 DEF IsQueued
  <1>6. NoSharedImport'
    <2>1. \A k \in DOMAIN requests' : Sharers(requests'[k].links) = {}
      BY <1>3 DEF SInv, NoSharedImport
    <2> QED BY <2>1 DEF NoSharedImport, Sharers, Linked
  <1>7. EmptyAlone'
    BY <1>4 DEF EmptyAlone
  <1>8. NothingLeft'
    <2>1. ASSUME requests' # <<>> PROVE Job'.id \notin CompleteEmpties
      <3>1. 1 \in DOMAIN requests' /\ Job' = requests'[1] /\ 2 \in DOMAIN requests
            /\ requests'[1] = requests[2]
        BY <1>2, <2>1 DEF Job
      <3>2. Job'.id = 0
        BY <1>4, <3>1 DEF TInv, RequestsRight
      <3> QED BY <3>2, CompleteAre DEF TInv
    <2> QED BY <1>1, <2>1, CompleteStays DEF NothingLeft
  <1>9. OnTheWay'
    BY <1>1, <1>5 DEF SInv, OnTheWay, Noted, Sharers, Linked
  <1>10. ToForget'
    BY <1>1, <1>5, CompleteStays DEF SInv, ToForget, Settling, Live
  <1> QED BY <1>6, <1>7, <1>8, <1>9, <1>10 DEF SInv

LEMMA WorkIsSafe ==
  ASSUME TInv, SInv
  PROVE  ApplierStep \/ StopEmpty \/ JobRaises \/ ApplierDies => SInv'
  <1>1. CASE StartJob \/ Import \/ ReadPending \/ RefuseEmpty \/ StopEmpty \/ JobRaises
    <2>1. UNCHANGED <<queue, caller, map, settled, budget>> /\ (outcome' # "complete" \/ outcome' = outcome)
      BY <1>1 DEF StartJob, Import, ReadPending, RefuseEmpty, StopEmpty, JobRaises, store
    <2> QED BY <2>1, WorkKeeps DEF Live, SInv, NothingLeft
  <1>2. CASE Provision
    BY <1>2, ProvisionIsSafe
  <1>3. CASE CutPending \/ FillPending \/ ApplierDies
    <2>1. UNCHANGED <<queue, caller, map, settled, budget>> /\ (outcome' # "complete" \/ outcome' = outcome)
      BY <1>3 DEF CutPending, FillPending, ApplierDies, ApplierIdle
    <2> QED BY <2>1, WorkKeeps DEF Live, SInv, NothingLeft
  <1>4. CASE DeleteAccount
    <2>1. UNCHANGED <<queue, caller, map, settled>> /\ outcome' = outcome
      BY <1>4 DEF DeleteAccount, store
    <2>2. Live' \subseteq Live
      BY <1>4 DEF DeleteAccount, Live, TInv, ApplierRight, Names
    <2>3. outcome' # "complete"
      BY <1>4, <2>1 DEF DeleteAccount, TInv, ApplierRight
    <2> QED BY <2>1, <2>2, <2>3, WorkKeeps
  <1>5. CASE FinishEmpty
    BY <1>5, WorkKeeps DEF FinishEmpty, Live, store
  <1>6. CASE WriteAnswer
    BY <1>6, WriteAnswerIsSafe
  <1>7. CASE FileAway
    BY <1>7, FileAwayIsSafe
  <1> QED BY <1>1, <1>2, <1>3, <1>4, <1>5, <1>6, <1>7 DEF ApplierStep

LEMMA NextIsSafe ==
  ASSUME OneCaller, TInv, SInv, [Next]_vars
  PROVE  SInv'
  <1>1. PICK p : Callers = {p}
    BY DEF OneCaller
  <1>2. p \in Callers
    BY <1>1
  <1>3. ASSUME NEW c \in Callers, NEW kind \in {"push", "audit", "empty"}, Press(c, kind)
        PROVE  SInv'
    <2>1. c = p
      BY <1>1
    <2> QED BY <1>1, <1>2, <1>3, <2>1, PressIsSafe
  <1>4. ASSUME NEW c \in Callers, CallerStep(c) \/ CallerDies(c) PROVE SInv'
    <2>1. c = p
      BY <1>1
    <2> QED BY <1>1, <1>2, <1>4, <2>1, CallIsSafe
  <1>5. CASE \E c \in Canonicals : NameAccount(c)
    BY <1>5, WorkKeeps DEF NameAccount, SInv, NothingLeft, applier, Live
  <1>6. CASE UNCHANGED vars
    BY <1>6, WorkKeeps DEF vars, store, applier, SInv, NothingLeft, Live
  <1> QED BY <1>3, <1>4, <1>5, <1>6, WorkIsSafe DEF Next

\* One caller: every link that stands in a request is to an account no other
\* link of it is to, so no push imports two accounts into one.
THEOREM ImportsApart == ASSUME OneCaller PROVE Spec => []NoSharedImport
  <1>1. Init => TInv /\ SInv
    BY InitTInv, InitSInv
  <1>2. TInv /\ SInv /\ [Next]_vars => TInv' /\ SInv'
    BY NextKeepsTypes, NextIsSafe
  <1>3. SInv => NoSharedImport
    BY DEF SInv
  <1> QED BY <1>1, <1>2, <1>3, PTL DEF Spec

(***************************************************************************)
(* What a step does to the links.                                           *)
(***************************************************************************)

LEMMA LinksKept ==
  ASSUME TInv, SInv, [Next]_vars, NEW d \in Canonicals, map[d] \in Live, map'[d] = NoId
  PROVE  d \in Sharers(map) \/ CompleteEmpties \ settled # {}
  <1>1. map[d] \in Ids /\ map[d] # NoId
    BY NamesakesAssumption DEF Live
  <1>2. ASSUME NEW c \in Callers, MergeClaims(c) PROVE FALSE
    <2>1. CASE Offering(d) = {}
      BY <1>1, <1>2, <2>1 DEF MergeClaims
    <2>2. CASE Offering(d) # {}
      <3>1. Offering(d) \in SUBSET (1..Len(claims)) /\ Len(claims) \in Nat
        BY DEF Offering, TInv, FilesRight
      <3>2. Max(Offering(d)) \in Offering(d)
        BY <2>2, <3>1, NewestIn
      <3> QED BY <1>2, <2>2, <3>2 DEF MergeClaims, Offering
    <2> QED BY <2>1, <2>2
  <1>3. ASSUME NEW c \in Callers, ForgetLinks(c) PROVE CompleteEmpties \ settled # {}
    <2>1. Settling(c) /\ waiting[c] # {}
      BY <1>3 DEF ForgetLinks, Settling, SInv, OnTheWay
    <2>2. waiting[c] \cap settled = {} /\ waiting[c] \subseteq CompleteEmpties
      BY <2>1 DEF SInv, ToForget
    <2> QED BY <2>1, <2>2
  <1>4. ASSUME NEW c \in Callers, DropConflicts(c) PROVE d \in Sharers(map)
    BY <1>1, <1>4 DEF DropConflicts
  <1>5. CASE map' = map
    BY <1>1, <1>5
  <1>6. map' = map \/ \E c \in Callers : MergeClaims(c) \/ ForgetLinks(c) \/ DropConflicts(c)
    <2>1. ASSUME NEW c \in Callers, NEW kind \in {"push", "audit", "empty"}, Press(c, kind)
          PROVE  map' = map
      BY <2>1 DEF Press, store
    <2>2. ASSUME NEW c \in Callers, CallerStep(c) \/ CallerDies(c)
          PROVE  map' = map \/ MergeClaims(c) \/ ForgetLinks(c) \/ DropConflicts(c)
      BY <2>2 DEF CallerStep, ReadSettled, Claim, MarkMerged, RecordSettled, Blocked, BuildAndQueue,
                  CheckEmpty, QueueEmpty, CallerDies, store
    <2>3. ASSUME NEW c \in Canonicals, NameAccount(c) PROVE map' = map
      BY <2>3 DEF NameAccount
    <2>4. CASE ApplierStep \/ StopEmpty \/ JobRaises \/ ApplierDies
      BY <2>4 DEF ApplierStep, StartJob, Provision, Import, ReadPending, CutPending, FillPending,
                  RefuseEmpty, DeleteAccount, FinishEmpty, WriteAnswer, FileAway, StopEmpty, JobRaises,
                  ApplierDies, store
    <2>5. CASE UNCHANGED vars
      BY <2>5 DEF vars, store
    <2> QED BY <2>1, <2>2, <2>3, <2>4, <2>5 DEF Next
  <1> QED BY <1>2, <1>3, <1>4, <1>5, <1>6

\* One caller: a link to an account that exists leaves the map only to settle a
\* sharing or an empty nobody has settled.
THEOREM LiveLinksKept == ASSUME OneCaller PROVE Spec => KeepsLiveLinks
  <1>1. Init => TInv /\ SInv
    BY InitTInv, InitSInv
  <1>2. TInv /\ SInv /\ [Next]_vars => TInv' /\ SInv'
    BY NextKeepsTypes, NextIsSafe
  <1>3. TInv /\ SInv /\ [Next]_vars =>
           [\A c \in Canonicals :
              map[c] \in Live /\ map'[c] = NoId =>
                  c \in Sharers(map) \/ CompleteEmpties \ settled # {}]_vars
    BY LinksKept
  <1> QED BY <1>1, <1>2, <1>3, PTL DEF Spec, KeepsLiveLinks

(***************************************************************************)
(* Whichever job raises: the answers named an empty are those that name     *)
(* their request and did not fail, and a push that has read that none of    *)
(* them stopped partway may rely on it until it is queued.                  *)
(***************************************************************************)

AnswersNamed ==
    /\ outcome = "failed" => Job.kind # "audit"
    /\ \A k \in DOMAIN results :
          results[k].kind = "empty" <=> results[k].id # 0 /\ results[k].outcome # "failed"

NoRuin == AnswersNamed /\ \A c \in Callers : Noted(c) => ~EmptyEndedPartway

\* The newest of the answers that tell of their request is the newest named
\* an empty.
LEMMA EndedIsEmpty ==
  ASSUME AnswersNamed
  PROVE  EmptyEndedPartway <=>
            LET newest == NewestOf(IsEmpty)
            IN newest # 0 /\ results[newest].outcome = "partial" /\ NewestOf(IsAudit) < newest
  <1>1. {k \in DOMAIN results : results[k].id # 0 /\ results[k].outcome # "failed"}
           = {k \in DOMAIN results : results[k].kind = "empty"}
    BY DEF AnswersNamed
  <1> QED BY <1>1 DEF EmptyEndedPartway, NewestOf, IsEmpty

LEMMA EndedStays ==
  ASSUME results' = results
  PROVE  EmptyEndedPartway' = EmptyEndedPartway
  BY DEF EmptyEndedPartway, NewestOf, IsAudit

\* While a job is under way the requests grow at their end only.
LEMMA JobStands ==
  ASSUME TInv, AnswersNamed, results' = results, outcome' = outcome,
         requests' = requests \/ \E r \in Envelopes : requests' = Append(requests, r)
  PROVE  AnswersNamed'
  <1>1. outcome = "failed" => Job' = Job
    <2>1. outcome = "failed" => requests \in Seq(Envelopes) /\ requests # <<>>
      BY DEF TInv, OnTheJob, ApplierRight, RequestsRight
    <2> QED BY <2>1 DEF Job
  <1> QED BY <1>1 DEF AnswersNamed

\* A call only adds to the requests, at their end.
LEMMA RequestsGrow ==
  ASSUME TInv, NEW c \in Callers, CallerStep(c) \/ CallerDies(c)
  PROVE  requests' = requests \/ \E r \in Envelopes : requests' = Append(requests, r)
  <1>1. CASE BuildAndQueue(c) /\ ~NothingQueued(goal[c])
    <2>1. goal[c] \in {"push", "audit"} /\ requests' = Append(requests, Request(goal[c]))
      BY <1>1 DEF BuildAndQueue, TInv, CallersRight
    <2> QED BY <2>1, RequestIs DEF TInv
  <1>2. CASE QueueEmpty(c)
    <2> DEFINE r == [kind |-> "empty", id |-> queued + 1, links |-> NoLinks, shown |-> Shown,
                     provision |-> {}]
    <2>1. goal[c] = "empty" /\ c \in Emptiers
      BY <1>2 DEF QueueEmpty, TInv, CallersRight, Emptiers
    <2>2. queued + 1 \in Empties
      BY <2>1, QueuedBound DEF TInv, RequestsRight
    <2>3. NoLinks \in Links /\ Shown \subseteq Ids
      BY ShownIds DEF NoLinks, Links, TInv
    <2>4. r \in Envelopes
      BY <2>2, <2>3 DEF Envelopes
    <2>5. requests' = Append(requests, r)
      BY <1>2 DEF QueueEmpty
    <2> QED BY <2>4, <2>5
  <1>3. CASE BuildAndQueue(c) /\ NothingQueued(goal[c])
    BY <1>3 DEF BuildAndQueue
  <1> QED BY <1>1, <1>2, <1>3 DEF CallerStep, ReadSettled, Claim, MergeClaims, MarkMerged, ForgetLinks,
                                  RecordSettled, Blocked, DropConflicts, CheckEmpty, CallerDies, queue

LEMMA InitNoRuin == Init => NoRuin
  BY DEF Init, NoRuin, AnswersNamed, Noted

LEMMA CallLeavesNoRuin ==
  ASSUME TInv, SInv, NoRuin, NEW p \in Callers, Callers = {p}, UNCHANGED <<results, outcome>>,
         requests' = requests \/ \E r \in Envelopes : requests' = Append(requests, r),
         Noted(p)' => Noted(p) \/ ~EmptyPending
  PROVE  NoRuin'
  <1>1. AnswersNamed'
    BY JobStands DEF NoRuin
  <1>2. ~EmptyPending => ~EmptyEndedPartway
    BY EndedIsEmpty DEF EmptyPending, NoRuin, Unfinished
  <1> QED BY <1>1, <1>2, EndedStays DEF NoRuin

LEMMA AnswerLeavesNoRuin ==
  ASSUME TInv, SInv, NoRuin, WriteAnswer
  PROVE  NoRuin'
  <1>1. /\ UNCHANGED <<requests, pc, goal, waiting, outcome>> /\ requests # <<>>
    BY DEF WriteAnswer, caller, TInv, OnTheJob
  <1>2. CASE Job.kind = "push"
    <2>1. results' = results
      BY <1>2 DEF WriteAnswer
    <2>2. AnswersNamed'
      BY <1>1, <2>1, JobStands DEF NoRuin
    <2> QED BY <1>1, <2>1, <2>2, EndedStays DEF NoRuin, Noted
  <1>3. CASE Job.kind # "push"
    <2>1. results' = Append(Kept, Answer) /\ Answer.id = Job.id
          /\ Answer.outcome = outcome
          /\ Answer.kind = IF outcome = "failed" THEN "none" ELSE Job.kind
      BY <1>3 DEF WriteAnswer, Answer
    <2>2. /\ Kept \in Seq(Answers)
          /\ \A k \in DOMAIN Kept :
                \E j \in DOMAIN results : Kept[k] = results[j] /\ results[j].id # Job.id
      BY KeptIs DEF TInv
    <2>3. /\ DOMAIN results' = 1..(Len(Kept) + 1) /\ DOMAIN Kept = 1..Len(Kept) /\ Len(Kept) \in Nat
          /\ \A k \in 1..Len(Kept) : results'[k] = Kept[k]
          /\ results'[Len(Kept) + 1] = Answer
      BY <2>1, <2>2
    <2>4. \A k \in DOMAIN results' : k \in DOMAIN Kept \/ k = Len(Kept) + 1
      <3>1. \A n \in Nat : \A i \in 1..(n + 1) : i \in 1..n \/ i = n + 1
        OBVIOUS
      <3> QED BY <2>3, <3>1
    <2>5. Job \in Envelopes /\ (Job.kind = "empty" <=> Job.id # 0) /\ Job = requests[1]
          /\ 1 \in DOMAIN requests
      BY <1>1, JobIs DEF TInv
    <2>6. AnswersNamed'
      <3>1. Job' = Job
        BY <1>1 DEF Job
      <3>2. Answer.kind = "empty" <=> Answer.id # 0 /\ Answer.outcome # "failed"
        BY <2>1, <2>5
      <3>3. \A k \in DOMAIN Kept :
               Kept[k].kind = "empty" <=> Kept[k].id # 0 /\ Kept[k].outcome # "failed"
        BY <2>2 DEF NoRuin, AnswersNamed
      <3>4. \A k \in DOMAIN results' :
               results'[k].kind = "empty" <=> results'[k].id # 0 /\ results'[k].outcome # "failed"
        BY <2>3, <2>4, <3>2, <3>3
      <3> QED BY <1>1, <3>1, <3>4 DEF NoRuin, AnswersNamed
    <2>7. CASE Job.kind = "empty"
      <3>1. IsQueued("empty")
        BY <2>5, <2>7 DEF IsQueued
      <3>2. \A c \in Callers : ~Noted(c)
        BY <3>1 DEF SInv, OnTheWay
      <3> QED BY <1>1, <2>6, <3>2 DEF NoRuin, Noted
    <2>8. CASE Job.kind = "audit"
      <3> DEFINE Audits == {k \in DOMAIN results' : results'[k].kind = "audit"}
                 Ended == {k \in DOMAIN results' :
                              results'[k].id # 0 /\ results'[k].outcome # "failed"}
                 last == Len(Kept) + 1
      <3>1. last \in Nat /\ Audits \in SUBSET (1..last) /\ Ended \in SUBSET (1..last)
            /\ last \in Audits
        BY <2>1, <2>3, <2>8 DEF NoRuin, AnswersNamed
      <3>2. EmptyEndedPartway' => Ended # {} /\ Max(Audits) < Max(Ended)
        BY <3>1 DEF EmptyEndedPartway, NewestOf, IsAudit
      <3> HIDE DEF Audits, Ended, last
      <3>3. Max(Audits) \in 1..last /\ last <= Max(Audits)
        BY <3>1, NewestIn
      <3>4. Ended # {} => Max(Ended) \in 1..last
        BY <3>1, NewestIn
      <3>5. Ended # {} => ~(Max(Audits) < Max(Ended))
        <4>1. \A i, j \in 1..last : last <= i => ~(i < j)
          BY <3>1
        <4> QED BY <3>3, <3>4, <4>1
      <3>6. ~EmptyEndedPartway'
        BY <3>2, <3>5
      <3> QED BY <2>6, <3>6 DEF NoRuin
    <2> QED BY <1>3, <2>5, <2>7, <2>8 DEF Envelopes
  <1> QED BY <1>2, <1>3

LEMMA NextLeavesNoRuin ==
  ASSUME OneCaller, TInv, SInv, NoRuin, [Next]_vars
  PROVE  NoRuin'
  <1>1. PICK p : Callers = {p}
    BY DEF OneCaller
  <1>2. p \in Callers
    BY <1>1
  <1>3. ASSUME NEW c \in Callers, NEW kind \in {"push", "audit", "empty"}, Press(c, kind)
        PROVE  NoRuin'
    <2>1. c = p
      BY <1>1
    <2>2. pc'[p] \in {"check", "settle"} /\ UNCHANGED <<results, outcome>>
      BY <1>3, <2>1 DEF Press, Goto, TInv, CallersRight, queue, applier
    <2>3. ~Noted(p)'
      BY <2>2 DEF Noted
    <2>4. requests' = requests
      BY <1>3 DEF Press, queue
    <2> QED BY <1>1, <1>2, <2>2, <2>3, <2>4, CallLeavesNoRuin
  <1>4. CASE CallerStep(p) \/ CallerDies(p)
    <2>1. UNCHANGED <<results, outcome>>
      BY <1>4 DEF CallerStep, ReadSettled, Claim, MergeClaims, MarkMerged, ForgetLinks, RecordSettled,
                  Blocked, DropConflicts, BuildAndQueue, CheckEmpty, QueueEmpty, CallerDies, queue, applier
    <2>2. Noted(p)' => Noted(p) \/ ~EmptyPending
      <3>1. CASE ReadSettled(p)
        BY <3>1 DEF ReadSettled, Goto, AfterSettling, Noted, TInv, CallersRight
      <3>2. CASE Claim(p) \/ MergeClaims(p) \/ MarkMerged(p) \/ DropConflicts(p)
        BY <3>2 DEF Claim, MergeClaims, MarkMerged, DropConflicts, Goto, AfterMerge, Noted, TInv,
                    CallersRight, SInv, OnTheWay
      <3>3. CASE Blocked(p)
        BY <3>3 DEF Blocked, Leave, Goto, Noted, TInv, CallersRight
      <3>4. CASE RecordSettled(p)
        BY <3>4 DEF RecordSettled, Goto, AfterSettling, Noted, TInv, CallersRight
      <3>5. CASE ForgetLinks(p) \/ BuildAndQueue(p) \/ CheckEmpty(p) \/ QueueEmpty(p) \/ CallerDies(p)
        BY <3>5 DEF ForgetLinks, BuildAndQueue, CheckEmpty, QueueEmpty, CallerDies, Leave, Goto, Noted,
                    TInv, CallersRight
      <3> QED BY <1>4, <3>1, <3>2, <3>3, <3>4, <3>5 DEF CallerStep
    <2>3. requests' = requests \/ \E r \in Envelopes : requests' = Append(requests, r)
      BY <1>2, <1>4, RequestsGrow
    <2> QED BY <1>1, <1>2, <2>1, <2>2, <2>3, CallLeavesNoRuin
  <1>5. CASE WriteAnswer
    BY <1>5, AnswerLeavesNoRuin
  <1>6. CASE \/ StartJob \/ Provision \/ Import \/ ReadPending \/ CutPending \/ FillPending
             \/ RefuseEmpty \/ DeleteAccount \/ FinishEmpty \/ FileAway \/ StopEmpty \/ ApplierDies
             \/ (\E c \in Canonicals : NameAccount(c)) \/ UNCHANGED vars
    <2>1. UNCHANGED <<results, pc, goal, waiting>>
      BY <1>6 DEF StartJob, Provision, Import, ReadPending, CutPending, FillPending, RefuseEmpty,
                  DeleteAccount, FinishEmpty, FileAway, StopEmpty, ApplierDies, NameAccount, vars,
                  queue, caller
    <2>2. AnswersNamed'
      <3>1. CASE \/ StartJob \/ Import \/ RefuseEmpty \/ FinishEmpty \/ FileAway \/ StopEmpty
                \/ ApplierDies
        <4>1. outcome' # "failed"
          BY <3>1 DEF StartJob, Import, RefuseEmpty, FinishEmpty, FileAway, StopEmpty, ApplierDies,
                      ApplierIdle, TInv, ApplierRight
        <4> QED BY <2>1, <4>1 DEF NoRuin, AnswersNamed
      <3>2. CASE \/ Provision \/ ReadPending \/ CutPending \/ FillPending \/ DeleteAccount
                \/ (\E c \in Canonicals : NameAccount(c)) \/ UNCHANGED vars
        <4>1. UNCHANGED <<requests, outcome>>
          <5>1. CASE Provision
            BY <5>1 DEF Provision, queue
          <5>2. CASE ReadPending \/ CutPending \/ FillPending
            BY <5>2 DEF ReadPending, CutPending, FillPending, queue
          <5>3. CASE DeleteAccount \/ (\E c \in Canonicals : NameAccount(c)) \/ UNCHANGED vars
            BY <5>3 DEF DeleteAccount, NameAccount, vars, queue, applier
          <5> QED BY <3>2, <5>1, <5>2, <5>3
        <4> QED BY <2>1, <4>1, JobStands DEF NoRuin
      <3> QED BY <1>6, <3>1, <3>2
    <2> QED BY <2>1, <2>2, EndedStays DEF NoRuin, Noted
  <1>7. CASE JobRaises
    <2>1. UNCHANGED <<requests, results, pc, goal, waiting>> /\ Job.kind # "audit"
      BY <1>7 DEF JobRaises, queue, caller, TInv, OnTheJob
    <2>2. AnswersNamed'
      BY <2>1 DEF NoRuin, AnswersNamed, Job
    <2> QED BY <2>1, <2>2, EndedStays DEF NoRuin, Noted
  <1>8. CASE \E c \in Callers : CallerStep(c) \/ CallerDies(c)
    BY <1>1, <1>4, <1>8
  <1> QED BY <1>3, <1>5, <1>6, <1>7, <1>8 DEF Next, ApplierStep

\* One caller, whichever job raises or stops: no push is queued between an
\* empty that answered partial and the next audit.
THEOREM NothingOverARuin == ASSUME OneCaller PROVE Spec => NoPushOverARuin
  <1>1. Init => TInv /\ SInv /\ NoRuin
    BY InitTInv, InitSInv, InitNoRuin
  <1>2. TInv /\ SInv /\ NoRuin /\ [Next]_vars => TInv' /\ SInv' /\ NoRuin'
    BY NextKeepsTypes, NextIsSafe, NextLeavesNoRuin
  <1>3. TInv /\ SInv /\ NoRuin =>
           \A c \in Callers : BuildAndQueue(c) /\ goal[c] = "push" => ~EmptyEndedPartway
    BY DEF BuildAndQueue, SInv, OnTheWay, NoRuin, Noted
  <1>4. TInv /\ SInv /\ NoRuin /\ [Next]_vars =>
           [\A c \in Callers : BuildAndQueue(c) /\ goal[c] = "push" => ~EmptyEndedPartway]_vars
    BY <1>3
  <1> QED BY <1>1, <1>2, <1>4, PTL DEF Spec, NoPushOverARuin
=============================================================================
