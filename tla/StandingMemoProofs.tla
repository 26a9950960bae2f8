------------------------ MODULE StandingMemoProofs ------------------------
(***************************************************************************)
(* Proved of StandingMemo for any number of requests, writes and faults:    *)
(* its types, that no call is answered with older rows than its caller saw, *)
(* and that no half-built layer is kept.                                    *)
(***************************************************************************)
EXTENDS StandingMemo, TLAPS

(* Versions only grow; a write in hand is newer than what is committed.     *)
Ordered ==
    /\ epoch <= at /\ at <= writes
    /\ tx # Nobody => at < writes

LEMMA TypeStep ==
  ASSUME TypeOK, Ordered, [Next]_vars
  PROVE  TypeOK' /\ Ordered'
  <1> USE MemoAssumption DEF TypeOK, Ordered, Versions, Keys, Flying, Step, store, rebuild, calls
  <1>1. CASE Write
    <2>1. kind[at] \in {"whole", "half", "left"}
      OBVIOUS
    <2> QED BY <1>1, <2>1 DEF Write, Commit, Version
  <1>2. CASE Rebuilds
    <2>1. CASE Wipe
      BY <2>1 DEF Wipe, Commit, Version, RebuildStep
    <2>2. CASE FinishReplay
      BY <2>2 DEF FinishReplay, Commit, Version, RebuildStep
    <2>3. CASE RebuildRaises
      <3>1. kind' \in [Versions -> {"whole", "half", "left"}]
        BY <2>3 DEF RebuildRaises, Abandoned
      <3> QED BY <2>3, <3>1 DEF RebuildRaises, RebuildStep, Fault
    <2>4. CASE TakeRebuildLease \/ ReleaseRebuildLease \/ Lapse
      BY <2>4 DEF TakeRebuildLease, ReleaseRebuildLease, Lapse, RebuildStep
    <2>5. CASE WriteRunning \/ WriteDone
      <3>1. marks' \in Marks
        BY <2>5 DEF WriteRunning, WriteDone, Marks
      <3> QED BY <2>5, <3>1 DEF WriteRunning, WriteDone, RebuildStep
    <2> QED BY <1>2, <2>1, <2>2, <2>3, <2>4, <2>5 DEF Rebuilds
  <1>3. CASE Restart
    <2>1. kind' \in [Versions -> {"whole", "half", "left"}]
      BY <1>3 DEF Restart, Abandoned
    <2> QED BY <1>3, <2>1 DEF Restart, Clean, Fault
  <1>4. ASSUME NEW r \in Readers, WriteInHand(r) \/ CommitInHand(r) \/ RollBack(r)
        PROVE  TypeOK' /\ Ordered'
    <2>1. CASE WriteInHand(r)
      BY <2>1 DEF WriteInHand, Version
    <2>2. CASE CommitInHand(r) \/ RollBack(r)
      BY <2>2 DEF CommitInHand, RollBack
    <2> QED BY <1>4, <2>1, <2>2
  <1>5. ASSUME NEW r \in Readers, ReadKey(r)
        PROVE  TypeOK' /\ Ordered'
    <2>1. StandingEpoch(r) \in Keys /\ View(r) \in Versions
      BY DEF StandingEpoch, View
    <2> QED BY <1>5, <2>1 DEF ReadKey
  <1>6. ASSUME NEW r \in Readers, Goes(r) \/ ComputeRaises(r)
        PROVE  TypeOK' /\ Ordered'
    <2>1. CASE Hit(r)
      BY <2>1 DEF Hit, Clean
    <2>2. CASE Join(r)
      BY <2>2 DEF Join
    <2>3. CASE Lead(r)
      BY <2>3 DEF Lead, RebuildEpoch
    <2>4. CASE Compute(r)
      <3>1. View(r) \in Versions
        BY DEF View
      <3> QED BY <2>4, <3>1 DEF Compute
    <2>5. CASE Keep(r)
      BY <2>5 DEF Keep, Lands, Clean
    <2>6. CASE ComputeRaises(r)
      BY <2>6 DEF ComputeRaises, Lands, Clean, Fault
    <2> QED BY <1>6, <2>1, <2>2, <2>3, <2>4, <2>5, <2>6 DEF Goes
  <1>7. CASE UNCHANGED vars
    BY <1>7 DEF vars
  <1> QED BY <1>1, <1>2, <1>3, <1>4, <1>5, <1>6, <1>7 DEF Next

LEMMA TypeInit == Init => TypeOK /\ Ordered
  <1>1. 0 \in Versions /\ 0 \in Keys /\ [state |-> "done", run |-> 0] \in Marks
    BY MemoAssumption DEF Versions, Keys, Marks
  <1> SUFFICES ASSUME Init PROVE TypeOK /\ Ordered
    OBVIOUS
  <1>2. epoch \in 0..writes /\ at \in 0..writes /\ faults \in 0..MaxFaults /\ Ordered
    BY MemoAssumption DEF Init, Ordered
  <1>3. /\ kind \in [Versions -> {"whole", "half", "left"}]
        /\ pc \in [Readers -> Flying \cup {"idle", "keyed", "waits"}]
        /\ key \in [Readers -> Keys] /\ sees \in [Readers -> Versions]
        /\ took \in [Readers -> SUBSET Versions]
        /\ began \in [Readers -> [held : BOOLEAN, marks : Marks] \cup {Nobody}]
    BY <1>1 DEF Init
  <1> QED BY <1>1, <1>2, <1>3 DEF Init, TypeOK

(* THEOREM: no step takes a variable out of its type (KeyedMemo's fields and*)
(* the store's versions).                                                   *)
THEOREM TypeCorrect == Spec => []TypeOK
  <1> QED BY TypeInit, TypeStep, PTL DEF Spec

(***************************************************************************)
(* What a call has read, against what its caller saw.                       *)
(***************************************************************************)

(* A caller with a write in hand sees and reads only that write; any other  *)
(* has a key that was committed, whose version it saw, and has read nothing *)
(* older.                                                                   *)
Behind(r) ==
    IF tx = r THEN key[r] = epoch + 1 /\ sees[r] = writes /\ took[r] \subseteq {writes}
    ELSE /\ key[r] <= epoch /\ sees[r] <= at
         /\ key[r] = epoch => sees[r] = at
         /\ \A v \in took[r] : sees[r] <= v /\ v <= at

Calling == {r \in Readers : pc[r] # "idle"}

(* One key, one version.                                                    *)
SameKey ==
    \A r, l \in Calling : tx \notin {r, l} /\ key[r] = key[l] => sees[r] = sees[l]

(* What is held was read under a committed key, by nobody before that key.  *)
HeldBehind ==
    held # Nobody =>
        /\ held.key <= epoch /\ \A v \in held.value : v <= at
        /\ held.key = epoch => held.value = {at}
        /\ \A r \in Calling : key[r] = held.key => \A v \in held.value : sees[r] <= v

Fresh ==
    /\ \A r \in Calling : Behind(r)
    /\ \A r \in Readers :
          /\ pc[r] \in {"reading", "computed"} => took[r] # {}
          /\ pc[r] \in {"idle", "keyed", "waits", "began"} => took[r] = {}
    /\ SameKey /\ HeldBehind

(* A commit leaves every call that is under way behind it, and no call of   *)
(* the one that had a write in hand is under way when it ends.              *)
LEMMA StoreMoves ==
  ASSUME TypeOK, Ordered, Fresh, UNCHANGED <<pc, key, sees, took, held>>,
         tx' # tx => \A r \in Readers : r \in {tx, tx'} => pc[r] = "idle",
         tx \in Readers => tx' = Nobody \/ writes' = writes,
         \/ UNCHANGED <<at, epoch>>
         \/ at' \in Nat /\ at' > at /\ epoch' = epoch + 1 /\ tx' = Nobody
  PROVE  Fresh'
  <1> USE MemoAssumption DEF TypeOK, Ordered, Versions, Keys
  <1>1. Calling' = Calling
    BY DEF Calling
  <1>2. ASSUME NEW r \in Calling PROVE Behind(r)'
    <2>1. r \in Readers /\ Behind(r) /\ pc[r] # "idle"
      BY DEF Fresh, Calling
    <2>2. key[r] \in Nat /\ sees[r] \in Nat /\ took[r] \subseteq Nat
      BY <2>1
    <2>3. CASE tx' = r
      <3>1. tx = r /\ UNCHANGED <<at, epoch, writes>>
        BY <2>1, <2>3
      <3> QED BY <2>1, <2>3, <3>1 DEF Behind
    <2>4. CASE tx' # r
      <3>1. tx # r
        BY <2>1, <2>4
      <3> QED BY <2>1, <2>2, <2>4, <3>1 DEF Behind
    <2> QED BY <2>3, <2>4
  <1>3. SameKey'
    <2> SUFFICES ASSUME NEW r \in Calling, NEW l \in Calling, tx' \notin {r, l}, key[r] = key[l]
                 PROVE  sees[r] = sees[l]
      BY <1>1 DEF SameKey
    <2>1. r \in Readers /\ l \in Readers /\ pc[r] # "idle" /\ pc[l] # "idle"
      BY DEF Calling
    <2>2. tx \notin {r, l}
      BY <2>1
    <2> QED BY <2>2 DEF Fresh, SameKey
  <1>4. HeldBehind'
    <2> SUFFICES ASSUME held # Nobody
                 PROVE  /\ held.key <= epoch' /\ \A v \in held.value : v <= at'
                        /\ held.key = epoch' => held.value = {at'}
                        /\ \A r \in Calling : key[r] = held.key => \A v \in held.value : sees[r] <= v
      BY <1>1 DEF HeldBehind
    <2>1. held.key \in Nat /\ held.value \subseteq Nat
      OBVIOUS
    <2> QED BY <2>1 DEF Fresh, HeldBehind
  <1> QED BY <1>1, <1>2, <1>3, <1>4 DEF Fresh

(* Calls that end leave the others as they are.                             *)
LEMMA CallsEnd ==
  ASSUME TypeOK, Fresh, NEW rs \in SUBSET Readers, Clean(rs), UNCHANGED <<tx, at, epoch, writes>>
  PROVE  /\ Calling' = Calling \ rs
         /\ \A r \in Calling' : key'[r] = key[r] /\ sees'[r] = sees[r]
         /\ HeldBehind' => Fresh'
  <1> USE DEF TypeOK, Clean
  <1>1. Calling' = Calling \ rs
    BY DEF Calling
  <1>2. \A r \in Readers \ rs :
           /\ pc'[r] = pc[r] /\ key'[r] = key[r] /\ sees'[r] = sees[r] /\ took'[r] = took[r]
    OBVIOUS
  <1>3. \A r \in rs : pc'[r] = "idle" /\ took'[r] = {}
    OBVIOUS
  <1>4. \A r \in Calling' : r \in Readers \ rs /\ r \in Calling
    BY <1>1 DEF Calling
  <1>5. \A r \in Calling' : Behind(r)'
    BY <1>2, <1>4 DEF Fresh, Behind
  <1>6. SameKey'
    BY <1>2, <1>4 DEF Fresh, SameKey
  <1>7. ASSUME NEW r \in Readers
        PROVE  /\ pc'[r] \in {"reading", "computed"} => took'[r] # {}
               /\ pc'[r] \in {"idle", "keyed", "waits", "began"} => took'[r] = {}
    BY <1>2, <1>3 DEF Fresh
  <1> QED BY <1>1, <1>2, <1>4, <1>5, <1>6, <1>7 DEF Fresh

LEMMA FreshStep ==
  ASSUME TypeOK, Ordered, Fresh, [Next]_vars
  PROVE  Fresh'
  <1> USE MemoAssumption DEF Step, store, rebuild, calls
  <1>1. CASE Write \/ Wipe \/ FinishReplay
    <2>1. /\ UNCHANGED <<pc, key, sees, took, held, tx>>
          /\ tx = Nobody /\ at' = writes + 1 /\ epoch' = epoch + 1
      BY <1>1 DEF Write, Wipe, FinishReplay, Commit, Version
    <2>2. at' \in Nat /\ at' > at
      BY <2>1 DEF TypeOK, Ordered, Versions
    <2> QED BY <2>1, <2>2, StoreMoves
  <1>2. CASE RebuildRaises \/ TakeRebuildLease \/ WriteRunning \/ ReleaseRebuildLease
             \/ WriteDone \/ Lapse
    <2>1. UNCHANGED <<pc, key, sees, took, held, tx, at, epoch, writes>>
      BY <1>2 DEF RebuildRaises, TakeRebuildLease, WriteRunning, ReleaseRebuildLease, WriteDone,
                  Lapse
    <2> QED BY <2>1, StoreMoves
  <1>3. CASE Restart
    BY <1>3 DEF Restart, Clean, Fresh, Calling, SameKey, HeldBehind
  <1>4. ASSUME NEW r \in Readers, WriteInHand(r) \/ CommitInHand(r) \/ RollBack(r)
        PROVE  Fresh'
    <2>1. CASE WriteInHand(r)
      <3>1. /\ UNCHANGED <<pc, key, sees, took, held, at, epoch>>
            /\ tx = Nobody /\ tx' = r /\ pc[r] = "idle"
        BY <2>1 DEF WriteInHand, Version
      <3> QED BY <3>1, StoreMoves
    <2>2. CASE CommitInHand(r)
      <3>1. /\ UNCHANGED <<pc, key, sees, took, held, writes>>
            /\ tx = r /\ tx' = Nobody /\ pc[r] = "idle" /\ at' = writes /\ epoch' = epoch + 1
        BY <2>2 DEF CommitInHand
      <3>2. at' \in Nat /\ at' > at
        BY <3>1 DEF TypeOK, Ordered, Versions
      <3> QED BY <3>1, <3>2, StoreMoves
    <2>3. CASE RollBack(r)
      <3>1. /\ UNCHANGED <<pc, key, sees, took, held, writes, at, epoch>>
            /\ tx = r /\ tx' = Nobody /\ pc[r] = "idle"
        BY <2>3 DEF RollBack
      <3> QED BY <3>1, StoreMoves
    <2> QED BY <1>4, <2>1, <2>2, <2>3
  <1> USE DEF TypeOK, Ordered, Versions, Keys
  <1>5. ASSUME NEW r \in Readers, ReadKey(r)
        PROVE  Fresh'
    <2>1. /\ pc[r] = "idle" /\ pc' = [pc EXCEPT ![r] = "keyed"]
          /\ key' = [key EXCEPT ![r] = StandingEpoch(r)]
          /\ sees' = [sees EXCEPT ![r] = View(r)]
          /\ UNCHANGED <<took, held, tx, at, epoch, writes>>
      BY <1>5 DEF ReadKey
    <2>2. Calling' = Calling \cup {r} /\ r \notin Calling
      BY <2>1 DEF Calling
    <2>3. /\ took[r] = {} /\ key'[r] = StandingEpoch(r) /\ sees'[r] = View(r)
          /\ \A l \in Calling : l \in Readers /\ key'[l] = key[l] /\ sees'[l] = sees[l] /\ Behind(l)
      BY <2>1, <2>2 DEF Fresh, Calling
    <2>4. \A l \in Calling' : Behind(l)'
      BY <2>1, <2>2, <2>3 DEF Behind, StandingEpoch, View
    <2>5. SameKey'
      <3> SUFFICES ASSUME NEW l \in Calling', NEW n \in Calling', tx \notin {l, n}, key'[l] = key'[n]
                   PROVE  sees'[l] = sees'[n]
        BY <2>1 DEF SameKey
      <3>1. \A m \in Calling' : tx # m /\ key'[m] = epoch => sees'[m] = at
        BY <2>2, <2>3 DEF Behind, StandingEpoch, View
      <3>2. CASE key'[l] = epoch
        BY <3>1, <3>2
      <3>3. CASE key'[l] # epoch
        <4>1. l \in Calling /\ n \in Calling
          BY <2>2, <2>3, <3>3 DEF StandingEpoch
        <4> QED BY <2>3, <4>1 DEF Fresh, SameKey
      <3> QED BY <3>2, <3>3
    <2>6. HeldBehind'
      <3> SUFFICES ASSUME held # Nobody, NEW l \in Calling', key'[l] = held.key, NEW v \in held.value
                   PROVE  sees'[l] <= v
        BY <2>1 DEF Fresh, HeldBehind
      <3>1. CASE l = r
        <4>1. held.key <= epoch /\ held.key \in Nat
          BY DEF Fresh, HeldBehind
        <4>2. tx # r /\ held.key = epoch
          BY <2>3, <3>1, <4>1 DEF StandingEpoch
        <4> QED BY <2>3, <3>1, <4>2 DEF Fresh, HeldBehind, View
      <3>2. CASE l \in Calling
        BY <2>3, <3>2 DEF Fresh, HeldBehind
      <3> QED BY <2>2, <3>1, <3>2
    <2>7. ASSUME NEW l \in Readers
          PROVE  /\ pc'[l] \in {"reading", "computed"} => took'[l] # {}
                 /\ pc'[l] \in {"idle", "keyed", "waits", "began"} => took'[l] = {}
      BY <2>1, <2>3 DEF Fresh
    <2> QED BY <2>4, <2>5, <2>6, <2>7 DEF Fresh
  <1>6. ASSUME NEW r \in Readers, Hit(r) \/ ComputeRaises(r)
        PROVE  Fresh'
    <2>1. PICK rs \in SUBSET Readers : Clean(rs)
      BY <1>6 DEF Hit, ComputeRaises, Lands
    <2>2. UNCHANGED <<tx, at, epoch, writes, held>>
      BY <1>6 DEF Hit, ComputeRaises
    <2>3. /\ Calling' \subseteq Calling
          /\ HeldBehind' => Fresh'
          /\ \A l \in Calling' : key'[l] = key[l] /\ sees'[l] = sees[l]
      BY <2>1, <2>2, CallsEnd
    <2>4. HeldBehind'
      BY <2>2, <2>3 DEF Fresh, HeldBehind
    <2> QED BY <2>3, <2>4
  <1>7. ASSUME NEW r \in Readers, Join(r) \/ Lead(r)
        PROVE  Fresh'
    <2>1. /\ pc[r] = "keyed" /\ pc'[r] \in {"waits", "began"}
          /\ \A l \in Readers : l # r => pc'[l] = pc[l]
          /\ UNCHANGED <<key, sees, took, held, tx, at, epoch, writes>>
      BY <1>7 DEF Join, Lead
    <2>2. Calling' = Calling
      BY <2>1 DEF Calling
    <2>3. (\A l \in Calling' : Behind(l)') /\ SameKey' /\ HeldBehind'
      BY <2>1, <2>2 DEF Fresh, Behind, SameKey, HeldBehind
    <2>4. ASSUME NEW l \in Readers
          PROVE  /\ pc'[l] \in {"reading", "computed"} => took'[l] # {}
                 /\ pc'[l] \in {"idle", "keyed", "waits", "began"} => took'[l] = {}
      BY <2>1 DEF Fresh
    <2> QED BY <2>3, <2>4 DEF Fresh
  <1>8. ASSUME NEW r \in Readers, Compute(r)
        PROVE  Fresh'
    <2>1. /\ pc[r] \in {"began", "reading"} /\ pc'[r] \in {"reading", "computed"}
          /\ \A l \in Readers : l # r => pc'[l] = pc[l] /\ took'[l] = took[l]
          /\ took'[r] = took[r] \cup {View(r)}
          /\ UNCHANGED <<key, sees, held, tx, at, epoch, writes>>
      BY <1>8 DEF Compute
    <2>2. Calling' = Calling /\ r \in Calling
      BY <2>1 DEF Calling
    <2>3. SameKey' /\ HeldBehind'
      BY <2>1, <2>2 DEF Fresh, SameKey, HeldBehind
    <2>4. Behind(r)'
      <3>1. Behind(r)
        BY <2>2 DEF Fresh
      <3>2. CASE tx = r
        BY <2>1, <3>1, <3>2 DEF Behind, View
      <3>3. CASE tx # r
        BY <2>1, <3>1, <3>3 DEF Behind, View
      <3> QED BY <3>2, <3>3
    <2>5. ASSUME NEW l \in Calling, l # r PROVE Behind(l)'
      BY <2>1, <2>5 DEF Fresh, Behind, Calling
    <2>6. ASSUME NEW l \in Readers
          PROVE  /\ pc'[l] \in {"reading", "computed"} => took'[l] # {}
                 /\ pc'[l] \in {"idle", "keyed", "waits", "began"} => took'[l] = {}
      BY <2>1 DEF Fresh
    <2> QED BY <2>2, <2>3, <2>4, <2>5, <2>6 DEF Fresh
  <1>9. ASSUME NEW r \in Readers, Keep(r)
        PROVE  Fresh'
    <2>1. PICK rs \in SUBSET Readers : Clean(rs)
      BY <1>9 DEF Keep, Lands
    <2>2. UNCHANGED <<tx, at, epoch, writes>> /\ pc[r] = "computed"
      BY <1>9 DEF Keep
    <2>3. /\ Calling' \subseteq Calling
          /\ HeldBehind' => Fresh'
          /\ \A l \in Calling' : key'[l] = key[l] /\ sees'[l] = sees[l]
      BY <2>1, <2>2, CallsEnd
    <2>4. CASE held' = held
      BY <2>2, <2>3, <2>4 DEF Fresh, HeldBehind
    <2>5. CASE held' = [key |-> key[r], value |-> took[r]] /\ tx # r
      <3>1. r \in Calling /\ Behind(r) /\ took[r] # {}
        BY <2>2 DEF Fresh, Calling
      <3>2. /\ held'.key = key[r] /\ held'.value = took[r]
            /\ key[r] <= epoch /\ (\A v \in took[r] : sees[r] <= v /\ v <= at)
            /\ key[r] = epoch => sees[r] = at
        BY <2>5, <3>1 DEF Behind
      <3>3. key[r] = epoch => took[r] = {at}
        BY <3>1, <3>2
      <3>4. ASSUME NEW l \in Calling', key'[l] = key[r], NEW v \in took[r] PROVE sees'[l] <= v
        <4>1. l \in Calling /\ l \in Readers /\ key[l] = key[r] /\ Behind(l)
          BY <2>3, <3>4 DEF Fresh, Calling
        <4>2. tx # l
          BY <2>2, <3>2, <4>1 DEF Behind
        <4>3. sees[l] = sees[r]
          BY <2>5, <3>1, <4>1, <4>2 DEF Fresh, SameKey
        <4> QED BY <2>3, <3>2, <4>3
      <3>5. HeldBehind'
        BY <2>2, <3>2, <3>3, <3>4 DEF HeldBehind
      <3> QED BY <2>3, <3>5
    <2> QED BY <1>9, <2>4, <2>5 DEF Keep
  <1>10. CASE UNCHANGED vars
    <2>1. UNCHANGED <<pc, key, sees, took, held, tx, at, epoch, writes>>
      BY <1>10 DEF vars
    <2> QED BY <2>1, StoreMoves
  <1> QED BY <1>1, <1>2, <1>3, <1>4, <1>5, <1>6, <1>7, <1>8, <1>9, <1>10 DEF Next, Rebuilds, Goes

LEMMA FreshInit == Init => Fresh
  BY MemoAssumption DEF Init, Fresh, Calling, SameKey, HeldBehind

LEMMA FreshIsEnough ==
  ASSUME TypeOK, Ordered, Fresh
  PROVE  NothingOlder
  <1> USE MemoAssumption DEF TypeOK, Ordered, Versions, Keys
  <1> SUFFICES ASSUME NEW r \in Readers
               PROVE  /\ pc[r] = "keyed" /\ Hits(r) =>
                             /\ \A v \in held.value : v >= sees[r]
                             /\ StandingEpoch(r) = key[r] => held.value = {sees[r]}
                      /\ \A l \in Readers : pc[r] = "waits" /\ Leads(l, key[r]) =>
                             \A v \in took[l] : v >= sees[r]
    BY DEF NothingOlder
  <1>1. ASSUME pc[r] = "keyed", Hits(r)
        PROVE  /\ \A v \in held.value : v >= sees[r]
               /\ StandingEpoch(r) = key[r] => held.value = {sees[r]}
    <2>1. r \in Calling /\ Behind(r) /\ held # Nobody /\ held.key = key[r]
      BY <1>1 DEF Fresh, Calling, Hits
    <2>2. /\ held.key <= epoch /\ held.value \subseteq Nat
          /\ held.key = epoch => held.value = {at}
          /\ \A v \in held.value : sees[r] <= v
      BY <2>1 DEF Fresh, HeldBehind
    <2>3. tx # r /\ StandingEpoch(r) = epoch /\ (key[r] = epoch => sees[r] = at)
      BY <2>1, <2>2 DEF Behind, StandingEpoch
    <2> QED BY <2>1, <2>2, <2>3
  <1>2. ASSUME NEW l \in Readers, pc[r] = "waits", Leads(l, key[r]), NEW v \in took[l]
        PROVE  v >= sees[r]
    <2>1. l # r /\ l \in Calling /\ r \in Calling /\ key[l] = key[r] /\ Behind(l) /\ Behind(r)
      BY <1>2 DEF Fresh, Calling, Leads, Flying
    <2>2. tx # l /\ tx # r
      BY <2>1 DEF Behind
    <2>3. sees[l] = sees[r]
      BY <2>1, <2>2 DEF Fresh, SameKey
    <2> QED BY <2>1, <2>2, <2>3 DEF Behind
  <1> QED BY <1>1, <1>2

(* THEOREM: whatever others commit, roll back or rebuild meanwhile, a call  *)
(* of KeyedMemo.get is never answered with older rows than its caller saw,  *)
(* and from the memo with exactly those while they stand.                   *)
THEOREM NeverOlder == Spec => []NothingOlder
  <1>1. Init => TypeOK /\ Ordered /\ Fresh
    BY TypeInit, FreshInit
  <1>2. TypeOK /\ Ordered /\ Fresh /\ [Next]_vars => (TypeOK /\ Ordered /\ Fresh)'
    BY TypeStep, FreshStep
  <1>3. TypeOK /\ Ordered /\ Fresh => NothingOlder
    BY FreshIsEnough
  <1> QED BY <1>1, <1>2, <1>3, PTL DEF Spec

(***************************************************************************)
(* What a computation has read, against the rebuilds it met.                *)
(***************************************************************************)

Working == {"begun", "replaying", "over"}

(* A half-built version is current, or in hand, only during a replay; the   *)
(* lease is live from before it to after it, and its run is later than that *)
(* of every computation that began without a rebuild.                       *)
Announced ==
    /\ rpc \in Working \cup {"leased"} => lease
    /\ kind[at] = "half" => rpc = "replaying"
    /\ tx # Nobody /\ kind[writes] = "half" => rpc = "replaying"

Met(r) ==
    /\ began[r] \in [held : BOOLEAN, marks : Marks]
    /\ began[r].marks.run <= marks.run
    /\ ~began[r].held =>
          /\ rpc \in Working => began[r].marks.run < marks.run
          /\ \A v \in took[r] : kind[v] = "half" => began[r].marks.run < marks.run

Whole ==
    /\ Announced
    /\ \A r \in Readers : pc[r] \in Flying => Met(r)
    /\ \A r \in Readers : \A v \in took[r] : v <= writes
    /\ held # Nobody => \A v \in held.value : v <= writes
    /\ KeptWhole

(* A version that is written changes none that was read.                    *)
LEMMA WriteStep ==
  ASSUME TypeOK, Ordered, Whole, NEW quality \in {"whole", "half", "left"}, Version(quality),
         UNCHANGED <<marks, lease, pc, took, began, held>>,
         rpc' = rpc \/ (rpc = "begun" /\ rpc' = "replaying") \/ (rpc = "replaying" /\ rpc' = "over"),
         quality = "half" => rpc' = "replaying",
         \/ at' = writes' /\ tx' = tx
         \/ at' = at /\ rpc' = rpc
  PROVE  Whole'
  <1> USE MemoAssumption DEF TypeOK, Ordered, Versions
  <1>1. /\ writes' = writes + 1 /\ writes' \in Versions /\ tx = Nobody /\ kind'[writes'] = quality
        /\ \A v \in 0..writes : kind'[v] = kind[v]
    BY DEF Version
  <1>2. Announced'
    BY <1>1 DEF Whole, Announced, Working
  <1>3. ASSUME NEW r \in Readers, pc[r] \in Flying PROVE Met(r)'
    BY <1>1, <1>3 DEF Whole, Met, Working
  <1>4. \A r \in Readers : \A v \in took'[r] : v <= writes'
    BY <1>1 DEF Whole
  <1>5. held' # Nobody => \A v \in held'.value : v <= writes'
    BY <1>1 DEF Whole
  <1>6. KeptWhole'
    BY <1>1 DEF Whole, KeptWhole
  <1> QED BY <1>2, <1>3, <1>4, <1>5, <1>6 DEF Whole

LEMMA WholeStep ==
  ASSUME TypeOK, Ordered, Fresh, Whole, [Next]_vars
  PROVE  Whole'
  <1> USE MemoAssumption DEF TypeOK, Ordered, Versions, Step, store, rebuild, calls, RebuildStep
  <1>1. CASE Write
    <2>1. Version(kind[at]) /\ kind[at] \in {"whole", "half", "left"} /\ at' = writes'
      BY <1>1 DEF Write, Commit
    <2>2. kind[at] = "half" => rpc' = "replaying"
      BY <1>1 DEF Write, Whole, Announced
    <2> QED BY <1>1, <2>1, <2>2, WriteStep DEF Write
  <1>2. CASE Wipe \/ FinishReplay
    BY <1>2, WriteStep DEF Wipe, FinishReplay, Commit
  <1>3. CASE TakeRebuildLease \/ WriteRunning \/ ReleaseRebuildLease \/ WriteDone \/ Lapse
    BY <1>3 DEF TakeRebuildLease, WriteRunning, ReleaseRebuildLease, WriteDone, Lapse,
                Whole, Announced, Met, Working, KeptWhole, Marks
  <1>4. CASE RebuildRaises
    BY <1>4 DEF RebuildRaises, Abandoned, Whole, Announced, Met, Working, KeptWhole
  <1>5. CASE Restart
    BY <1>5 DEF Restart, Clean, Abandoned, Whole, Announced, Met, Working, KeptWhole, Flying
  <1>6. ASSUME NEW r \in Readers, WriteInHand(r)
        PROVE  Whole'
    <2>1. Version(kind[at]) /\ kind[at] \in {"whole", "half", "left"} /\ at' = at
      BY <1>6 DEF WriteInHand
    <2>2. kind[at] = "half" => rpc' = "replaying"
      BY <1>6 DEF WriteInHand, Whole, Announced
    <2> QED BY <1>6, <2>1, <2>2, WriteStep DEF WriteInHand
  <1>7. ASSUME NEW r \in Readers, CommitInHand(r) \/ RollBack(r)
        PROVE  Whole'
    BY <1>7 DEF CommitInHand, RollBack, Whole, Announced, Met, KeptWhole
  <1>8. ASSUME NEW r \in Readers, ReadKey(r) \/ Join(r)
        PROVE  Whole'
    BY <1>8 DEF ReadKey, Join, Whole, Announced, Met, KeptWhole, Flying
  <1>9. ASSUME NEW r \in Readers, Hit(r) \/ ComputeRaises(r)
        PROVE  Whole'
    <2>1. PICK rs \in SUBSET Readers : Clean(rs)
      BY <1>9 DEF Hit, ComputeRaises, Lands
    <2> QED BY <1>9, <2>1 DEF Hit, ComputeRaises, Clean, Whole, Announced, Met, KeptWhole, Flying
  <1>10. ASSUME NEW r \in Readers, Lead(r)
        PROVE  Whole'
    <2>1. took[r] = {}
      BY <1>10 DEF Lead, Fresh
    <2>2. /\ began'[r] = [held |-> lease, marks |-> marks] /\ pc' = [pc EXCEPT ![r] = "began"]
          /\ \A l \in Readers : l # r => began'[l] = began[l]
          /\ UNCHANGED <<store, tx, rebuild, held, took>>
      BY <1>10 DEF Lead, RebuildEpoch
    <2>3. marks.run \in Nat
      BY DEF Marks
    <2>4. Met(r)'
      BY <2>1, <2>2, <2>3 DEF Whole, Announced, Met, Working
    <2>5. ASSUME NEW l \in Readers, l # r, pc'[l] \in Flying PROVE Met(l)'
      BY <2>2, <2>5 DEF Whole, Met
    <2> QED BY <2>2, <2>4, <2>5 DEF Whole, Announced, KeptWhole
  <1>11. ASSUME NEW r \in Readers, Compute(r)
        PROVE  Whole'
    <2>1. View(r) <= writes /\ (kind[View(r)] = "half" => rpc = "replaying")
      BY DEF View, Whole, Announced
    <2> QED BY <1>11, <2>1 DEF Compute, Whole, Announced, Met, Working, KeptWhole, Flying
  <1>12. ASSUME NEW r \in Readers, Keep(r)
        PROVE  Whole'
    <2>1. PICK rs \in SUBSET Readers : Clean(rs)
      BY <1>12 DEF Keep, Lands
    <2>2. /\ \A l \in Readers \ rs : pc'[l] = pc[l] /\ took'[l] = took[l] /\ began'[l] = began[l]
          /\ \A l \in rs : pc'[l] = "idle" /\ took'[l] = {}
      BY <2>1 DEF Clean
    <2>3. Settled(r) => \A v \in took[r] : kind[v] # "half"
      <3>1. Met(r)
        BY <1>12 DEF Keep, Whole, Flying
      <3>2. Settled(r) => ~began[r].held /\ began[r].marks = marks
        BY DEF Settled, RebuildEpoch
      <3>3. marks.run \in Nat
        BY DEF Marks
      <3> QED BY <3>1, <3>2, <3>3 DEF Met
    <2>4. KeptWhole'
      BY <1>12, <2>3 DEF Keep, Whole, KeptWhole
    <2> QED BY <1>12, <2>2, <2>4 DEF Keep, Whole, Announced, Met, Flying
  <1>13. CASE UNCHANGED vars
    BY <1>13 DEF vars, Whole, Announced, Met, KeptWhole
  <1> QED BY <1>1, <1>2, <1>3, <1>4, <1>5, <1>6, <1>7, <1>8, <1>9, <1>10, <1>11, <1>12, <1>13
          DEF Next, Rebuilds, Goes

LEMMA WholeInit == Init => Whole
  BY MemoAssumption DEF Init, Whole, Announced, Working, KeptWhole, Flying, Versions

(* THEOREM: a value KeyedMemo keeps was not read from a layer that a rebuild*)
(* had half built, unless a dead rebuild left it so.                        *)
THEOREM NothingHalfKept == Spec => []KeptWhole
  <1>1. Init => TypeOK /\ Ordered /\ Fresh /\ Whole
    BY TypeInit, FreshInit, WholeInit
  <1>2. TypeOK /\ Ordered /\ Fresh /\ Whole /\ [Next]_vars
            => (TypeOK /\ Ordered /\ Fresh /\ Whole)'
    BY TypeStep, FreshStep, WholeStep
  <1>3. Whole => KeptWhole
    BY DEF Whole
  <1> QED BY <1>1, <1>2, <1>3, PTL DEF Spec
=============================================================================
