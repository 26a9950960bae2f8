---------------------------- MODULE StandingMemo ----------------------------
(***************************************************************************)
(* A value worked out from the whole store and shared by the requests of    *)
(* the web process (verify/standing_data.py KeyedMemo), while pages, the    *)
(* scheduler and a rebuild write the store under it.  It is keyed by the    *)
(* standing epoch, which triggers move in the transaction of every write    *)
(* (store.py EPOCH_TABLES).  The rows are reduced to a version: what one    *)
(* commit left there; a computation reads them in more than one statement,  *)
(* and so of more than one version.                                         *)
(***************************************************************************)
EXTENDS Naturals

CONSTANTS Readers,       \* request threads
          Nobody,        \* no thread writes; nothing is held
          MaxWrites,     \* bound: versions
          MaxFaults      \* bound: computations, replays and processes that fail

Versions == 0..MaxWrites
Keys == 0..MaxWrites

ASSUME MemoAssumption ==
    Nobody \notin Readers /\ MaxWrites \in Nat /\ MaxFaults \in Nat

VARIABLES epoch,     \* the committed standing_epoch
          at,        \* the committed version
          writes,    \* the last version anybody wrote
          kind,      \* of each version: "whole", "half" built, or "left" half-built
          tx,        \* the reader with a write of its own not yet committed
          lease,     \* the rebuild-derived lease is live
          marks,     \* rebuild-status.json: [state, run]
          rpc,       \* where the rebuild is
          held,      \* the memo: [key, value], or Nobody
          pc, key,   \* where each reader's call is, and its key
          sees,      \* the version behind that key
          took,      \* the versions its computation has read
          began,     \* the rebuild's epoch when the computation began
          faults

store == <<epoch, at, writes, kind>>
rebuild == <<lease, marks, rpc>>
calls == <<pc, key, sees, took, began>>
vars == <<store, tx, rebuild, held, calls, faults>>

Flying == {"began", "reading", "computed"}
Step(r, from, to) == pc[r] = from /\ pc' = [pc EXCEPT ![r] = to]
Fault == faults < MaxFaults /\ faults' = faults + 1

\* A connection with a write in hand sees it, epoch and all.
View(r) == IF tx = r THEN writes ELSE at
StandingEpoch(r) == IF tx = r THEN epoch + 1 ELSE epoch
Marks == [state : {"running", "done"}, run : Nat]
RebuildEpoch == [held |-> lease, marks |-> marks]

----------------------------------------------------------------------------
\* Writers: one transaction at a time.

Version(quality) ==
    /\ tx = Nobody /\ writes < MaxWrites
    /\ writes' = writes + 1
    /\ kind' = [kind EXCEPT ![writes'] = quality]
Commit(quality) == Version(quality) /\ at' = writes' /\ epoch' = epoch + 1

\* The scheduler, a shell or a page writes and commits.
Write ==
    /\ Commit(kind[at])
    /\ UNCHANGED <<tx, rebuild, held, calls, faults>>

\* A request writes and goes on reading before it commits.
WriteInHand(r) ==
    /\ pc[r] = "idle"
    /\ Version(kind[at]) /\ tx' = r
    /\ UNCHANGED <<epoch, at, rebuild, held, calls, faults>>

CommitInHand(r) ==
    /\ tx = r /\ pc[r] = "idle"
    /\ tx' = Nobody /\ at' = writes /\ epoch' = epoch + 1
    /\ UNCHANGED <<writes, kind, rebuild, held, calls, faults>>

\* The transaction is rolled back, and the epoch with it.
RollBack(r) ==
    /\ tx = r /\ pc[r] = "idle"
    /\ tx' = Nobody
    /\ UNCHANGED <<store, rebuild, held, calls, faults>>

----------------------------------------------------------------------------
\* The rebuild (cli.start_background_rebuild, ingest/rebuild.py).

RebuildStep(from, to) == rpc = from /\ rpc' = to

TakeRebuildLease ==
    /\ RebuildStep("idle", "leased") /\ ~lease /\ lease' = TRUE
    /\ UNCHANGED <<store, tx, marks, held, calls, faults>>

WriteRunning ==
    /\ RebuildStep("leased", "begun")
    /\ marks' = [state |-> "running", run |-> marks.run + 1]
    /\ UNCHANGED <<store, tx, lease, held, calls, faults>>

Wipe ==
    /\ RebuildStep("begun", "replaying") /\ Commit("half")
    /\ UNCHANGED <<tx, lease, marks, held, calls, faults>>

FinishReplay ==
    /\ RebuildStep("replaying", "over") /\ Commit("whole")
    /\ UNCHANGED <<tx, lease, marks, held, calls, faults>>

\* A half-built layer nobody works on any more stands as it is, with a write
\* that is in hand over it.
Abandoned == kind' = [v \in Versions |->
    IF v \in {at, writes} /\ kind[v] = "half" THEN "left" ELSE kind[v]]

RebuildRaises ==
    /\ RebuildStep("replaying", "over") /\ Fault /\ Abandoned
    /\ UNCHANGED <<epoch, at, writes, tx, lease, marks, held, calls>>

ReleaseRebuildLease ==
    /\ RebuildStep("over", "unlocked") /\ lease' = FALSE
    /\ UNCHANGED <<store, tx, marks, held, calls, faults>>

WriteDone ==
    /\ RebuildStep("unlocked", "idle") /\ marks' = [marks EXCEPT !.state = "done"]
    /\ UNCHANGED <<store, tx, lease, held, calls, faults>>

\* The time to live of a dead rebuild's lease runs out.
Lapse ==
    /\ lease /\ rpc = "idle" /\ lease' = FALSE
    /\ UNCHANGED <<store, tx, marks, rpc, held, calls, faults>>

----------------------------------------------------------------------------
\* KeyedMemo.get.

ReadKey(r) ==
    /\ Step(r, "idle", "keyed")
    /\ key' = [key EXCEPT ![r] = StandingEpoch(r)] /\ sees' = [sees EXCEPT ![r] = View(r)]
    /\ UNCHANGED <<store, tx, rebuild, held, took, began, faults>>

Leads(l, k) == pc[l] \in Flying /\ key[l] = k
Hits(r) == held # Nobody /\ held.key = key[r]

\* What a call that is through leaves behind.
Clean(rs) ==
    /\ pc' = [r \in Readers |-> IF r \in rs THEN "idle" ELSE pc[r]]
    /\ key' = [r \in Readers |-> IF r \in rs THEN 0 ELSE key[r]]
    /\ sees' = [r \in Readers |-> IF r \in rs THEN 0 ELSE sees[r]]
    /\ took' = [r \in Readers |-> IF r \in rs THEN {} ELSE took[r]]
    /\ began' = [r \in Readers |-> IF r \in rs THEN Nobody ELSE began[r]]

Hit(r) ==
    /\ pc[r] = "keyed" /\ Hits(r)
    /\ Clean({r})
    /\ UNCHANGED <<store, tx, rebuild, held, faults>>

Join(r) ==
    /\ ~Hits(r) /\ \E l \in Readers : Leads(l, key[r])
    /\ Step(r, "keyed", "waits")
    /\ UNCHANGED <<store, tx, rebuild, held, key, sees, took, began, faults>>

\* The leader of a flight looks for a rebuild before it computes.
Lead(r) ==
    /\ ~Hits(r) /\ ~\E l \in Readers : Leads(l, key[r])
    /\ Step(r, "keyed", "began")
    /\ began' = [began EXCEPT ![r] = RebuildEpoch]
    /\ UNCHANGED <<store, tx, rebuild, held, key, sees, took, faults>>

\* The computation's first and last statement.
Compute(r) ==
    /\ Step(r, "began", "reading") \/ Step(r, "reading", "computed")
    /\ took' = [took EXCEPT ![r] = @ \cup {View(r)}]
    /\ UNCHANGED <<store, tx, rebuild, held, key, sees, began, faults>>

\* finally: the flight goes, and those who wait take its value or its error.
Lands(r) == Clean({r} \cup {w \in Readers : pc[w] = "waits" /\ key[w] = key[r]})

ComputeRaisesAlone(r) ==   \* mutant: nobody is woken after an error
    /\ pc[r] \in {"began", "reading"} /\ Fault /\ Clean({r})
    /\ UNCHANGED <<store, tx, rebuild, held>>

ComputeRaises(r) ==
    /\ pc[r] \in {"began", "reading"} /\ Fault /\ Lands(r)
    /\ UNCHANGED <<store, tx, rebuild, held>>

Settled(r) == ~began[r].held /\ began[r] = RebuildEpoch

KeepOfAnyRebuild(r) ==     \* mutant: no rebuild is looked for
    /\ pc[r] = "computed" /\ Lands(r)
    /\ held' = IF tx # r THEN [key |-> key[r], value |-> took[r]] ELSE held
    /\ UNCHANGED <<store, tx, rebuild, faults>>

KeepInHand(r) ==           \* mutant: kept from inside a transaction
    /\ pc[r] = "computed" /\ Lands(r)
    /\ held' = IF Settled(r) THEN [key |-> key[r], value |-> took[r]] ELSE held
    /\ UNCHANGED <<store, tx, rebuild, faults>>

\* Kept where no rebuild met the computation and no write of the caller's own
\* may still be rolled back.
Keep(r) ==
    /\ pc[r] = "computed" /\ Lands(r)
    /\ held' = IF Settled(r) /\ tx # r THEN [key |-> key[r], value |-> took[r]] ELSE held
    /\ UNCHANGED <<store, tx, rebuild, faults>>

----------------------------------------------------------------------------
\* The web process goes, with its calls, its memo, its open transaction and
\* its rebuild, and is started again.
Restart ==
    /\ Fault
    /\ Clean(Readers) /\ held' = Nobody /\ tx' = Nobody
    /\ rpc' = "idle" /\ Abandoned
    /\ UNCHANGED <<epoch, at, writes, lease, marks>>

Init ==
    /\ epoch = 0 /\ at = 0 /\ writes = 0 /\ kind = [v \in Versions |-> "whole"]
    /\ tx = Nobody /\ held = Nobody /\ faults = 0
    /\ lease = FALSE /\ marks = [state |-> "done", run |-> 0] /\ rpc = "idle"
    /\ pc = [r \in Readers |-> "idle"] /\ key = [r \in Readers |-> 0]
    /\ sees = [r \in Readers |-> 0] /\ took = [r \in Readers |-> {}]
    /\ began = [r \in Readers |-> Nobody]

Rebuilds ==
    \/ TakeRebuildLease \/ WriteRunning \/ Wipe \/ FinishReplay \/ RebuildRaises
    \/ ReleaseRebuildLease \/ WriteDone \/ Lapse
Goes(r) == Hit(r) \/ Join(r) \/ Lead(r) \/ Compute(r) \/ Keep(r)
Next ==
    \/ Write \/ Rebuilds \/ Restart
    \/ \E r \in Readers :
          \/ WriteInHand(r) \/ CommitInHand(r) \/ RollBack(r)
          \/ ReadKey(r) \/ Goes(r) \/ ComputeRaises(r)

Spec == Init /\ [][Next]_vars

\* Request threads run on; nothing makes anybody write or rebuild.
FairSpec == Spec /\ \A r \in Readers : WF_vars(Goes(r))

----------------------------------------------------------------------------
\* Properties.

\* Every variable stays within its type.
TypeOK ==
    /\ epoch \in 0..writes /\ writes \in Versions /\ at \in 0..writes
    /\ kind \in [Versions -> {"whole", "half", "left"}]
    /\ tx \in Readers \cup {Nobody} /\ lease \in BOOLEAN
    /\ marks \in Marks
    /\ rpc \in {"idle", "leased", "begun", "replaying", "over", "unlocked"}
    /\ held \in [key : Keys, value : SUBSET Versions] \cup {Nobody}
    /\ pc \in [Readers -> Flying \cup {"idle", "keyed", "waits"}]
    /\ key \in [Readers -> Keys] /\ sees \in [Readers -> Versions]
    /\ took \in [Readers -> SUBSET Versions]
    /\ began \in [Readers -> [held : BOOLEAN, marks : Marks] \cup {Nobody}]
    /\ faults \in 0..MaxFaults

\* A call is answered with what its caller saw or with later rows, never with
\* earlier ones; and while the store is as the caller saw it, the memo answers
\* with that version alone, through commits of other processes, rollbacks and
\* computations that read across a commit (KeyedMemo: "a page never shows a
\* state older than the rows beneath it").
NothingOlder ==
    \A r \in Readers :
        /\ pc[r] = "keyed" /\ Hits(r) =>
               /\ \A v \in held.value : v >= sees[r]
               /\ StandingEpoch(r) = key[r] => held.value = {sees[r]}
        /\ \A l \in Readers : pc[r] = "waits" /\ Leads(l, key[r]) =>
               \A v \in took[l] : v >= sees[r]

\* A value read from a layer that a rebuild has half built is not kept, unless
\* that is how a dead rebuild left it (KeyedMemo.get: kept "only if no rebuild
\* held the layer when it began and none began or ended while it ran").
KeptWhole == held # Nobody => \A v \in held.value : kind[v] # "half"

\* Every call ends: whoever waits for a computation gets its value or error.
EveryCallEnds == \A r \in Readers : pc[r] # "idle" ~> pc[r] = "idle"
=============================================================================
