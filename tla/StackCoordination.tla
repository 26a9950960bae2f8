------------------------- MODULE StackCoordination -------------------------
(***************************************************************************)
(* The processes that share one store, and what keeps them apart:          *)
(*   - the web process: presses of "Rebuild from raw" and the check made   *)
(*     at startup (cli.start_background_rebuild, cli.serve), and the       *)
(*     attended fetches and post-authorisation backfills of its pages;     *)
(*   - the scheduler's pull cycle (cli._pull_everything);                  *)
(*   - `obdi rebuild --yes` from a shell (cli.main);                       *)
(*   - deploys, which restart the web process under new code (external).   *)
(* Each lease is reduced to what a reader learns of its file; the rebuild  *)
(* lease, which presses race for, is taken in the steps of                 *)
(* leases.acquire_exclusive.  rebuild-status.json, the fingerprint stamp   *)
(* and the derived layer are the state the leases are there to protect.    *)
(***************************************************************************)
EXTENDS Naturals, FiniteSets

CONSTANTS Presses,     \* request threads that start a rebuild
          Shells,      \* `obdi rebuild` runs: no lease, no status file
          MayLapse,    \* leases whose TTL may run out under a living holder
          MayFail,     \* whether a replay may raise after the wipe
          Beside       \* whether a shell's rebuild and the web's may overlap

Rebuild == "rebuild-derived"
Pull == "pull-cycle"
Backfill == "post-auth-backfill"
Update == "stack-update"
Leases == {Rebuild, Pull, Backfill, Update}

Rebuilders == Presses \cup Shells

ASSUME ApartAssumption == Presses \cap Shells = {}
ASSUME LapseAssumption == MayLapse \subseteq Leases /\ MayFail \in BOOLEAN /\ Beside \in BOOLEAN

VARIABLES lease,      \* each lease file: "none", "live", or "stale" (expired,
                      \* or created and not yet written)
          status,     \* rebuild-status.json: its state, or "failed" for done, not ok
          stamp,      \* derived_code_fingerprint: "none", this code's or older code's
          derived,    \* the derived layer: replayed by this code, by older code,
                      \* or only a part of the raw layer replayed, by the web
                      \* process ("part") or from a shell ("hand")
          diverged,   \* a replay's in-memory index no longer matches the rows
          webUp,      \* the web process is serving
          rpc,        \* where each rebuilder is
          ppc,        \* where the scheduler's pull cycle is
          apc         \* where the attended fetch or backfill is

vars == <<lease, status, stamp, derived, diverged, webUp, rpc, ppc, apc>>

LiveUntilReleased(name) == lease[name] # "none"     \* mutant: the TTL is ignored
Live(name) == lease[name] = "live"
Leased(name) == [lease EXCEPT ![name] = "live"]
Released(name) == [lease EXCEPT ![name] = "none"]

Acquiring == {"asked", "exists", "clears", "retries", "existsagain", "clearsagain",
              "created", "orphaned"}
InProgress == {"leased", "begun", "invalidated", "replaying", "replayed"}
Ending == {"stamped", "failing", "unlocked", "unlockedfailed"}
Step(r, from, to) == rpc[r] = from /\ rpc' = [rpc EXCEPT ![r] = to]
Replaying(r) == rpc[r] = "replaying"
HalfBuilt(r) == IF r \in Shells THEN "hand" ELSE "part"

(* The person at the shell waits for the web's rebuild, and it for them.   *)
KeepsApart(others) == Beside \/ \A o \in others : rpc[o] = "idle"

Init ==
    /\ lease = [n \in Leases |-> "none"]
    /\ status \in {"none", "done"}
    /\ stamp = "none" /\ derived = "older"
    /\ diverged = FALSE
    /\ webUp = FALSE
    /\ rpc = [r \in Rebuilders |-> "idle"]
    /\ ppc = "idle"
    /\ apc = "idle"

-----------------------------------------------------------------------------
(* start_background_rebuild: the request thread, then the thread it starts *)

(* The pull-cycle check comes first, in a file read of its own.            *)
Press(r) ==
    /\ webUp
    /\ KeepsApart(Shells)
    /\ ~Live(Pull)
    /\ Step(r, "idle", "asked")
    /\ UNCHANGED <<lease, status, stamp, derived, diverged, webUp, ppc, apc>>

(* The file is unlinked or replaced: one that another press has created    *)
(* and not yet written is no longer under the name.                        *)
Displaced(r, to) ==
    rpc' = [o \in Rebuilders |-> CASE o = r -> to
                                   [] o # r /\ rpc[o] = "created" -> "orphaned"
                                   [] OTHER -> rpc[o]]

(* os.open with O_CREAT and O_EXCL, twice at most: the file is there, but  *)
(* reads as no lease until it is written ...                               *)
CreateRebuildLease(r) ==
    /\ lease[Rebuild] = "none"
    /\ Step(r, "asked", "created") \/ Step(r, "retries", "created")
    /\ lease' = [lease EXCEPT ![Rebuild] = "stale"]
    /\ UNCHANGED <<status, stamp, derived, diverged, webUp, ppc, apc>>

WriteRebuildLease(r) ==
    /\ \/ Step(r, "created", "leased") /\ lease' = Leased(Rebuild)
       \/ Step(r, "orphaned", "leased") /\ UNCHANGED lease
    /\ UNCHANGED <<status, stamp, derived, diverged, webUp, ppc, apc>>

(* ... or there is a file already, which is read ...                       *)
FindRebuildLease(r) ==
    /\ lease[Rebuild] # "none"
    /\ Step(r, "asked", "exists") \/ Step(r, "retries", "existsagain")
    /\ UNCHANGED <<lease, status, stamp, derived, diverged, webUp, ppc, apc>>

AlreadyRunning(r) ==
    /\ Live(Rebuild)
    /\ Step(r, "exists", "idle") \/ Step(r, "existsagain", "idle")
    /\ UNCHANGED <<lease, status, stamp, derived, diverged, webUp, ppc, apc>>

(* ... and, if it is no live lease, unlinked by its name.                  *)
ReadDeadLease(r) ==
    /\ ~Live(Rebuild)
    /\ Step(r, "exists", "clears") \/ Step(r, "existsagain", "clearsagain")
    /\ UNCHANGED <<lease, status, stamp, derived, diverged, webUp, ppc, apc>>

UnlinkDeadLease(r) ==
    /\ \/ rpc[r] = "clears" /\ Displaced(r, "retries")
       \/ rpc[r] = "clearsagain" /\ Displaced(r, "idle")
    /\ lease' = Released(Rebuild)
    /\ UNCHANGED <<status, stamp, derived, diverged, webUp, ppc, apc>>

BeginUnannounced(r) ==     \* mutant: no status before the work starts
    /\ Step(r, "leased", "begun")
    /\ UNCHANGED <<status, lease, stamp, derived, diverged, webUp, ppc, apc>>

WriteRunning(r) ==
    /\ Step(r, "leased", "begun")
    /\ status' = "running"
    /\ UNCHANGED <<lease, stamp, derived, diverged, webUp, ppc, apc>>

(* `obdi rebuild --yes` goes straight to rebuild_from_raw.                 *)
RunInShell(r) ==
    /\ KeepsApart(Rebuilders)
    /\ Step(r, "idle", "begun")
    /\ UNCHANGED <<lease, status, stamp, derived, diverged, webUp, ppc, apc>>

KeepStamp(r) ==            \* mutant: the old claim stands during the rebuild
    /\ Step(r, "begun", "invalidated")
    /\ UNCHANGED <<lease, stamp, status, derived, diverged, webUp, ppc, apc>>

(* invalidate_fingerprint commits before the deletes do.                   *)
Invalidate(r) ==
    /\ Step(r, "begun", "invalidated")
    /\ stamp' = "none"
    /\ UNCHANGED <<lease, status, derived, diverged, webUp, ppc, apc>>

Wipe(r) ==
    /\ Step(r, "invalidated", "replaying")
    /\ derived' = HalfBuilt(r)
    /\ diverged' = \E o \in Rebuilders \ {r} : Replaying(o)
    /\ UNCHANGED <<lease, status, stamp, webUp, ppc, apc>>

(* on_progress rewrites the status and, once a minute, renews the lease.   *)
Progress(r) ==
    /\ r \in Presses
    /\ Replaying(r)
    /\ status' = "running"
    /\ \/ lease' = Leased(Rebuild) /\ Displaced(r, rpc[r])
       \/ UNCHANGED <<lease, rpc>>
    /\ UNCHANGED <<stamp, derived, diverged, webUp, ppc, apc>>

(* The layer is whole when nobody else wiped it under this replay.         *)
FinishReplay(r) ==
    /\ Step(r, "replaying", "replayed")
    /\ derived' = IF \E o \in Rebuilders \ {r} : Replaying(o) THEN HalfBuilt(r) ELSE "this"
    /\ UNCHANGED <<lease, status, stamp, diverged, webUp, ppc, apc>>

StampFingerprint(r) ==
    /\ Step(r, "replayed", IF r \in Shells THEN "idle" ELSE "stamped")
    /\ stamp' = "this"
    /\ UNCHANGED <<lease, status, derived, diverged, webUp, ppc, apc>>

(* The replay raises: a write refused, a locked database, a full volume.   *)
RebuildRaises(r) ==
    /\ MayFail
    /\ \E from \in {"begun", "invalidated", "replaying", "replayed"} :
          Step(r, from, IF r \in Shells THEN "idle" ELSE "failing")
    /\ UNCHANGED <<lease, status, stamp, derived, diverged, webUp, ppc, apc>>

(* finally: the lease goes first, the status after it.                     *)
ReleaseRebuildLease(r) ==
    /\ \/ rpc[r] = "stamped" /\ Displaced(r, "unlocked")
       \/ rpc[r] = "failing" /\ Displaced(r, "unlockedfailed")
    /\ lease' = Released(Rebuild)
    /\ UNCHANGED <<status, stamp, derived, diverged, webUp, ppc, apc>>

WriteUnknownState(r) ==    \* mutant: a state no reader of the file knows
    /\ \E from \in {"unlocked", "unlockedfailed"} : Step(r, from, "idle")
    /\ status' = "error"
    /\ UNCHANGED <<lease, stamp, derived, diverged, webUp, ppc, apc>>

WriteDone(r) ==
    /\ \/ Step(r, "unlocked", "idle") /\ status' = "done"
       \/ Step(r, "unlockedfailed", "idle") /\ status' = "failed"
    /\ UNCHANGED <<lease, stamp, derived, diverged, webUp, ppc, apc>>

-----------------------------------------------------------------------------
(* The pull cycle                                                          *)

(* Another holder's writes meet a replay under way: the rows it commits    *)
(* are not in the replay's candidate index.                                *)
WritesBeside == diverged' = (diverged \/ \E r \in Rebuilders : Replaying(r))

(* scheduled_pull_skip_reason found nothing in the way ...                 *)
ScheduledClearance ==
    /\ ppc = "idle"
    /\ ~Live(Update) /\ ~Live(Rebuild) /\ ~Live(Backfill)
    /\ ppc' = "cleared"
    /\ UNCHANGED <<lease, status, stamp, derived, diverged, webUp, rpc, apc>>

(* ... and the cycle takes its lease, by plain acquire, some time later.   *)
TakePullLease ==
    /\ ppc = "cleared"
    /\ ppc' = "pulling"
    /\ lease' = Leased(Pull)
    /\ UNCHANGED <<status, stamp, derived, diverged, webUp, rpc, apc>>

PullWrites ==
    /\ ppc = "pulling"
    /\ WritesBeside
    /\ UNCHANGED <<lease, status, stamp, derived, webUp, rpc, ppc, apc>>

EndPull ==
    /\ ppc = "pulling"
    /\ ppc' = "idle"
    /\ lease' = Released(Pull)
    /\ UNCHANGED <<status, stamp, derived, diverged, webUp, rpc, apc>>

CrashPull ==
    /\ ppc # "idle"
    /\ ppc' = "idle"
    /\ UNCHANGED <<lease, status, stamp, derived, diverged, webUp, rpc, apc>>

-----------------------------------------------------------------------------
(* Attended fetches and backfills: one lease between them                  *)

(* busy_note: rebuild_in_progress_note, the guard of every action that     *)
(* reads or moves derived rows.                                            *)
Busy == Live(Rebuild) \/ status = "running"

AttendedClearance ==
    /\ webUp
    /\ apc = "idle"
    /\ ~Busy /\ ~Live(Update) /\ ~Live(Pull)
    /\ apc' = "cleared"
    /\ UNCHANGED <<lease, status, stamp, derived, diverged, webUp, rpc, ppc>>

(* start_backfill waits a minute for the pull cycle and then goes on,      *)
(* whatever it found; it asks nothing about a rebuild.                     *)
BackfillClearance ==
    /\ webUp
    /\ apc = "idle"
    /\ apc' = "cleared"
    /\ UNCHANGED <<lease, status, stamp, derived, diverged, webUp, rpc, ppc>>

TakeBackfillLease ==
    /\ apc = "cleared"
    /\ \/ ~Live(Backfill) /\ apc' = "fetching" /\ lease' = Leased(Backfill)
       \/ Live(Backfill) /\ apc' = "idle" /\ UNCHANGED lease
    /\ UNCHANGED <<status, stamp, derived, diverged, webUp, rpc, ppc>>

AttendedWrites ==
    /\ apc = "fetching"
    /\ WritesBeside
    /\ lease' \in {lease, Leased(Backfill)}
    /\ UNCHANGED <<status, stamp, derived, webUp, rpc, ppc, apc>>

EndAttended ==
    /\ apc = "fetching"
    /\ apc' = "idle"
    /\ lease' = Released(Backfill)
    /\ UNCHANGED <<status, stamp, derived, diverged, webUp, rpc, ppc>>

-----------------------------------------------------------------------------
(* Restarts, deploys, the clock                                            *)

(* The container goes: every thread of the web process goes with it.       *)
CrashWeb ==
    /\ webUp
    /\ webUp' = FALSE
    /\ rpc' = [r \in Rebuilders |-> IF r \in Presses THEN "idle" ELSE rpc[r]]
    /\ apc' = "idle"
    /\ UNCHANGED <<lease, status, stamp, derived, diverged, ppc>>

(* serve: rebuild_needed starts the ordinary background rebuild, once.     *)
StartWeb(r) ==
    /\ ~webUp
    /\ KeepsApart(Shells)
    /\ webUp' = TRUE
    /\ rpc' = [rpc EXCEPT ![r] = IF stamp # "this" /\ ~Live(Pull) THEN "asked" ELSE "idle"]
    /\ UNCHANGED <<lease, status, stamp, derived, diverged, ppc, apc>>

(* New code arrives while nothing runs: what was current no longer is.     *)
Deploy ==
    /\ ~webUp
    /\ \A r \in Rebuilders : rpc[r] = "idle"
    /\ stamp' = IF stamp = "this" THEN "older" ELSE stamp
    /\ derived' = IF derived = "this" THEN "older" ELSE derived
    /\ UNCHANGED <<lease, status, diverged, webUp, rpc, ppc, apc>>

(* A shell's rebuild is killed.                                            *)
CrashShell(r) ==
    /\ rpc[r] # "idle"
    /\ rpc' = [rpc EXCEPT ![r] = "idle"]
    /\ UNCHANGED <<lease, status, stamp, derived, diverged, webUp, ppc, apc>>

Holders(name) ==
    CASE name = Rebuild -> {r \in Presses : rpc[r] \in InProgress \cup {"stamped", "failing"}}
      [] name = Pull -> {p \in {ppc} : p = "pulling"}
      [] name = Backfill -> {a \in {apc} : a = "fetching"}
      [] name = Update -> {}

(* The TTL of a lease runs out: of one whose holder died, and of one whose *)
(* holder did not renew it in time where MayLapse allows that.             *)
Lapse(name) ==
    /\ Live(name)
    /\ Holders(name) = {} \/ name \in MayLapse
    /\ lease' = [lease EXCEPT ![name] = "stale"]
    /\ UNCHANGED <<status, stamp, derived, diverged, webUp, rpc, ppc, apc>>

(* The stack updater (external) announces itself and is done.              *)
UpdateStack ==
    /\ lease' = IF Live(Update) THEN Released(Update) ELSE Leased(Update)
    /\ UNCHANGED <<status, stamp, derived, diverged, webUp, rpc, ppc, apc>>

RebuildStep(r) ==
    \/ CreateRebuildLease(r) \/ WriteRebuildLease(r) \/ FindRebuildLease(r)
    \/ AlreadyRunning(r) \/ ReadDeadLease(r) \/ UnlinkDeadLease(r)
    \/ WriteRunning(r) \/ Invalidate(r) \/ Wipe(r) \/ FinishReplay(r) \/ StampFingerprint(r)
    \/ ReleaseRebuildLease(r) \/ WriteDone(r)

Next ==
    \/ \E r \in Presses : Press(r) \/ StartWeb(r)
    \/ \E r \in Rebuilders : RebuildStep(r) \/ Progress(r) \/ RebuildRaises(r)
    \/ \E r \in Shells : RunInShell(r) \/ CrashShell(r)
    \/ ScheduledClearance \/ TakePullLease \/ PullWrites \/ EndPull \/ CrashPull
    \/ AttendedClearance \/ BackfillClearance \/ TakeBackfillLease
    \/ AttendedWrites \/ EndAttended
    \/ CrashWeb \/ Deploy \/ UpdateStack
    \/ \E name \in Leases : Lapse(name)

Spec == Init /\ [][Next]_vars

(* Threads run on, the scheduler ends the cycles it begins, the clock      *)
(* takes away what nobody renews, and a web process that stopped is        *)
(* started again.  Nothing makes a person press anything.                  *)
Fairness ==
    /\ \A r \in Rebuilders : WF_vars(RebuildStep(r))
    /\ WF_vars(TakePullLease) /\ WF_vars(EndPull)
    /\ \A name \in {Rebuild, Pull, Backfill} : WF_vars(Lapse(name))
    /\ WF_vars(\E r \in Presses : StartWeb(r))

FairSpec == Spec /\ Fairness

(* A person who keeps asking for the rebuild, however often a pull cycle   *)
(* or a lease in the way refuses it.                                       *)
PatientSpec == FairSpec /\ \A r \in Presses : SF_vars(Press(r))

-----------------------------------------------------------------------------
TypeOK ==
    /\ lease \in [Leases -> {"none", "live", "stale"}]
    /\ status \in {"none", "running", "done", "failed"}
    /\ stamp \in {"none", "this", "older"}
    /\ derived \in {"this", "older", "part", "hand"}
    /\ diverged \in BOOLEAN
    /\ webUp \in BOOLEAN
    /\ rpc \in [Rebuilders -> {"idle"} \cup Acquiring \cup InProgress \cup Ending]
    /\ ppc \in {"idle", "cleared", "pulling"}
    /\ apc \in {"idle", "cleared", "fetching"}

(* fingerprint.py: the claim "derived by this code" is never true of a     *)
(* layer another code derived, or of a part of one, whichever step of a    *)
(* rebuild, a crash or a deploy came last.                                 *)
StampHonest == stamp = "this" => derived = "this"

(* At most one pressed rebuild is between its lease and its outcome.       *)
OneRebuild ==
    \A r, o \in Presses : r \in Holders(Rebuild) /\ o \in Holders(Rebuild) => r = o

(* A layer a dead web process left half-built stays behind the guard: the  *)
(* lease or the status "running" it left says so until a rebuild ends.     *)
CrashStaysGuarded == derived = "part" => Busy \/ status = "failed"

(* rebuild_in_progress_note (cli.py): nothing that reads, moves or deletes *)
(* rows "may proceed until a rebuild completes": a half-built layer is     *)
(* always behind the guard, however the rebuild stopped.  Not so: one that *)
(* raises says "done" and releases its lease.                              *)
HalfBuiltIsGuarded == derived \in {"part", "hand"} => Busy

(* rebuild.py: "this run is the store's only writer (the lease guarantees  *)
(* it)", so a replay's in-memory index never parts from the rows.  Not so: *)
(* a pull or a backfill that asked before the rebuild began writes on.     *)
OnlyWriter == ~diverged

(* Once nothing dies, raises or is deployed any more, a patient person     *)
(* gets a store that is whole and says so: no lease, status or stamp left  *)
(* behind by any history refuses the rebuild for good.                     *)
Interrupted ==
    \/ CrashWeb \/ Deploy
    \/ \E r \in Rebuilders : RebuildRaises(r) /\ ~RebuildStep(r)
    \/ \E r \in Shells : CrashShell(r) /\ ~RebuildStep(r)
Recovers == <>[][~Interrupted]_vars => []<>(stamp = "this" /\ derived = "this")
=============================================================================
