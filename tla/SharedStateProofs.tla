--------------------------- MODULE SharedStateProofs ---------------------------
(***************************************************************************)
(* Proved of what the stack's processes share.                             *)
(*                                                                         *)
(* Of StackCoordination, for every number of presses and shells: its types; *)
(* and, where a shell's rebuild and the web's keep apart, a living rebuild *)
(* renews its lease in time and no two presses replace the lease file at   *)
(* once, that one rebuild runs at a time and that the fingerprint stamp is *)
(* honest through crashes, failures and deploys; and with a single press,  *)
(* that a layer the web process left half-built stays behind the guard.    *)
(*                                                                         *)
(* Of ConnectionStore, for any names, callers, consents and crashes, in    *)
(* any interleaving: its types; by what alone a newest token can be lost;  *)
(* and when alone a consent comes to be under two names.                   *)
(***************************************************************************)
EXTENDS StackCoordination, ConnectionStore, FiniteSetTheorems, TLAPS

LEMMA LeaseTypes ==
  ASSUME lease \in [Leases -> {"none", "live", "stale"}], NEW n \in Leases
  PROVE  /\ Leased(n) \in [Leases -> {"none", "live", "stale"}]
         /\ Released(n) \in [Leases -> {"none", "live", "stale"}]
  BY DEF Leased, Released

Places == {"idle"} \cup Acquiring \cup InProgress \cup Ending

LEMMA StepTypes ==
  ASSUME rpc \in [Rebuilders -> Places], NEW r \in Rebuilders,
         NEW from \in Places, NEW to \in Places, Step(r, from, to)
  PROVE  rpc' \in [Rebuilders -> Places]
  BY DEF Step

LEMMA DisplacedTypes ==
  ASSUME rpc \in [Rebuilders -> Places], NEW r \in Rebuilders, NEW to \in Places, Displaced(r, to)
  PROVE  rpc' \in [Rebuilders -> Places]
  <1>1. \A o \in Rebuilders : rpc[o] \in Places /\ "orphaned" \in Places
    BY DEF Places, Acquiring
  <1> QED BY <1>1 DEF Displaced

(* THEOREM: no step takes a variable out of its type.                      *)
THEOREM TypeCorrect == Spec => []TypeOK
  <1>1. Init => TypeOK
    BY DEF Init, TypeOK
  <1>2. ASSUME TypeOK, [Next]_vars PROVE TypeOK'
    <2> USE <1>2, LeaseTypes DEF TypeOK, Acquiring, InProgress, Ending, Step
    <2>n. Rebuild \in Leases /\ Pull \in Leases /\ Backfill \in Leases /\ Update \in Leases
      BY DEF Leases
    <2>1. ASSUME NEW r \in Presses, Press(r) \/ StartWeb(r) PROVE TypeOK'
      <3>r. r \in Rebuilders BY DEF Rebuilders
      <3>1. CASE Press(r)
        BY <3>1, <3>r DEF Press
      <3>2. CASE StartWeb(r)
        BY <3>2, <3>r DEF StartWeb
      <3> QED BY <2>1, <3>1, <3>2
    <2>2. ASSUME NEW r \in Rebuilders, RebuildStep(r) PROVE TypeOK'
      <3>p. rpc \in [Rebuilders -> Places]
        BY DEF Places
      <3>1. CASE CreateRebuildLease(r) \/ WriteRebuildLease(r)
        <4>1. rpc' \in [Rebuilders -> Places]
          BY <3>1, <3>p, StepTypes DEF CreateRebuildLease, WriteRebuildLease, Places
        <4>2. lease' \in [Leases -> {"none", "live", "stale"}]
          BY <3>1, <2>n DEF CreateRebuildLease, WriteRebuildLease
        <4> QED BY <3>1, <4>1, <4>2 DEF CreateRebuildLease, WriteRebuildLease, Places
      <3>2. CASE FindRebuildLease(r) \/ AlreadyRunning(r) \/ ReadDeadLease(r)
        <4>1. rpc' \in [Rebuilders -> Places]
          BY <3>2, <3>p, StepTypes DEF FindRebuildLease, AlreadyRunning, ReadDeadLease, Places
        <4> QED BY <3>2, <4>1 DEF FindRebuildLease, AlreadyRunning, ReadDeadLease, Places
      <3>7. CASE UnlinkDeadLease(r)
        <4>1. rpc' \in [Rebuilders -> Places]
          BY <3>7, <3>p, DisplacedTypes DEF UnlinkDeadLease, Places
        <4>2. lease' \in [Leases -> {"none", "live", "stale"}]
          BY <3>7, <2>n DEF UnlinkDeadLease
        <4> QED BY <3>7, <4>1, <4>2 DEF UnlinkDeadLease, Places
      <3>3. CASE WriteRunning(r) \/ Invalidate(r) \/ FinishReplay(r) \/ StampFingerprint(r)
        BY <3>3 DEF WriteRunning, Invalidate, FinishReplay, StampFingerprint, HalfBuilt
      <3>4. CASE Wipe(r)
        BY <3>4 DEF Wipe, HalfBuilt
      <3>5. CASE WriteDone(r)
        BY <3>5 DEF WriteDone
      <3>6. CASE ReleaseRebuildLease(r)
        <4>1. rpc' \in [Rebuilders -> Places]
          BY <3>6, <3>p, DisplacedTypes DEF ReleaseRebuildLease, Places
        <4>2. lease' \in [Leases -> {"none", "live", "stale"}]
          BY <3>6, <2>n DEF ReleaseRebuildLease
        <4> QED BY <3>6, <4>1, <4>2 DEF ReleaseRebuildLease, Places
      <3> QED BY <2>2, <3>1, <3>2, <3>3, <3>4, <3>5, <3>6, <3>7 DEF RebuildStep
    <2>3. ASSUME NEW r \in Rebuilders, Progress(r) \/ RebuildRaises(r) PROVE TypeOK'
      <3>1. CASE Progress(r)
        <4>1. lease' \in [Leases -> {"none", "live", "stale"}]
          BY <3>1, <2>n DEF Progress
        <4>2. rpc' \in [Rebuilders -> Places]
          <5>1. rpc \in [Rebuilders -> Places] /\ rpc[r] \in Places
            BY DEF Places
          <5> QED BY <3>1, <5>1, DisplacedTypes DEF Progress
        <4> QED BY <3>1, <4>1, <4>2 DEF Progress, Places
      <3>2. CASE RebuildRaises(r)
        BY <3>2 DEF RebuildRaises
      <3> QED BY <2>3, <3>1, <3>2
    <2>4. ASSUME NEW r \in Shells, RunInShell(r) \/ CrashShell(r) PROVE TypeOK'
      <3>r. r \in Rebuilders BY DEF Rebuilders
      <3> QED BY <2>4, <3>r DEF RunInShell, CrashShell
    <2>5. CASE ScheduledClearance \/ TakePullLease \/ PullWrites \/ EndPull \/ CrashPull
      <3>1. CASE ScheduledClearance \/ CrashPull
        BY <3>1 DEF ScheduledClearance, CrashPull
      <3>2. CASE TakePullLease
        <4>1. lease' \in [Leases -> {"none", "live", "stale"}]
          BY <3>2, <2>n DEF TakePullLease
        <4> QED BY <3>2, <4>1 DEF TakePullLease
      <3>3. CASE EndPull
        <4>1. lease' \in [Leases -> {"none", "live", "stale"}]
          BY <3>3, <2>n DEF EndPull
        <4> QED BY <3>3, <4>1 DEF EndPull
      <3>4. CASE PullWrites
        <4>1. diverged' \in BOOLEAN
          BY <3>4 DEF PullWrites, WritesBeside
        <4> QED BY <3>4, <4>1 DEF PullWrites
      <3> QED BY <2>5, <3>1, <3>2, <3>3, <3>4
    <2>6. CASE AttendedClearance \/ BackfillClearance \/ TakeBackfillLease
                 \/ AttendedWrites \/ EndAttended
      <3>1. CASE AttendedClearance \/ BackfillClearance
        BY <3>1 DEF AttendedClearance, BackfillClearance
      <3>2. CASE TakeBackfillLease \/ EndAttended
        BY <3>2, <2>n DEF TakeBackfillLease, EndAttended
      <3>3. CASE AttendedWrites
        <4>1. lease' \in [Leases -> {"none", "live", "stale"}]
          BY <3>3, <2>n DEF AttendedWrites
        <4>2. diverged' \in BOOLEAN
          BY <3>3 DEF AttendedWrites, WritesBeside
        <4> QED BY <3>3, <4>1, <4>2 DEF AttendedWrites
      <3> QED BY <2>6, <3>1, <3>2, <3>3
    <2>7. CASE CrashWeb \/ Deploy
      <3>1. CASE CrashWeb
        <4>1. rpc' \in [Rebuilders -> Places]
          BY <3>1 DEF CrashWeb, Places
        <4> QED BY <3>1, <4>1 DEF CrashWeb, Places
      <3>2. CASE Deploy
        BY <3>2 DEF Deploy
      <3> QED BY <2>7, <3>1, <3>2
    <2>8. CASE UpdateStack
      <3>1. CASE Live(Update)
        <4>1. lease' \in [Leases -> {"none", "live", "stale"}]
          BY <2>8, <3>1, <2>n DEF UpdateStack
        <4> QED BY <2>8, <3>1, <4>1 DEF UpdateStack
      <3>2. CASE ~Live(Update)
        <4>1. lease' \in [Leases -> {"none", "live", "stale"}]
          BY <2>8, <3>2, <2>n DEF UpdateStack
        <4> QED BY <2>8, <3>2, <4>1 DEF UpdateStack
      <3> QED BY <3>1, <3>2
    <2>9. ASSUME NEW n \in Leases, Lapse(n) PROVE TypeOK'
      BY <2>9 DEF Lapse
    <2>10. CASE UNCHANGED vars
      BY <2>10 DEF vars
    <2> QED BY <1>2, <2>1, <2>2, <2>3, <2>4, <2>5, <2>6, <2>7, <2>8, <2>9, <2>10 DEF Next
  <1> QED BY <1>1, <1>2, PTL DEF Spec

-----------------------------------------------------------------------------
(* Where a living rebuild renews its lease in time, and a shell's runs     *)
(* while no other does.                                                    *)

LeaseHonoured == ~Beside /\ Rebuild \notin MayLapse

(* The window that acquire_exclusive leaves open (leases.py:92): a press   *)
(* that has judged the lease file dead unlinks whatever is there by then,  *)
(* and one that has created it has yet to write it.  The theorems are of   *)
(* behaviours in which no two presses are in that window at once; anywhere *)
(* else any number of them may race.                                       *)
Replacing == {"clears", "clearsagain", "created"}
ReplacedAlone ==
    \A r, o \in Presses : rpc[r] \in Replacing /\ rpc[o] \in Replacing => r = o

InSection(r) == rpc[r] \in InProgress \cup {"stamped", "failing"}

(* Who is in the section has the lease and is alone there, and what it has *)
(* done so far shows in the stamp and the layer.                           *)
RebuildInv ==
    /\ TypeOK
    /\ \A r \in Presses : InSection(r) => Live(Rebuild)
    /\ \A r \in Presses : rpc[r] # "orphaned"
    /\ \A r, o \in Presses : rpc[r] \in Replacing => ~InSection(o)
    /\ \A r, o \in Rebuilders : InSection(r) /\ InSection(o) => r = o
    /\ \A s \in Shells, r \in Presses : rpc[s] = "idle" \/ rpc[r] = "idle"
    /\ \A s \in Shells : rpc[s] \in {"idle"} \cup InProgress
    /\ \A r \in Rebuilders : rpc[r] \in {"invalidated", "replaying"} => stamp = "none"
    /\ \A r \in Rebuilders : rpc[r] = "replayed" => derived = "this"
    /\ StampHonest

LEMMA RebuildInit == Init => RebuildInv
  BY DEF Init, RebuildInv, TypeOK, InSection, InProgress, Replacing, StampHonest, Rebuilders

LEMMA RebuildStepKeeps ==
  ASSUME LeaseHonoured, RebuildInv, ReplacedAlone, ReplacedAlone', TypeOK', [Next]_vars
  PROVE  RebuildInv'
  <1>p. /\ Rebuilders = Presses \cup Shells /\ Presses \cap Shells = {}
        /\ ~Beside /\ Rebuild \notin MayLapse
    BY ApartAssumption DEF LeaseHonoured, Rebuilders
  <1>n. Pull # Rebuild /\ Backfill # Rebuild /\ Update # Rebuild /\ Rebuild \in Leases
    BY DEF Pull, Rebuild, Backfill, Update, Leases
  <1> USE <1>p, <1>n DEF RebuildInv, TypeOK, InSection, Acquiring, InProgress, Ending, Replacing,
                        ReplacedAlone, Step, Live, StampHonest
  <1>1. ASSUME NEW r \in Presses, Press(r) \/ StartWeb(r) PROVE RebuildInv'
    BY <1>1 DEF Press, StartWeb, KeepsApart
  <1>2. ASSUME NEW r \in Rebuilders, CreateRebuildLease(r) PROVE RebuildInv'
    BY <1>2 DEF CreateRebuildLease
  <1>21. ASSUME NEW r \in Rebuilders, WriteRebuildLease(r) PROVE RebuildInv'
    BY <1>21 DEF WriteRebuildLease, Leased
  <1>22. ASSUME NEW r \in Rebuilders, ReadDeadLease(r) \/ FindRebuildLease(r) PROVE RebuildInv'
    BY <1>22 DEF ReadDeadLease, FindRebuildLease
  <1>23. ASSUME NEW r \in Rebuilders, UnlinkDeadLease(r) PROVE RebuildInv'
    BY <1>23 DEF UnlinkDeadLease, Displaced, Released
  <1>3. ASSUME NEW r \in Rebuilders, AlreadyRunning(r) \/ WriteRunning(r) PROVE RebuildInv'
    BY <1>3 DEF AlreadyRunning, WriteRunning
  <1>4. ASSUME NEW r \in Rebuilders, Invalidate(r) PROVE RebuildInv'
    BY <1>4 DEF Invalidate
  <1>5. ASSUME NEW r \in Rebuilders, Wipe(r) PROVE RebuildInv'
    BY <1>5 DEF Wipe, HalfBuilt
  <1>6. ASSUME NEW r \in Rebuilders, FinishReplay(r) PROVE RebuildInv'
    <2>1. ~ \E o \in Rebuilders \ {r} : Replaying(o)
      BY <1>6 DEF FinishReplay, Replaying
    <2> QED BY <1>6, <2>1 DEF FinishReplay
  <1>7. ASSUME NEW r \in Rebuilders, StampFingerprint(r) PROVE RebuildInv'
    BY <1>7 DEF StampFingerprint
  <1>8. ASSUME NEW r \in Rebuilders, ReleaseRebuildLease(r) PROVE RebuildInv'
    BY <1>8 DEF ReleaseRebuildLease, Displaced, Released
  <1>9. ASSUME NEW r \in Rebuilders, WriteDone(r) PROVE RebuildInv'
    BY <1>9 DEF WriteDone
  <1>10. ASSUME NEW r \in Rebuilders, Progress(r) PROVE RebuildInv'
    BY <1>10 DEF Progress, Displaced, Leased, Replaying
  <1>11. ASSUME NEW r \in Rebuilders, RebuildRaises(r) PROVE RebuildInv'
    BY <1>11 DEF RebuildRaises
  <1>12. CASE ScheduledClearance \/ TakePullLease \/ PullWrites \/ EndPull \/ CrashPull
    BY <1>12 DEF ScheduledClearance, TakePullLease, PullWrites, EndPull, CrashPull, Leased, Released
  <1>13. CASE AttendedClearance \/ BackfillClearance \/ TakeBackfillLease
                \/ AttendedWrites \/ EndAttended
    BY <1>13 DEF AttendedClearance, BackfillClearance, TakeBackfillLease, AttendedWrites,
                 EndAttended, Leased, Released
  <1>14. CASE CrashWeb
    BY <1>14 DEF CrashWeb
  <1>15. CASE Deploy
    BY <1>15 DEF Deploy
  <1>16. CASE UpdateStack
    BY <1>16 DEF UpdateStack, Leased, Released
  <1>17. ASSUME NEW n \in Leases, Lapse(n) PROVE RebuildInv'
    <2>1. CASE n = Rebuild
      <3>1. \A r \in Presses : ~InSection(r)
        BY <1>17, <2>1 DEF Lapse, Holders
      <3> QED BY <1>17, <2>1, <3>1 DEF Lapse
    <2>2. CASE n # Rebuild
      BY <1>17, <2>2 DEF Lapse
    <2> QED BY <2>1, <2>2
  <1>18. CASE UNCHANGED vars
    BY <1>18 DEF vars
  <1>19. ASSUME NEW s \in Shells, RunInShell(s) PROVE RebuildInv'
    BY <1>19 DEF RunInShell, KeepsApart
  <1>20. ASSUME NEW s \in Shells, CrashShell(s) PROVE RebuildInv'
    BY <1>20 DEF CrashShell
  <1> QED BY <1>1, <1>2, <1>3, <1>4, <1>5, <1>6, <1>7, <1>8, <1>9, <1>10, <1>11, <1>12, <1>13,
             <1>14, <1>15, <1>16, <1>17, <1>18, <1>19, <1>20, <1>21, <1>22, <1>23
             DEF Next, RebuildStep

LEMMA RebuildInvariant ==
  ASSUME LeaseHonoured
  PROVE  Spec /\ []ReplacedAlone => []RebuildInv
  <1>1. RebuildInv /\ ReplacedAlone /\ ReplacedAlone' /\ TypeOK' /\ [Next]_vars => RebuildInv'
    BY RebuildStepKeeps
  <1> QED BY <1>1, RebuildInit, TypeCorrect, PTL DEF Spec

(* THEOREM: where no two presses replace the lease file at once, a stamp   *)
(* that matches the running code is never over a half replayed layer, nor  *)
(* over one another code derived.                                          *)
THEOREM HonestStamp ==
  ASSUME LeaseHonoured
  PROVE  Spec /\ []ReplacedAlone => []StampHonest
  <1>1. RebuildInv => StampHonest
    BY DEF RebuildInv
  <1> QED BY <1>1, RebuildInvariant, PTL

(* THEOREM: of presses that race for the lease, but never two at once in   *)
(* the replacing of its file, one rebuilds at a time.                      *)
THEOREM SingleRebuild ==
  ASSUME LeaseHonoured
  PROVE  Spec /\ []ReplacedAlone => []OneRebuild
  <1>1. RebuildInv => OneRebuild
    BY DEF RebuildInv, OneRebuild, Holders, InSection, Rebuilders
  <1> QED BY <1>1, RebuildInvariant, PTL

-----------------------------------------------------------------------------
(* One press at a time: the status file is then one rebuild's own.  (With  *)
(* two, a rebuild that releases its lease and then writes "done" writes    *)
(* over the "running" of the one that took the lease in between.)          *)

OnePress == \A r, o \in Presses : r = o

Announced == {"begun", "invalidated", "replaying", "replayed", "stamped", "failing",
              "unlocked", "unlockedfailed"}

GuardInv ==
    /\ derived = "part" => status \in {"running", "failed"}
    /\ \A r \in Presses : rpc[r] \in Announced => status = "running"
    /\ \A r \in Presses : rpc[r] \in {"replayed", "stamped", "unlocked"} => derived # "part"

Acquires(r) ==
    \/ CreateRebuildLease(r) \/ WriteRebuildLease(r) \/ FindRebuildLease(r)
    \/ AlreadyRunning(r) \/ ReadDeadLease(r) \/ UnlinkDeadLease(r)

LEMMA GuardStep ==
  ASSUME LeaseHonoured, OnePress, RebuildInv, GuardInv, [Next]_vars
  PROVE  GuardInv'
  <1>p. /\ Rebuilders = Presses \cup Shells /\ Presses \cap Shells = {}
        /\ rpc \in [Rebuilders -> Places]
    BY ApartAssumption DEF Rebuilders, RebuildInv, TypeOK, Places
  <1> USE <1>p DEF GuardInv, Announced, Step, OnePress
  <1>1. ASSUME NEW r \in Presses, Press(r) \/ StartWeb(r) PROVE GuardInv'
    BY <1>1 DEF Press, StartWeb
  <1>2. ASSUME NEW r \in Presses, Acquires(r) \/ WriteRunning(r) PROVE GuardInv'
    BY <1>2 DEF Acquires, CreateRebuildLease, WriteRebuildLease, FindRebuildLease, AlreadyRunning,
                ReadDeadLease, UnlinkDeadLease, Displaced, WriteRunning
  <1>3. ASSUME NEW r \in Presses, Invalidate(r) \/ Wipe(r) \/ StampFingerprint(r)
        PROVE  GuardInv'
    BY <1>3 DEF Invalidate, Wipe, StampFingerprint, HalfBuilt
  <1>4. ASSUME NEW r \in Rebuilders, FinishReplay(r) PROVE GuardInv'
    <2>1. ~ \E o \in Rebuilders \ {r} : Replaying(o)
      BY <1>4 DEF FinishReplay, Replaying, RebuildInv, InSection, InProgress
    <2>2. derived' = "this" /\ UNCHANGED status
      BY <1>4, <2>1 DEF FinishReplay
    <2> QED BY <1>4, <2>2 DEF FinishReplay
  <1>5. ASSUME NEW r \in Presses, ReleaseRebuildLease(r) \/ WriteDone(r) \/ Progress(r)
        PROVE  GuardInv'
    BY <1>5 DEF ReleaseRebuildLease, WriteDone, Progress, Displaced, Replaying
  <1>6. ASSUME NEW r \in Rebuilders, RebuildRaises(r) PROVE GuardInv'
    BY <1>6 DEF RebuildRaises
  <1>7. ASSUME NEW s \in Shells, RebuildStep(s) PROVE GuardInv'
    <2>1. \A r \in Presses : rpc'[r] = rpc[r]
      <3>1. rpc[s] \in {"idle"} \cup InProgress
        BY DEF RebuildInv
      <3> QED BY <1>7, <3>1 DEF RebuildStep, CreateRebuildLease, WriteRebuildLease,
                  FindRebuildLease, AlreadyRunning, ReadDeadLease, UnlinkDeadLease, WriteRunning,
                  Invalidate, Wipe, FinishReplay, StampFingerprint, ReleaseRebuildLease, WriteDone,
                  InProgress
    <2>2. rpc[s] \in {"idle"} \cup InProgress
      BY DEF RebuildInv
    <2>3. CASE Invalidate(s) \/ StampFingerprint(s)
      BY <2>1, <2>3 DEF Invalidate, StampFingerprint
    <2>8. CASE Acquires(s)
      BY <2>2, <2>8 DEF Acquires, CreateRebuildLease, WriteRebuildLease, FindRebuildLease,
                  AlreadyRunning, ReadDeadLease, UnlinkDeadLease, InProgress
    <2>4. CASE WriteRunning(s)
      BY <2>1, <2>4 DEF WriteRunning
    <2>5. CASE Wipe(s)
      BY <2>1, <2>5 DEF Wipe, HalfBuilt
    <2>6. CASE FinishReplay(s)
      BY <1>4, <2>6
    <2>7. CASE ReleaseRebuildLease(s) \/ WriteDone(s)
      BY <2>2, <2>7 DEF ReleaseRebuildLease, WriteDone, InProgress
    <2> QED BY <1>7, <2>3, <2>4, <2>5, <2>6, <2>7, <2>8 DEF RebuildStep, Acquires
  <1>8. ASSUME NEW s \in Shells, RunInShell(s) \/ CrashShell(s) PROVE GuardInv'
    BY <1>8 DEF RunInShell, CrashShell
  <1>9. CASE ScheduledClearance \/ TakePullLease \/ PullWrites \/ EndPull \/ CrashPull
    BY <1>9 DEF ScheduledClearance, TakePullLease, PullWrites, EndPull, CrashPull
  <1>10. CASE AttendedClearance \/ BackfillClearance \/ TakeBackfillLease
                \/ AttendedWrites \/ EndAttended
    BY <1>10 DEF AttendedClearance, BackfillClearance, TakeBackfillLease, AttendedWrites,
                 EndAttended
  <1>11. CASE CrashWeb \/ Deploy \/ UpdateStack
    BY <1>11 DEF CrashWeb, Deploy, UpdateStack
  <1>12. ASSUME NEW n \in Leases, Lapse(n) PROVE GuardInv'
    BY <1>12 DEF Lapse
  <1>13. CASE UNCHANGED vars
    BY <1>13 DEF vars
  <1>14. ASSUME NEW r \in Rebuilders, Progress(r) PROVE GuardInv'
    BY <1>5, <1>14 DEF Progress
  <1>15. ASSUME NEW r \in Rebuilders, RebuildStep(r) PROVE GuardInv'
    BY <1>2, <1>3, <1>4, <1>5, <1>7, <1>15 DEF RebuildStep, Acquires
  <1> QED BY <1>1, <1>6, <1>8, <1>9, <1>10, <1>11, <1>12, <1>13, <1>14, <1>15 DEF Next

(* THEOREM: where one press is under way at a time, whatever a crash, a    *)
(* failure or a deploy leaves of a web process's rebuild, the lease or the *)
(* status file still says that the layer is not whole.                     *)
THEOREM GuardedAfterCrash ==
  ASSUME LeaseHonoured, OnePress
  PROVE  Spec => []CrashStaysGuarded
  <1>1. Init => GuardInv
    BY DEF Init, GuardInv, Announced, Rebuilders
  <1>2. GuardInv /\ RebuildInv /\ [Next]_vars => GuardInv'
    BY GuardStep
  <1>4. ReplacedAlone
    BY DEF ReplacedAlone, OnePress
  <1>3. GuardInv => CrashStaysGuarded
    BY DEF GuardInv, CrashStaysGuarded, Busy
  <1> QED BY <1>1, <1>2, <1>3, <1>4, RebuildInvariant, PTL DEF Spec

-----------------------------------------------------------------------------
(***************************************************************************)
(* The file of connections: types.                                          *)
(***************************************************************************)

Files == [Names -> Records \cup {NoRecord}]

(* A caller at work has a record in hand.                                   *)
HandsFull == \A c \in Callers : pc[c] # "idle" => rec[c] \in Records

(* What the others keep when one caller moves.                              *)
OthersSame(c) ==
    \A d \in Callers \ {c} : pc'[d] = pc[d] /\ rec'[d] = rec[d] /\ draft'[d] = draft[d]

CallerStep(c) ==
    \/ \E n \in Names : Read(c, n) \/ Authorise(c, n)
    \/ NoRefresh(c) \/ Refresh(c) \/ Put(c) \/ Save(c) \/ Crash(c)
    \/ \E old, new \in Names : Rename(c, old, new)

LEMMA RotatedType ==
  ASSUME NEW r \in Records, r.consent \in Rotating => r.turn < MaxTurns
  PROVE  Rotated(r) \in Records /\ Rotated(r).consent = r.consent /\ Rotated(r).id = r.id
  BY ConnectionAssumption DEF Rotated, Records

LEMMA FileType ==
  ASSUME NEW f \in Files, NEW n \in Names, NEW r \in Records \cup {NoRecord}
  PROVE  /\ [f EXCEPT ![n] = r] \in Files
         /\ \A m \in Names : [f EXCEPT ![n] = r][m] = IF m = n THEN r ELSE f[m]
  BY DEF Files

(* What a caller takes in hand and what it drafts, typed.                   *)
LEMMA HandType ==
  ASSUME ConnectionTypeOK, HandsFull, NEW c \in Callers,
         NEW place \in {"holds", "puts", "saves"}, NEW r \in Records, Takes(c, r, place)
  PROVE  /\ pc' \in [Callers -> {"idle", "holds", "puts", "saves"}]
         /\ rec' \in [Callers -> Records \cup {NoRecord}] /\ HandsFull'
  BY DEF ConnectionTypeOK, HandsFull, Takes

LEMMA DraftType ==
  ASSUME ConnectionTypeOK, NEW c \in Callers, NEW f \in Files
  PROVE  [draft EXCEPT ![c] = f] \in [Callers -> Files]
  BY DEF ConnectionTypeOK, Files

LEMMA LeaveType ==
  ASSUME ConnectionTypeOK, HandsFull, NEW c \in Callers, Leaves(c)
  PROVE  /\ pc' \in [Callers -> {"idle", "holds", "puts", "saves"}]
         /\ rec' \in [Callers -> Records \cup {NoRecord}] /\ HandsFull'
         /\ draft' \in [Callers -> Files]
  <1>1. Empty \in Files
    BY DEF Empty, Files
  <1> QED BY <1>1, DraftType DEF ConnectionTypeOK, HandsFull, Leaves, Takes

LEMMA CallerTypes ==
  ASSUME ConnectionTypeOK, HandsFull, NEW c \in Callers, CallerStep(c)
  PROVE  ConnectionTypeOK' /\ HandsFull'
  <1> USE ConnectionAssumption
  <1>0. file \in Files
    BY DEF ConnectionTypeOK, Files
  <1>1. ASSUME NEW n \in Names, Read(c, n) PROVE ConnectionTypeOK' /\ HandsFull'
    <2>1. file[n] \in Records /\ Takes(c, file[n], "holds")
      BY <1>1 DEF Read, ConnectionTypeOK
    <2>2. draft' \in [Callers -> Files]
      BY <1>0, <1>1, DraftType DEF Read
    <2> QED BY <1>1, <2>1, <2>2, HandType DEF Read, ConnectionTypeOK, Files, history
  <1>2. ASSUME NEW n \in Names, Authorise(c, n) PROVE ConnectionTypeOK' /\ HandsFull'
    <2>1. /\ consents' \in 1..MaxConsents /\ consents' \in 0..MaxConsents
          /\ [id |-> n, consent |-> consents', turn |-> 0] \in Records
          /\ Takes(c, [id |-> n, consent |-> consents', turn |-> 0], "puts")
      BY <1>2 DEF Authorise, Records, ConnectionTypeOK
    <2>2. issued' \in [1..MaxConsents -> 0..MaxTurns]
      BY <1>2, <2>1 DEF Authorise, ConnectionTypeOK
    <2> QED BY <1>2, <2>1, <2>2, HandType DEF Authorise, ConnectionTypeOK, history
  <1>3. CASE NoRefresh(c)
    BY <1>3, LeaveType DEF NoRefresh, ConnectionTypeOK, Files, history
  <1>4. CASE Refresh(c)
    <2>1. rec[c] \in Records /\ (rec[c].consent \in Rotating => rec[c].turn < MaxTurns)
      BY <1>4 DEF Refresh, HandsFull
    <2>2. Rotated(rec[c]) \in Records /\ Takes(c, Rotated(rec[c]), "puts")
      BY <1>4, <2>1, RotatedType DEF Refresh
    <2>3. issued' \in [1..MaxConsents -> 0..MaxTurns]
      BY <1>4, <2>2 DEF Refresh, ConnectionTypeOK, Records
    <2> QED BY <1>4, <2>2, <2>3, HandType DEF Refresh, ConnectionTypeOK, history
  <1>5. CASE Put(c)
    <2>1. rec[c] \in Records /\ rec[c].id \in Names /\ Takes(c, rec[c], "saves")
      BY <1>5 DEF Put, HandsFull, Records
    <2>2. draft' \in [Callers -> Files]
      BY <1>0, <1>5, <2>1, FileType, DraftType DEF Put
    <2> QED BY <1>5, <2>1, <2>2, HandType DEF Put, ConnectionTypeOK, Files, history
  <1>6. ASSUME NEW old \in Names, NEW new \in Names, Rename(c, old, new)
        PROVE  ConnectionTypeOK' /\ HandsFull'
    <2> DEFINE moved == [file[old] EXCEPT !.id = new]
    <2>1. moved \in Records /\ Takes(c, moved, "saves")
      BY <1>6 DEF Rename, ConnectionTypeOK, Records
    <2>2. [[file EXCEPT ![old] = NoRecord] EXCEPT ![new] = moved] \in Files
      BY <1>0, <2>1, FileType
    <2>3. draft' \in [Callers -> Files]
      BY <1>6, <2>2, DraftType DEF Rename
    <2> QED BY <1>6, <2>1, <2>3, HandType DEF Rename, ConnectionTypeOK, Files, history
  <1>7. CASE Save(c)
    <2>1. file' \in Files /\ behind' \in [Callers -> SUBSET Names]
      BY <1>7 DEF Save, ConnectionTypeOK, Files
    <2>2. gone' \subseteq 1..MaxConsents
      BY <1>7 DEF Save, ConnectionTypeOK, Overwrites
    <2>3. split' \subseteq 1..MaxConsents
      BY <1>7 DEF Save, ConnectionTypeOK, Pulled
    <2> QED BY <1>7, <2>1, <2>2, <2>3, LeaveType DEF Save, ConnectionTypeOK, Files
  <1>8. CASE Crash(c)
    <2>1. rec[c].consent \in 1..MaxConsents
      BY <1>8 DEF Crash, HandsFull, Records
    <2>2. crashes' \in 0..MaxCrashes
      BY <1>8 DEF Crash, ConnectionTypeOK
    <2>3. gone' \subseteq gone \cup {rec[c].consent}
      BY <1>8 DEF Crash
    <2>4. gone' \subseteq 1..MaxConsents /\ behind' \in [Callers -> SUBSET Names]
      BY <1>8, <2>1, <2>3 DEF Crash, ConnectionTypeOK
    <2> QED BY <1>8, <2>2, <2>4, LeaveType DEF Crash, ConnectionTypeOK, Files
  <1> QED BY <1>1, <1>2, <1>3, <1>4, <1>5, <1>6, <1>7, <1>8 DEF CallerStep

LEMMA ConnectionSteps ==
  ASSUME [ConnectionNext]_connectionVars
  PROVE  (\E c \in Callers : CallerStep(c)) \/ UNCHANGED connectionVars
  BY DEF ConnectionNext, CallerStep

LEMMA ConnectionTypesStep ==
  ASSUME ConnectionTypeOK, HandsFull, [ConnectionNext]_connectionVars
  PROVE  ConnectionTypeOK' /\ HandsFull'
  <1>1. CASE UNCHANGED connectionVars
    BY <1>1 DEF connectionVars, hands, history, ConnectionTypeOK, HandsFull
  <1> QED BY <1>1, ConnectionSteps, CallerTypes

LEMMA ConnectionTypesInit == ConnectionInit => ConnectionTypeOK /\ HandsFull
  BY ConnectionAssumption DEF ConnectionInit, ConnectionTypeOK, HandsFull, Empty

(* THEOREM: no step takes a variable out of its type (ConnectionStore).     *)
THEOREM ConnectionTypes == ConnectionSpec => []ConnectionTypeOK
  <1> QED BY ConnectionTypesInit, ConnectionTypesStep, PTL DEF ConnectionSpec

LEMMA StepOthers ==
  ASSUME ConnectionTypeOK, NEW c \in Callers, CallerStep(c)
  PROVE  OthersSame(c)
  BY DEF ConnectionTypeOK, OthersSame, CallerStep, Read, Authorise, NoRefresh, Refresh, Put, Save,
         Crash, Rename, Takes, Leaves

(***************************************************************************)
(* No token is lost but as the history says.                                *)
(***************************************************************************)

SameToken(r, s) == r # NoRecord /\ r.consent = s.consent /\ r.turn = s.turn

(* What a caller is about to save differs from the file by its own record   *)
(* and by what was written since it read, and by nothing else.              *)
Agrees(c) ==
    pc[c] = "saves" =>
        /\ draft[c][rec[c].id] = rec[c]
        /\ \A n \in Names \ (behind[c] \cup {rec[c].id}) :
               draft[c][n] = file[n] \/ SameToken(file[n], rec[c])

TokenInv == (\A c \in Callers : Agrees(c)) /\ TokensKept

LEMMA AgreesStays ==
  ASSUME NEW c \in Callers, NEW d \in Callers \ {c}, OthersSame(c), Agrees(d),
         file' = file, behind'[d] = behind[d]
  PROVE  Agrees(d)'
  BY DEF OthersSame, Agrees, SameToken

(* A step that touches neither the file nor the tokens issued, and leaves   *)
(* in the mover's hand what it was about to write.                          *)
LEMMA NothingWritten ==
  ASSUME NEW c \in Callers, OthersSame(c), file' = file, issued' = issued,
         pc[c] \in {"puts", "saves"} => pc'[c] \in {"puts", "saves"} /\ rec'[c] = rec[c],
         NEW k \in 1..MaxConsents, Kept(k)
  PROVE  Kept(k)'
  BY DEF OthersSame, Kept, IsNewest, IsOf

LEMMA SaveKeepsTokens ==
  ASSUME ConnectionTypeOK, HandsFull, TokenInv, NEW c \in Callers, Save(c)
  PROVE  TokenInv'
  <1>1. OthersSame(c)
    BY StepOthers DEF CallerStep
  <1>2. /\ pc[c] = "saves" /\ file' = draft[c] /\ issued' = issued /\ consents' = consents
        /\ pc'[c] = "idle" /\ rec[c] \in Records /\ rec[c].id \in Names
    BY DEF Save, Leaves, Takes, ConnectionTypeOK, HandsFull, Records
  <1>3. ASSUME NEW d \in Callers PROVE Agrees(d)'
    <2>1. CASE d = c
      BY <1>2, <2>1 DEF Agrees
    <2>2. CASE d # c /\ pc[d] = "saves"
      <3>1. behind'[d] = behind[d] \cup {n \in Names : file[n] # draft[c][n]}
        BY <2>2 DEF Save
      <3>2. \A n \in Names \ behind'[d] : n \notin behind[d] /\ file'[n] = file[n]
        BY <1>2, <3>1
      <3> QED BY <1>1, <2>2, <3>2 DEF TokenInv, Agrees, OthersSame, SameToken
    <2>3. CASE d # c /\ pc[d] # "saves"
      BY <1>1, <2>3 DEF Agrees, OthersSame
    <2> QED BY <2>1, <2>2, <2>3
  <1>4. ASSUME NEW k \in 1..consents', k \notin gone' PROVE Kept(k)'
    <2>0. k \in 1..consents /\ k \in 1..MaxConsents
      BY <1>2, ConnectionAssumption DEF ConnectionTypeOK
    <2>1. CASE k \in gone \cup Overwrites(c)
      BY <1>4, <2>1 DEF Save
    <2>2. CASE k \notin gone \cup Overwrites(c)
      <3>1. Kept(k)
        BY <2>0, <2>2 DEF TokenInv, TokensKept
      <3>2. ASSUME NEW d \in Callers \ {c}, pc[d] \in {"puts", "saves"}, IsNewest(rec[d], k)
            PROVE  Kept(k)'
        BY <1>1, <1>2, <3>2 DEF OthersSame, Kept, IsNewest, IsOf
      <3>3. ASSUME IsNewest(rec[c], k) PROVE Kept(k)'
        <4>1. file'[rec[c].id] = rec[c]
          BY <1>2 DEF TokenInv, Agrees
        <4> QED BY <1>2, <3>3, <4>1 DEF Kept, IsNewest, IsOf
      <3>4. ASSUME NEW n \in Names, IsNewest(file[n], k) PROVE Kept(k)'
        <4>1. n \notin behind[c] \cup {rec[c].id}
          BY <2>0, <2>2, <3>4 DEF Overwrites, IsNewest
        <4>2. CASE draft[c][n] = file[n]
          BY <1>2, <3>4, <4>2 DEF Kept, IsNewest, IsOf
        <4>3. CASE SameToken(file[n], rec[c])
          <5>1. rec[c] # NoRecord
            BY <1>2, ConnectionAssumption
          <5>2. IsNewest(rec[c], k)
            BY <3>4, <4>3, <5>1 DEF SameToken, IsNewest, IsOf
          <5> QED BY <3>3, <5>2
        <4> QED BY <1>2, <4>1, <4>2, <4>3 DEF TokenInv, Agrees
      <3> QED BY <3>1, <3>2, <3>3, <3>4 DEF Kept
    <2> QED BY <2>1, <2>2
  <1> QED BY <1>3, <1>4 DEF TokenInv, TokensKept

LEMMA TokenStep ==
  ASSUME ConnectionTypeOK, HandsFull, TokenInv, NEW c \in Callers, CallerStep(c)
  PROVE  TokenInv'
  <1>1. OthersSame(c)
    BY StepOthers
  <1>2. ASSUME file' = file, behind' = behind, pc'[c] # "saves" PROVE \A d \in Callers : Agrees(d)'
    BY <1>1, <1>2, AgreesStays DEF TokenInv, Agrees
  <1>3. ASSUME file' = file, issued' = issued, consents' = consents, gone' = gone,
               pc[c] \in {"puts", "saves"} => pc'[c] \in {"puts", "saves"} /\ rec'[c] = rec[c]
        PROVE  TokensKept'
    <2>1. ASSUME NEW k \in 1..consents' \ gone' PROVE Kept(k)'
      <3>1. Kept(k) /\ k \in 1..MaxConsents
        BY <1>3, <2>1, ConnectionAssumption DEF TokenInv, TokensKept, ConnectionTypeOK
      <3> QED BY <1>1, <1>3, <3>1, NothingWritten
    <2> QED BY <2>1 DEF TokensKept
  <1>4. CASE \E n \in Names : Read(c, n)
    <2>1. /\ file' = file /\ issued' = issued /\ consents' = consents /\ gone' = gone
          /\ behind' = behind /\ pc'[c] = "holds" /\ pc[c] = "idle"
      BY <1>4 DEF Read, Takes, ConnectionTypeOK, history
    <2> QED BY <1>2, <1>3, <2>1 DEF TokenInv
  <1>5. CASE NoRefresh(c)
    <2>1. /\ file' = file /\ issued' = issued /\ consents' = consents /\ gone' = gone
          /\ behind' = behind /\ pc'[c] = "idle" /\ pc[c] = "holds"
      BY <1>5 DEF NoRefresh, Leaves, Takes, ConnectionTypeOK, history
    <2> QED BY <1>2, <1>3, <2>1 DEF TokenInv
  <1>6. ASSUME NEW n \in Names, Authorise(c, n) PROVE TokenInv'
    <2>1. /\ file' = file /\ gone' = gone /\ behind' = behind /\ pc[c] = "idle"
          /\ pc'[c] = "puts" /\ consents' = consents + 1 /\ consents' \in 1..MaxConsents
          /\ issued' = [issued EXCEPT ![consents'] = 0]
          /\ rec'[c] = [id |-> n, consent |-> consents', turn |-> 0]
      BY <1>6, ConnectionAssumption DEF Authorise, Takes, ConnectionTypeOK, history
    <2>2. ASSUME NEW k \in 1..consents' \ gone' PROVE Kept(k)'
      <3>1. CASE k = consents'
        <4>1. rec'[c] \in Records /\ rec'[c].consent = k /\ rec'[c].turn = 0
          BY <2>1, <3>1, ConnectionAssumption DEF Records
        <4>2. rec'[c] # NoRecord
          BY <4>1, ConnectionAssumption
        <4>3. issued'[k] = 0
          BY <2>1, <3>1 DEF ConnectionTypeOK
        <4> QED BY <2>1, <4>1, <4>2, <4>3 DEF Kept, IsNewest, IsOf
      <3>2. CASE k # consents'
        <4>1. Kept(k) /\ k \in 1..MaxConsents
          BY <2>1, <2>2, <3>2, ConnectionAssumption DEF TokenInv, TokensKept, ConnectionTypeOK
        <4>2. issued'[k] = issued[k]
          BY <2>1, <3>2, <4>1 DEF ConnectionTypeOK
        <4> QED BY <1>1, <2>1, <4>1, <4>2 DEF OthersSame, Kept, IsNewest, IsOf
      <3> QED BY <3>1, <3>2
    <2> QED BY <1>2, <2>1, <2>2 DEF TokenInv, TokensKept
  <1>7. CASE Refresh(c)
    <2>1. rec[c] \in Records /\ (rec[c].consent \in Rotating => rec[c].turn < MaxTurns)
      BY <1>7 DEF Refresh, HandsFull
    <2> DEFINE j == rec[c].consent
    <2>2. Rotated(rec[c]) \in Records /\ Rotated(rec[c]).consent = j /\ j \in 1..MaxConsents
      BY <2>1, RotatedType DEF Records
    <2>3. /\ file' = file /\ gone' = gone /\ behind' = behind /\ pc[c] = "holds"
          /\ pc'[c] = "puts" /\ consents' = consents /\ rec'[c] = Rotated(rec[c])
          /\ issued' = [issued EXCEPT ![j] = Rotated(rec[c]).turn]
      BY <1>7 DEF Refresh, Takes, ConnectionTypeOK, history
    <2>4. ASSUME NEW k \in 1..consents' \ gone' PROVE Kept(k)'
      <3>0. Kept(k) /\ k \in 1..MaxConsents
        BY <2>3, <2>4, ConnectionAssumption DEF TokenInv, TokensKept, ConnectionTypeOK
      <3>1. CASE k = j
        <4>1. Rotated(rec[c]) # NoRecord
          BY <2>2, ConnectionAssumption
        <4>2. issued'[k] = Rotated(rec[c]).turn
          BY <2>2, <2>3, <3>1 DEF ConnectionTypeOK
        <4> QED BY <2>2, <2>3, <3>1, <4>1, <4>2 DEF Kept, IsNewest, IsOf
      <3>2. CASE k # j
        <4>1. issued'[k] = issued[k]
          BY <2>3, <3>0, <3>2 DEF ConnectionTypeOK
        <4> QED BY <1>1, <2>3, <3>0, <4>1 DEF OthersSame, Kept, IsNewest, IsOf
      <3> QED BY <3>1, <3>2
    <2> QED BY <1>2, <2>3, <2>4 DEF TokenInv, TokensKept
  <1>8. CASE Put(c)
    <2>1. rec[c] \in Records /\ rec[c].id \in Names
      BY <1>8 DEF Put, HandsFull, Records
    <2>2. /\ file' = file /\ issued' = issued /\ consents' = consents /\ gone' = gone
          /\ behind' = behind /\ pc'[c] = "saves" /\ rec'[c] = rec[c]
          /\ draft'[c] = [file EXCEPT ![rec[c].id] = rec[c]]
      BY <1>8 DEF Put, Takes, ConnectionTypeOK, history
    <2>3. Agrees(c)'
      BY <2>1, <2>2 DEF Agrees, ConnectionTypeOK
    <2>4. \A d \in Callers \ {c} : Agrees(d)'
      BY <1>1, <2>2, AgreesStays DEF TokenInv
    <2> QED BY <1>3, <2>2, <2>3, <2>4 DEF TokenInv
  <1>9. ASSUME NEW old \in Names, NEW new \in Names, Rename(c, old, new) PROVE TokenInv'
    <2> DEFINE moved == [file[old] EXCEPT !.id = new]
    <2>1. /\ file[old] \in Records /\ moved \in Records /\ moved.id = new
          /\ moved.consent = file[old].consent /\ moved.turn = file[old].turn
          /\ file[old] # NoRecord
      BY <1>9 DEF Rename, ConnectionTypeOK, Records
    <2>2. /\ file' = file /\ issued' = issued /\ consents' = consents /\ gone' = gone
          /\ behind' = behind /\ pc[c] = "idle" /\ pc'[c] = "saves" /\ rec'[c] = moved
          /\ draft'[c] = [file EXCEPT ![old] = NoRecord, ![new] = moved]
      BY <1>9 DEF Rename, Takes, ConnectionTypeOK, history
    <2>3. Agrees(c)'
      BY <2>1, <2>2 DEF Agrees, SameToken, ConnectionTypeOK
    <2>4. \A d \in Callers \ {c} : Agrees(d)'
      BY <1>1, <2>2, AgreesStays DEF TokenInv
    <2> QED BY <1>3, <2>2, <2>3, <2>4 DEF TokenInv
  <1>10. CASE Save(c)
    BY <1>10, SaveKeepsTokens
  <1>11. CASE Crash(c)
    <2>1. /\ file' = file /\ issued' = issued /\ consents' = consents
          /\ pc'[c] = "idle" /\ behind' = [behind EXCEPT ![c] = {}]
          /\ gone' = {k \in gone \cup {rec[c].consent} : ~Kept(k)'}
      BY <1>11 DEF Crash, Leaves, Takes, ConnectionTypeOK
    <2>2. \A d \in Callers : Agrees(d)'
      <3>1. \A d \in Callers \ {c} : behind'[d] = behind[d]
        BY <2>1 DEF ConnectionTypeOK
      <3> QED BY <1>1, <2>1, <3>1, AgreesStays DEF TokenInv, Agrees
    <2>3. ASSUME NEW k \in 1..consents' \ gone' PROVE Kept(k)'
      <3>1. CASE k \in gone \cup {rec[c].consent}
        BY <2>1, <2>3, <3>1
      <3>2. CASE k \notin gone \cup {rec[c].consent}
        <4>1. Kept(k) /\ ~IsNewest(rec[c], k)
          BY <2>1, <2>3, <3>2 DEF TokenInv, TokensKept, IsNewest, IsOf
        <4> QED BY <1>1, <2>1, <4>1 DEF OthersSame, Kept, IsNewest, IsOf
      <3> QED BY <3>1, <3>2
    <2> QED BY <2>2, <2>3 DEF TokenInv, TokensKept
  <1> QED BY <1>4, <1>5, <1>6, <1>7, <1>8, <1>9, <1>10, <1>11 DEF CallerStep

LEMMA TokenInvariant == ConnectionSpec => [](ConnectionTypeOK /\ HandsFull /\ TokenInv)
  <1>1. ConnectionInit => TokenInv
    BY ConnectionAssumption DEF ConnectionInit, TokenInv, TokensKept, Agrees
  <1>2. ConnectionTypeOK /\ HandsFull /\ TokenInv /\ [ConnectionNext]_connectionVars => TokenInv'
    <2>1. ASSUME TokenInv, UNCHANGED connectionVars PROVE TokenInv'
      BY <2>1 DEF connectionVars, hands, history, TokenInv, Agrees, SameToken, TokensKept, Kept,
                  IsNewest, IsOf
    <2> QED BY <2>1, ConnectionSteps, TokenStep
  <1> QED BY <1>1, <1>2, ConnectionTypesInit, ConnectionTypesStep, PTL DEF ConnectionSpec

(* THEOREM: through any pulls, authorisations, renames and deaths, in any   *)
(* interleaving, the newest token of a consent leaves the file and its      *)
(* callers' hands only by a death, by another consent under its own name,   *)
(* or by a write between another caller's read and save (connections.put).  *)
THEOREM NothingDropped == ConnectionSpec => []TokensKept
  <1>1. TokenInv => TokensKept
    BY DEF TokenInv
  <1> QED BY <1>1, TokenInvariant, PTL

(***************************************************************************)
(* One name for a consent.                                                  *)
(***************************************************************************)

(* Every entry carries its own name, and a consent that was given.          *)
Tidy(f) == \A n \in Names : f[n] # NoRecord => f[n].id = n /\ f[n].consent <= consents

Single(f, k) == \A m, n \in Names : IsOf(f[m], k) /\ IsOf(f[n], k) => m = n

(* Where a pull will put consent k back, it is or it is nowhere.            *)
ReturnsTo(c, k) ==
    pc[c] \in {"holds", "puts"} /\ IsOf(rec[c], k) =>
        \A n \in Names : IsOf(file[n], k) => n = rec[c].id

Tidied ==
    /\ Tidy(file)
    /\ \A c \in Callers : /\ pc[c] = "saves" => Tidy(draft[c])
                          /\ pc[c] # "idle" => rec[c].consent <= consents

Placed ==
    \A k \in 1..MaxConsents \ split :
        /\ Single(file, k)
        /\ \A c \in Callers : (pc[c] = "saves" => Single(draft[c], k)) /\ ReturnsTo(c, k)

NameInv == Tidied /\ Placed

(* A step of one caller that leaves the file alone.                         *)
LEMMA OthersPlaced ==
  ASSUME NameInv, NEW c \in Callers, OthersSame(c), file' = file, split' = split,
         consents' = consents,
         pc'[c] = "saves" => Tidy(draft'[c]),
         pc'[c] # "idle" => rec'[c].consent <= consents,
         \A k \in 1..MaxConsents \ split : (pc'[c] = "saves" => Single(draft'[c], k))
                                              /\ ReturnsTo(c, k)'
  PROVE  NameInv'
  <1>1. Tidied'
    BY DEF NameInv, Tidied, Tidy, OthersSame
  <1>2. ASSUME NEW k \in 1..MaxConsents \ split', NEW d \in Callers
        PROVE  (pc'[d] = "saves" => Single(draft'[d], k)) /\ ReturnsTo(d, k)'
    <2>1. CASE d = c
      BY <1>2, <2>1
    <2>2. CASE d # c
      <3>1. pc'[d] = pc[d] /\ rec'[d] = rec[d] /\ draft'[d] = draft[d]
        BY <2>2 DEF OthersSame
      <3>2. (pc[d] = "saves" => Single(draft[d], k)) /\ ReturnsTo(d, k)
        BY <1>2 DEF NameInv, Placed
      <3> QED BY <3>1, <3>2 DEF ReturnsTo, IsOf
    <2> QED BY <2>1, <2>2
  <1>3. \A k \in 1..MaxConsents \ split' : Single(file', k)
    BY DEF NameInv, Placed
  <1>4. Placed'
    BY <1>2, <1>3 DEF Placed, Single, IsOf
  <1> QED BY <1>1, <1>4 DEF NameInv

LEMMA SaveKeepsNames ==
  ASSUME ConnectionTypeOK, HandsFull, NameInv, NEW c \in Callers, Save(c)
  PROVE  NameInv'
  <1>1. OthersSame(c)
    BY StepOthers DEF CallerStep
  <1>2. /\ pc[c] = "saves" /\ file' = draft[c] /\ consents' = consents /\ pc'[c] = "idle"
        /\ split' = split \cup {k \in Pulled(c) : NamesOf(file, k) # NamesOf(draft[c], k)}
    BY DEF Save, Leaves, Takes, ConnectionTypeOK
  <1>3. Tidied'
    BY <1>1, <1>2 DEF NameInv, Tidied, Tidy, OthersSame
  <1>4. ASSUME NEW k \in 1..MaxConsents \ split', NEW d \in Callers
        PROVE  (pc'[d] = "saves" => Single(draft'[d], k)) /\ ReturnsTo(d, k)'
    <2>1. CASE d = c
      BY <1>2, <2>1 DEF ReturnsTo
    <2>2. CASE d # c
      <3>1. pc'[d] = pc[d] /\ rec'[d] = rec[d] /\ draft'[d] = draft[d]
        BY <1>1, <2>2 DEF OthersSame
      <3>2. (pc[d] = "saves" => Single(draft[d], k)) /\ ReturnsTo(d, k)
        BY <1>2, <1>4 DEF NameInv, Placed
      <3>3. ASSUME pc[d] \in {"holds", "puts"}, IsOf(rec[d], k), NEW n \in Names, IsOf(file'[n], k)
            PROVE  n = rec[d].id
        <4>1. k \in Pulled(c)
          BY <2>2, <3>3 DEF Pulled
        <4>2. NamesOf(file, k) = NamesOf(draft[c], k)
          BY <1>2, <1>4, <4>1
        <4>3. n \in NamesOf(file, k)
          BY <1>2, <3>3, <4>2 DEF NamesOf
        <4> QED BY <3>2, <3>3, <4>3 DEF ReturnsTo, NamesOf
      <3> QED BY <3>1, <3>2, <3>3 DEF ReturnsTo, IsOf
    <2> QED BY <2>1, <2>2
  <1>5. \A k \in 1..MaxConsents \ split' : Single(file', k)
    BY <1>2 DEF NameInv, Placed
  <1>6. Placed'
    BY <1>4, <1>5 DEF Placed, Single, IsOf
  <1> QED BY <1>3, <1>6 DEF NameInv

LEMMA NameStep ==
  ASSUME ConnectionTypeOK, HandsFull, NameInv, NEW c \in Callers, CallerStep(c)
  PROVE  NameInv'
  <1>1. OthersSame(c)
    BY StepOthers
  <1>2. ASSUME NEW n \in Names, Read(c, n) PROVE NameInv'
    <2>1. /\ file' = file /\ split' = split /\ consents' = consents /\ pc'[c] = "holds"
          /\ rec'[c] = file[n] /\ file[n] # NoRecord
      BY <1>2 DEF Read, Takes, ConnectionTypeOK, history
    <2>2. file[n].id = n /\ file[n].consent <= consents
      BY <2>1 DEF NameInv, Tidied, Tidy
    <2>3. ASSUME NEW k \in 1..MaxConsents \ split PROVE ReturnsTo(c, k)'
      <3>1. Single(file, k)
        BY <2>3 DEF NameInv, Placed
      <3> QED BY <2>1, <2>2, <3>1 DEF ReturnsTo, Single, IsOf
    <2> QED BY <1>1, <2>1, <2>2, <2>3, OthersPlaced
  <1>3. CASE NoRefresh(c) \/ Crash(c)
    <2>1. file' = file /\ split' = split /\ consents' = consents /\ pc'[c] = "idle"
      BY <1>3 DEF NoRefresh, Crash, Leaves, Takes, ConnectionTypeOK, history
    <2> QED BY <1>1, <2>1, OthersPlaced DEF ReturnsTo
  <1>4. ASSUME NEW n \in Names, Authorise(c, n) PROVE NameInv'
    <2>1. /\ file' = file /\ split' = split /\ consents' = consents + 1
          /\ pc'[c] = "puts" /\ consents' \in 1..MaxConsents
          /\ rec'[c] = [id |-> n, consent |-> consents', turn |-> 0]
      BY <1>4, ConnectionAssumption DEF Authorise, Takes, ConnectionTypeOK, history
    <2>2. \A m \in Names : file[m] # NoRecord => file[m].consent # consents'
      BY <2>1 DEF NameInv, Tidied, Tidy, ConnectionTypeOK, Records
    <2>3. Tidied'
      <3>1. Tidy(file)'
        BY <2>1 DEF NameInv, Tidied, Tidy, ConnectionTypeOK, Records
      <3>2. ASSUME NEW d \in Callers
            PROVE  (pc'[d] = "saves" => Tidy(draft[d])') /\ (pc'[d] # "idle" => rec'[d].consent <= consents')
        <4>1. CASE d = c
          BY <2>1, <4>1, ConnectionAssumption
        <4>2. CASE d # c
          <5>1. pc'[d] = pc[d] /\ rec'[d] = rec[d] /\ draft'[d] = draft[d]
            BY <1>1, <4>2 DEF OthersSame
          <5>2. pc[d] # "idle" => rec[d].consent <= consents /\ rec[d].consent \in Nat
            BY DEF NameInv, Tidied, HandsFull, Records
          <5>3. ASSUME pc[d] = "saves", NEW m \in Names, draft[d][m] # NoRecord
                PROVE  draft[d][m].id = m /\ draft[d][m].consent <= consents /\ draft[d][m].consent \in Nat
            BY <5>3 DEF NameInv, Tidied, Tidy, ConnectionTypeOK, Records
          <5> QED BY <2>1, <5>1, <5>2, <5>3 DEF Tidy, ConnectionTypeOK
        <4> QED BY <4>1, <4>2
      <3> QED BY <3>1, <3>2 DEF Tidied
    <2>4. ASSUME NEW k \in 1..MaxConsents \ split', NEW d \in Callers
          PROVE  (pc'[d] = "saves" => Single(draft'[d], k)) /\ ReturnsTo(d, k)'
      <3>1. CASE d = c
        BY <2>1, <2>2, <3>1 DEF ReturnsTo, IsOf
      <3>2. CASE d # c
        <4>1. pc'[d] = pc[d] /\ rec'[d] = rec[d] /\ draft'[d] = draft[d]
          BY <1>1, <3>2 DEF OthersSame
        <4>2. (pc[d] = "saves" => Single(draft[d], k)) /\ ReturnsTo(d, k)
          BY <2>1, <2>4 DEF NameInv, Placed
        <4> QED BY <2>1, <4>1, <4>2 DEF ReturnsTo, IsOf
      <3> QED BY <3>1, <3>2
    <2>5. \A k \in 1..MaxConsents \ split' : Single(file', k)
      BY <2>1 DEF NameInv, Placed
    <2>6. Placed'
      BY <2>4, <2>5 DEF Placed, Single, IsOf
    <2> QED BY <2>3, <2>6 DEF NameInv
  <1>5. CASE Refresh(c)
    <2>1. rec[c] \in Records /\ (rec[c].consent \in Rotating => rec[c].turn < MaxTurns)
      BY <1>5 DEF Refresh, HandsFull
    <2>2. /\ Rotated(rec[c]) \in Records /\ Rotated(rec[c]).consent = rec[c].consent
          /\ Rotated(rec[c]).id = rec[c].id
      BY <2>1, RotatedType
    <2>3. /\ file' = file /\ split' = split /\ consents' = consents /\ pc[c] = "holds"
          /\ pc'[c] = "puts" /\ rec'[c] = Rotated(rec[c])
      BY <1>5 DEF Refresh, Takes, ConnectionTypeOK, history
    <2>4. rec[c] # NoRecord
      BY <2>1, ConnectionAssumption
    <2>5. \A k \in 1..MaxConsents \ split : ReturnsTo(c, k)'
      BY <2>2, <2>3, <2>4 DEF NameInv, Placed, ReturnsTo, IsOf
    <2>6. rec'[c].consent <= consents
      BY <2>2, <2>3 DEF NameInv, Tidied
    <2> QED BY <1>1, <2>3, <2>5, <2>6, OthersPlaced
  <1>6. CASE Put(c)
    <2>1. rec[c] \in Records /\ rec[c].id \in Names /\ pc[c] = "puts"
      BY <1>6 DEF Put, HandsFull, Records
    <2>2. /\ file' = file /\ split' = split /\ consents' = consents /\ pc'[c] = "saves"
          /\ rec'[c] = rec[c] /\ draft'[c] = [file EXCEPT ![rec[c].id] = rec[c]]
      BY <1>6 DEF Put, Takes, ConnectionTypeOK, history
    <2>3. \A n \in Names : draft'[c][n] = IF n = rec[c].id THEN rec[c] ELSE file[n]
      BY <2>1, <2>2 DEF ConnectionTypeOK
    <2>4. Tidy(draft'[c]) /\ rec'[c].consent <= consents
      BY <2>1, <2>2, <2>3 DEF NameInv, Tidied, Tidy
    <2>5. ASSUME NEW k \in 1..MaxConsents \ split PROVE Single(draft'[c], k)
      <3>1. Single(file, k) /\ ReturnsTo(c, k)
        BY <2>5 DEF NameInv, Placed
      <3> QED BY <2>1, <2>3, <3>1 DEF Single, ReturnsTo, IsOf
    <2>6. \A k \in 1..MaxConsents : ReturnsTo(c, k)'
      BY <2>2 DEF ReturnsTo
    <2> QED BY <1>1, <2>2, <2>4, <2>5, <2>6, OthersPlaced
  <1>7. ASSUME NEW old \in Names, NEW new \in Names, Rename(c, old, new) PROVE NameInv'
    <2> DEFINE moved == [file[old] EXCEPT !.id = new]
    <2>1. /\ file[old] # NoRecord /\ moved.id = new /\ moved.consent = file[old].consent
          /\ old # new /\ file[old].consent <= consents
      BY <1>7 DEF Rename, ConnectionTypeOK, Records, NameInv, Tidied, Tidy
    <2>2. /\ file' = file /\ split' = split /\ consents' = consents /\ pc'[c] = "saves"
          /\ rec'[c] = moved /\ draft'[c] = [file EXCEPT ![old] = NoRecord, ![new] = moved]
      BY <1>7 DEF Rename, Takes, ConnectionTypeOK, history
    <2>3. \A n \in Names : draft'[c][n] = IF n = new THEN moved
                                          ELSE IF n = old THEN NoRecord ELSE file[n]
      BY <2>1, <2>2 DEF ConnectionTypeOK
    <2>4. Tidy(draft'[c])
      BY <2>1, <2>3 DEF NameInv, Tidied, Tidy
    <2>5. ASSUME NEW k \in 1..MaxConsents \ split PROVE Single(draft'[c], k)
      <3>1. \A m, n \in Names : IsOf(file[m], k) /\ IsOf(file[n], k) => m = n
        BY <2>5 DEF NameInv, Placed, Single
      <3>2. IsOf(moved, k) => IsOf(file[old], k)
        BY <2>1 DEF IsOf
      <3>3. ~IsOf(NoRecord, k)
        BY DEF IsOf
      <3>4. \A n \in Names : IsOf(draft'[c][n], k) =>
                \/ n = new /\ IsOf(file[old], k)
                \/ n # new /\ n # old /\ IsOf(file[n], k)
        <4> HIDE DEF moved
        <4> QED BY <2>3, <3>2, <3>3
      <3>5. \A m, n \in Names : IsOf(draft'[c][m], k) /\ IsOf(draft'[c][n], k) => m = n
        <4> HIDE DEF moved
        <4> QED BY <1>7, <3>1, <3>4
      <3> QED BY <3>5 DEF Single
    <2>6. \A k \in 1..MaxConsents : ReturnsTo(c, k)'
      BY <2>2 DEF ReturnsTo
    <2> QED BY <1>1, <2>1, <2>2, <2>4, <2>5, <2>6, OthersPlaced
  <1>8. CASE Save(c)
    BY <1>8, SaveKeepsNames
  <1> QED BY <1>2, <1>3, <1>4, <1>5, <1>6, <1>7, <1>8 DEF CallerStep

LEMMA NameInvariant == ConnectionSpec => [](ConnectionTypeOK /\ HandsFull /\ NameInv)
  <1>1. ConnectionInit => NameInv
    BY DEF ConnectionInit, NameInv, Tidied, Tidy, Placed, Single, ReturnsTo, IsOf, Empty
  <1>2. ConnectionTypeOK /\ HandsFull /\ NameInv /\ [ConnectionNext]_connectionVars => NameInv'
    <2>1. ASSUME NameInv, UNCHANGED connectionVars PROVE NameInv'
      BY <2>1 DEF connectionVars, hands, history, NameInv, Tidied, Tidy, Placed, Single,
                  ReturnsTo, IsOf
    <2> QED BY <2>1, ConnectionSteps, NameStep
  <1> QED BY <1>1, <1>2, ConnectionTypesInit, ConnectionTypesStep, PTL DEF ConnectionSpec

LEMMA SingleIsOne ==
  ASSUME NEW f, NEW k, Single(f, k)
  PROVE  Cardinality(NamesOf(f, k)) <= 1
  <1>1. CASE NamesOf(f, k) = {}
    BY <1>1, FS_EmptySet
  <1>2. CASE NamesOf(f, k) # {}
    <2>1. PICK n \in Names : IsOf(f[n], k)
      BY <1>2 DEF NamesOf
    <2>2. NamesOf(f, k) = {n}
      BY <2>1 DEF Single, NamesOf
    <2>3. Cardinality({n}) = 1
      BY FS_Singleton
    <2> QED BY <2>2, <2>3
  <1> QED BY <1>1, <1>2

(* THEOREM: in any interleaving of pulls, authorisations, renames and       *)
(* deaths, a consent is under two names only if its entry moved while a     *)
(* pull had it in hand (connections.rename, connections.put).               *)
THEOREM NamesApart == ConnectionSpec => []OneNamePerConsent
  <1>1. ConnectionTypeOK /\ NameInv => OneNamePerConsent
    <2> SUFFICES ASSUME ConnectionTypeOK, NameInv, NEW k \in 1..consents \ split
                 PROVE  Cardinality(NamesOf(file, k)) <= 1
      BY DEF OneNamePerConsent
    <2>1. k \in 1..MaxConsents \ split
      BY ConnectionAssumption DEF ConnectionTypeOK
    <2> QED BY <2>1, SingleIsOne DEF NameInv, Placed
  <1> QED BY <1>1, NameInvariant, PTL
=============================================================================
