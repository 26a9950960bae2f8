-------------------------- MODULE LeaseFileProofs --------------------------
(***************************************************************************)
(* Proved of LeaseFile for every TTL and every set of callers: its types.  *)
(* For every TTL and a single caller that crashes and returns: its lease   *)
(* stays readable throughout its section, and the file protocol            *)
(* implements the TimedLease its readers rely on.                          *)
(***************************************************************************)
EXTENDS LeaseFile, TLAPS

LEMMA NewInodeIsNew == NewInode \subseteq Unreferenced
  BY DEF NewInode

(* What Surviving keeps and what it erases stays within the entries.       *)
LEMMA SurvivingType ==
  ASSUME NEW content \in [Inodes -> Entries]
  PROVE  Surviving(content) \in [Inodes -> Entries]
  BY DEF Surviving, Entries

LEMMA AgeingType ==
  ASSUME NEW e \in Entries
  PROVE  [e EXCEPT !.age = Older(e.age)] \in Entries
  <1>1. CASE e = Torn
    <2>1. Older(e.age) = e.age
      BY <1>1, TTLAssumption DEF Older, Torn
    <2>2. [e EXCEPT !.age = Older(e.age)] = Torn
      BY <1>1, <2>1 DEF Torn
    <2> QED BY <2>2 DEF Entries
  <1>2. CASE e \in [by : Actors, age : Ages]
    <2>1. Older(e.age) \in Ages
      BY <1>2, TTLAssumption DEF Older, Ages
    <2> QED BY <1>2, <2>1 DEF Entries
  <1> QED BY <1>1, <1>2 DEF Entries

(* The loop of acquire_exclusive runs only while it has attempts left.     *)
TriesLeft ==
    \A a \in Actors :
        pc[a] \in {"create", "read", "unlink"} => tries[a] \in 1..2

LEMMA TriesLeftStep ==
  ASSUME TypeOK, TriesLeft, [Next]_vars
  PROVE  TriesLeft'
  <1> USE DEF TypeOK, TriesLeft, Goto
  <1>1. ASSUME NEW a \in Pressers, BeginExclusive(a) \/ ExclusiveStep(a) PROVE TriesLeft'
    BY <1>1 DEF BeginExclusive, Attempts, ExclusiveStep, CreateFile, FileExists, ReadLive,
                ReadDead, UnlinkDead, WritePayload, Actors
  <1>2. ASSUME NEW a \in Actors, BeginAcquire(a) \/ AcquireStep(a) PROVE TriesLeft'
    BY <1>2 DEF BeginAcquire, AcquireStep, OpenTemp, WriteTemp, RenameTemp, RenameFails
  <1>3. ASSUME NEW a \in Actors, Release(a) \/ Crash(a) PROVE TriesLeft'
    BY <1>3 DEF Release, Crash
  <1>4. CASE Tick \/ UNCHANGED vars
    BY <1>4 DEF Tick, vars
  <1> QED BY <1>1, <1>2, <1>3, <1>4 DEF Next

(* THEOREM: no step takes a variable out of its type.                      *)
THEOREM TypeCorrect == Spec => []TypeOK
  <1>1. Init => TypeOK /\ TriesLeft
    BY TTLAssumption DEF Init, TypeOK, TriesLeft, PCs, InCall, Ages, Entries
  <1>2. ASSUME TypeOK, TriesLeft, [Next]_vars PROVE TypeOK'
    <2> USE <1>2 DEF TypeOK
    <2>t. TTL + 1 \in Ages /\ 0 \in Ages
      BY TTLAssumption DEF Ages
    <2>1. ASSUME NEW a \in Pressers, BeginExclusive(a) PROVE TypeOK'
      BY <2>1, <2>t DEF BeginExclusive, Attempts, Goto, PCs, InCall, Actors
    <2>2. ASSUME NEW a \in Pressers, ExclusiveStep(a) PROVE TypeOK'
      <3>a. a \in Actors BY DEF Actors
      <3>1. CASE CreateFile(a)
        BY <3>1, <3>a, NewInodeIsNew DEF CreateFile, Goto, PCs, InCall, Unreferenced, Entries
      <3>2. CASE FileExists(a) \/ ReadLive(a) \/ ReadDead(a)
        BY <3>2, <3>a DEF FileExists, ReadLive, ReadDead, Goto, PCs, InCall
      <3>3. CASE UnlinkDead(a)
        <4>1. text' \in [Inodes -> Entries]
          BY <3>3, SurvivingType DEF UnlinkDead
        <4>2. tries' \in [Actors -> 0..2] 
          <5>1. tries[a] \in 1..2
            BY <3>3, <3>a DEF UnlinkDead, TriesLeft
          <5> QED BY <3>3, <3>a, <5>1 DEF UnlinkDead
        <4> QED BY <3>3, <3>a, <4>1, <4>2 DEF UnlinkDead, Goto, PCs, InCall
      <3>4. CASE WritePayload(a)
        <4>1. [text EXCEPT ![fd[a]] = [by |-> a, age |-> stamp[a]]] \in [Inodes -> Entries]
          BY <3>a DEF Entries
        <4>2. text' \in [Inodes -> Entries]
          BY <3>4, <4>1, SurvivingType DEF WritePayload
        <4> QED BY <3>4, <3>a, <4>2 DEF WritePayload, ClosedFd, Goto, PCs
      <3> QED BY <2>2, <3>1, <3>2, <3>3, <3>4 DEF ExclusiveStep
    <2>3. ASSUME NEW a \in Actors, BeginAcquire(a) PROVE TypeOK'
      BY <2>3, <2>t DEF BeginAcquire, Goto, PCs, InCall
    <2>4. ASSUME NEW a \in Actors, AcquireStep(a) PROVE TypeOK'
      <3>1. CASE OpenTemp(a)
        BY <3>1, NewInodeIsNew DEF OpenTemp, Goto, PCs, InCall, Unreferenced, Entries
      <3>2. CASE WriteTemp(a)
        <4>1. [text EXCEPT ![fd[a]] = [by |-> a, age |-> stamp[a]]] \in [Inodes -> Entries]
          BY DEF Entries
        <4>2. text' \in [Inodes -> Entries]
          BY <3>2, <4>1, SurvivingType DEF WriteTemp
        <4> QED BY <3>2, <4>2 DEF WriteTemp, ClosedFd, Goto, PCs, InCall
      <3>3. CASE RenameTemp(a)
        <4>1. text' \in [Inodes -> Entries]
          BY <3>3, SurvivingType DEF RenameTemp
        <4> QED BY <3>3, <4>1 DEF RenameTemp, Goto, PCs
      <3>4. CASE RenameFails(a)
        BY <3>4 DEF RenameFails, Goto, PCs
      <3> QED BY <2>4, <3>1, <3>2, <3>3, <3>4 DEF AcquireStep
    <2>5. ASSUME NEW a \in Actors, Release(a) PROVE TypeOK'
      <3>1. text' \in [Inodes -> Entries]
        BY <2>5, SurvivingType DEF Release
      <3> QED BY <2>5, <3>1 DEF Release, Goto, PCs
    <2>6. ASSUME NEW a \in Actors, Crash(a) PROVE TypeOK'
      <3>1. text' \in [Inodes -> Entries]
        BY <2>6, SurvivingType DEF Crash
      <3> QED BY <2>6, <3>1 DEF Crash, ClosedFd, Goto, PCs
    <2>7. CASE Tick
      <3>1. text' \in [Inodes -> Entries]
        BY <2>7, AgeingType DEF Tick
      <3>2. stamp' \in [Actors -> Ages]
        BY <2>7, TTLAssumption DEF Tick, Older, Ages
      <3> QED BY <2>7, <3>1, <3>2 DEF Tick
    <2>8. CASE UNCHANGED vars
      BY <2>8 DEF vars
    <2> QED BY <1>2, <2>1, <2>2, <2>3, <2>4, <2>5, <2>6, <2>7, <2>8 DEF Next
  <1> QED BY <1>1, <1>2, TriesLeftStep, PTL DEF Spec

-----------------------------------------------------------------------------
(* A single caller.                                                        *)

SoleCaller == \E p : Pressers = {p} /\ Takers = {}

(* What its next file-system call relies on: the file it is about to write *)
(* is the one under the name, and the temporary file is its own.           *)
OwnFiles(a) ==
    /\ pc[a] = "write" => path # NoInode /\ fd[a] = path /\ text[path] = Torn
    /\ pc[a] = "writetmp" => tmp # NoInode /\ fd[a] = tmp
    /\ pc[a] = "rename" => tmp # NoInode /\ text[tmp].by = a
    /\ pc[a] \notin {"write", "writetmp"} => fd[a] = NoInode

(* A verdict that a lease is dead stays true until it is acted upon.       *)
VerdictStands(a) == pc[a] = "unlink" => ~Held

SoleInv ==
    /\ TypeOK
    /\ OnlyTheClockHides
    /\ tmp # NoInode => tmp # path
    /\ \A a \in Actors : OwnFiles(a) /\ VerdictStands(a)

LEMMA SoleInit == Init => SoleInv
  BY TTLAssumption DEF Init, SoleInv, TypeOK, OnlyTheClockHides, OwnFiles, VerdictStands,
     InSection, Renewing, PCs, InCall, Ages, Entries

LEMMA SoleStep ==
  ASSUME SoleCaller, SoleInv, TypeOK', [Next]_vars
  PROVE  SoleInv'
  <1>p. PICK p : Pressers = {p} /\ Takers = {}
    BY DEF SoleCaller
  <1>a. Actors = {p}
    BY <1>p DEF Actors
  <1> USE <1>a, <1>p DEF SoleInv, TypeOK, OnlyTheClockHides, OwnFiles, VerdictStands, InSection,
          Renewing, Goto
  <1>1. CASE BeginExclusive(p)
    BY <1>1 DEF BeginExclusive, Held
  <1>2. CASE CreateFile(p)
    BY <1>2, NewInodeIsNew, InodesAssumption DEF CreateFile, Unreferenced, Held
  <1>3. CASE FileExists(p)
    BY <1>3 DEF FileExists
  <1>4. CASE ReadLive(p)
    BY <1>4 DEF ReadLive
  <1>5. CASE ReadDead(p)
    BY <1>5 DEF ReadDead, Held
  <1>6. CASE UnlinkDead(p)
    BY <1>6 DEF UnlinkDead, Held
  <1>7. CASE WritePayload(p)
    BY <1>7, InodesAssumption DEF WritePayload, ClosedFd, Surviving, Unreferenced
  <1>8. CASE BeginAcquire(p)
    BY <1>8 DEF BeginAcquire
  <1>9. CASE OpenTemp(p)
    BY <1>9, NewInodeIsNew, InodesAssumption DEF OpenTemp, Unreferenced
  <1>10. CASE WriteTemp(p)
    BY <1>10, InodesAssumption DEF WriteTemp, ClosedFd, Surviving, Unreferenced
  <1>11. CASE RenameTemp(p)
    BY <1>11, InodesAssumption DEF RenameTemp, Surviving, Unreferenced
  <1>12. CASE RenameFails(p)
    BY <1>12 DEF RenameFails
  <1>13. CASE Release(p)
    BY <1>13, InodesAssumption DEF Release, Surviving, Unreferenced
  <1>14. CASE Crash(p)
    BY <1>14, InodesAssumption DEF Crash, ClosedFd
  <1>15. CASE Tick
    BY <1>15, TTLAssumption DEF Tick, Held, Expired, Older, Torn, Entries, Ages
  <1>16. CASE UNCHANGED vars
    BY <1>16 DEF vars, Held
  <1> QED BY <1>1, <1>2, <1>3, <1>4, <1>5, <1>6, <1>7, <1>8, <1>9, <1>10, <1>11, <1>12,
             <1>13, <1>14, <1>15, <1>16 DEF Next, ExclusiveStep, AcquireStep

(* THEOREM: through its renewals and its crashes, a caller inside its      *)
(* section always has a whole lease file of its own under the name.        *)
THEOREM SoleCallerVisible ==
  ASSUME SoleCaller
  PROVE  Spec => []OnlyTheClockHides
  <1>1. SoleInv /\ TypeOK' /\ [Next]_vars => SoleInv'
    BY SoleStep
  <1>2. SoleInv => OnlyTheClockHides
    BY DEF SoleInv
  <1> QED BY <1>1, <1>2, SoleInit, TypeCorrect, PTL DEF Spec

LEMMA EntryReadAges ==
  ASSUME TypeOK, Tick, EntryRead # NoInode
  PROVE  Lease!Age \/ UNCHANGED EntryRead
  <1>1. path \in Inodes /\ text[path] # Torn /\ EntryRead = text[path]
    BY DEF EntryRead, TypeOK
  <1>2. text[path] \in [by : Actors, age : Ages]
    BY <1>1 DEF TypeOK, Entries
  <1>3. PICK b \in Actors, g \in Ages : text[path] = [by |-> b, age |-> g]
    BY <1>2
  <1>4. path' = path /\ text'[path] = [by |-> b, age |-> Older(g)]
    BY <1>1, <1>3 DEF Tick
  <1>5. EntryRead' = [by |-> b, age |-> Older(g)]
    BY <1>1, <1>4, NobodyAssumption DEF EntryRead, Torn
  <1>6. {a \in Actors : InSection(a)}' = {a \in Actors : InSection(a)}
    BY DEF Tick, InSection, Renewing
  <1> QED BY <1>1, <1>3, <1>5, <1>6 DEF Lease!Age, Older

(* THEOREM: the files of a single caller, torn, renamed and left behind by *)
(* its crashes, read as a TimedLease.                                      *)
THEOREM SoleCallerImplements ==
  ASSUME SoleCaller
  PROVE  Spec => ImplementsTimedLease
  <1>p. PICK p : Pressers = {p} /\ Takers = {}
    BY DEF SoleCaller
  <1>a. Actors = {p}
    BY <1>p DEF Actors
  <1>1. Init => Lease!Init
    BY DEF Init, Lease!Init, EntryRead, InSection, Renewing
  <1>2. ASSUME SoleInv, TypeOK', SoleInv', [Next]_vars
        PROVE  [Lease!Next]_(Lease!leaseVars)
    <2> DEFINE In == {a \in Actors : InSection(a)}
    <2> USE <1>a, <1>p, <1>2 DEF SoleInv, TypeOK, OwnFiles, VerdictStands, Goto
    <2>s. ASSUME UNCHANGED EntryRead, UNCHANGED In PROVE [Lease!Next]_(Lease!leaseVars)
      BY <2>s DEF Lease!leaseVars
    <2>1. CASE BeginExclusive(p) \/ FileExists(p) \/ ReadLive(p) \/ ReadDead(p)
      <3>1. UNCHANGED EntryRead
        BY <2>1 DEF BeginExclusive, FileExists, ReadLive, ReadDead, EntryRead
      <3>2. UNCHANGED In
        BY <2>1 DEF BeginExclusive, FileExists, ReadLive, ReadDead, InSection, Renewing
      <3> QED BY <3>1, <3>2, <2>s
    <2>2. CASE CreateFile(p)
      <3>1. EntryRead = NoInode /\ EntryRead' = NoInode
        BY <2>2, NewInodeIsNew DEF CreateFile, EntryRead, Unreferenced
      <3>2. UNCHANGED In
        BY <2>2 DEF CreateFile, InSection, Renewing
      <3> QED BY <3>1, <3>2, <2>s
    <2>3. CASE UnlinkDead(p)
      <3>1. EntryRead' = NoInode
        BY <2>3 DEF UnlinkDead, EntryRead
      <3>2. UNCHANGED In
        BY <2>3 DEF UnlinkDead, InSection, Renewing
      <3>3. ~Lease!Live
        BY <2>3, TTLAssumption DEF UnlinkDead, Lease!Live, Held, Expired, EntryRead, Ages, Entries, Torn
      <3> QED BY <3>1, <3>2, <3>3 DEF Lease!Next, Lease!Sweep
    <2>4. CASE WritePayload(p)
      <3>1. path' \in Inodes /\ text'[path'] = [by |-> p, age |-> stamp[p]]
        BY <2>4, InodesAssumption DEF WritePayload, Surviving, Unreferenced
      <3>2. EntryRead' = [by |-> p, age |-> stamp[p]]
        BY <3>1, NobodyAssumption, InodesAssumption DEF EntryRead, Torn
      <3>3. ~Lease!Live
        BY <2>4 DEF WritePayload, EntryRead, Lease!Live
      <3>4. In' = In \cup {p}
        BY <2>4 DEF WritePayload, InSection, Renewing
      <3>5. stamp[p] \in Lease!Ages
        BY DEF Lease!Ages, Ages
      <3>6. Lease!Take(p)
        BY <3>2, <3>3, <3>4, <3>5 DEF Lease!Take
      <3> QED BY <3>6 DEF Lease!Next
    <2>5. CASE BeginAcquire(p)
      <3>1. UNCHANGED EntryRead
        BY <2>5 DEF BeginAcquire, EntryRead
      <3>2. UNCHANGED In
        BY <2>5 DEF BeginAcquire, InSection, Renewing
      <3> QED BY <3>1, <3>2, <2>s
    <2>6. CASE OpenTemp(p)
      <3>1. UNCHANGED EntryRead
        BY <2>6, NewInodeIsNew, InodesAssumption DEF OpenTemp, EntryRead, Unreferenced
      <3>2. UNCHANGED In
        BY <2>6 DEF OpenTemp, InSection, Renewing
      <3> QED BY <3>1, <3>2, <2>s
    <2>7. CASE WriteTemp(p)
      <3>1. UNCHANGED EntryRead
        BY <2>7, InodesAssumption DEF WriteTemp, EntryRead, Surviving, Unreferenced
      <3>2. UNCHANGED In
        BY <2>7 DEF WriteTemp, InSection, Renewing
      <3> QED BY <3>1, <3>2, <2>s
    <2>8. CASE RenameTemp(p)
      <3>1. path' \in Inodes /\ path' = tmp /\ text'[path'] = text[tmp] /\ text[tmp].by = p
        BY <2>8, InodesAssumption DEF RenameTemp, Surviving, Unreferenced
      <3>2. text[tmp] \in [by : Actors, age : Ages]
        BY <3>1, NobodyAssumption DEF Entries, Torn
      <3>3. PICK g \in Ages : text[tmp] = [by |-> p, age |-> g]
        BY <3>1, <3>2
      <3>4. EntryRead' = [by |-> p, age |-> g] /\ g \in Lease!Ages
        BY <3>1, <3>3, NobodyAssumption, InodesAssumption DEF EntryRead, Torn, Lease!Ages, Ages
      <3>5. UNCHANGED In /\ p \in In
        BY <2>8 DEF RenameTemp, InSection, Renewing
      <3>6. Lease!Renew(p)
        BY <3>4, <3>5 DEF Lease!Renew
      <3> QED BY <3>6 DEF Lease!Next
    <2>9. CASE RenameFails(p)
      BY <2>9 DEF RenameFails
    <2>10. CASE Release(p)
      <3>1. EntryRead' = NoInode
        BY <2>10 DEF Release, EntryRead
      <3>2. p \in In /\ In' = In \ {p}
        BY <2>10 DEF Release, InSection, Renewing
      <3> QED BY <3>1, <3>2 DEF Lease!Next, Lease!Release
    <2>11. CASE Crash(p)
      <3>1. In' = In \ {p}
        BY <2>11 DEF Crash, InSection, Renewing
      <3>2. UNCHANGED EntryRead
        BY <2>11, InodesAssumption DEF Crash, EntryRead, Surviving, Unreferenced
      <3> QED BY <3>1, <3>2 DEF Lease!Next, Lease!Die
    <2>12. CASE Tick
      <3>1. UNCHANGED In
        BY <2>12 DEF Tick, InSection, Renewing
      <3>2. CASE EntryRead # NoInode
        BY <3>1, <3>2, <2>12, <2>s, EntryReadAges DEF Lease!Next
      <3>3. CASE EntryRead = NoInode
        <4>1. path = NoInode \/ text[path] = Torn
          BY <3>3, NoEntryAssumption DEF EntryRead
        <4>2. ASSUME path \in Inodes, text[path] = Torn PROVE text'[path] = Torn
          BY <4>2, <2>12, TTLAssumption DEF Tick, Torn, Older
        <4>3. EntryRead' = NoInode
          BY <4>1, <4>2, <2>12 DEF EntryRead, Tick
        <4> QED BY <3>1, <3>3, <4>3, <2>s
      <3> QED BY <3>2, <3>3
    <2>13. CASE UNCHANGED vars
      BY <2>13, <2>s DEF vars, EntryRead, InSection, Renewing
    <2> QED BY <2>1, <2>2, <2>3, <2>4, <2>5, <2>6, <2>7, <2>8, <2>9, <2>10, <2>11, <2>12,
               <2>13 DEF Next, ExclusiveStep, AcquireStep
  <1>3. SoleInv /\ TypeOK' /\ [Next]_vars => SoleInv'
    BY SoleStep
  <1> QED BY <1>1, <1>2, <1>3, SoleInit, TypeCorrect, PTL DEF Spec, ImplementsTimedLease, Lease!Spec
=============================================================================
