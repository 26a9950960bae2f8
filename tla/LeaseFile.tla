----------------------------- MODULE LeaseFile -----------------------------
(***************************************************************************)
(* One cooperative lease as the file it is: ingest/leases.py (and its      *)
(* twin applier/lease.mjs), one file-system call per step.                 *)
(*                                                                         *)
(* A lease is a JSON file [by, taken_at, ttl].  It is taken in two ways:   *)
(* acquire_exclusive() contests it with O_CREAT|O_EXCL, and acquire()      *)
(* overwrites it by writing a temporary file and renaming it into place    *)
(* (the holder's renewal, and the way the pull cycle and the bank          *)
(* authorisation take theirs).  A file is identified by its inode: a       *)
(* process that created a file keeps writing to it after another process   *)
(* unlinked the name.                                                      *)
(*                                                                         *)
(* Time is kept as the age of each stamp, counted up to TTL + 1: every     *)
(* later age is as expired as that one.                                    *)
(***************************************************************************)
EXTENDS Integers, FiniteSets

CONSTANTS Pressers,   \* callers of acquire_exclusive
          Takers,     \* callers of acquire, who overwrite whatever lease is there
          Inodes,     \* identities of the files in the locks directory
          TTL,        \* ttl_seconds, in ticks
          NoInode     \* no such file (and no entry to read)

Actors == Pressers \cup Takers

ASSUME TTLAssumption == TTL \in Nat \ {0}
ASSUME InodesAssumption == NoInode \notin Inodes
ASSUME NobodyAssumption == "nobody" \notin Actors

VARIABLES path,    \* the inode the lease's name resolves to
          tmp,     \* the inode its temporary name resolves to
          text,    \* what is written in each inode
          pc,      \* the next file-system call of each actor
          fd,      \* the inode an actor has open for writing
          stamp,   \* age of the taken_at an actor put in its payload
          tries    \* attempts left in acquire_exclusive's loop

vars == <<path, tmp, text, pc, fd, stamp, tries>>

Ages == 0..(TTL + 1)
Torn == [by |-> "nobody", age |-> TTL + 1]      \* empty: json.loads refuses it
Entries == [by : Actors, age : Ages] \cup {Torn}

ASSUME NoEntryAssumption == NoInode \notin Entries

InCall == {"create", "read", "unlink", "write", "opentmp", "writetmp", "rename"}
PCs == {"idle", "hold"} \cup InCall

(* _expired: strictly older than its TTL.  An unparseable entry reads as   *)
(* absent, like an expired one.                                            *)
ExpiredEarly(entry) == entry.age >= TTL      \* mutant: at the TTL, not past it
Expired(entry) == entry.age > TTL
Older(age) == IF age > TTL THEN age ELSE age + 1

(* held(): what any other process concludes from the directory.            *)
HeldIfTorn ==      \* mutant: a file nobody can parse reads as taken
    path # NoInode /\ (text[path] = Torn \/ ~Expired(text[path]))
Held == path # NoInode /\ ~Expired(text[path])

Unreferenced == {i \in Inodes : i \notin {path, tmp} /\ \A a \in Actors : fd[a] # i}
NewInode == IF Unreferenced = {} THEN {} ELSE {CHOOSE i \in Unreferenced : TRUE}
(* A file no name and no open descriptor refers to any more is gone.       *)
Surviving(content) ==
    [i \in Inodes |-> IF i \in Unreferenced' THEN Torn ELSE content[i]]
ClosedFd(a) == [fd EXCEPT ![a] = NoInode]
Goto(a, label) == pc' = [pc EXCEPT ![a] = label]

Init ==
    /\ path = NoInode
    /\ tmp = NoInode
    /\ text = [i \in Inodes |-> Torn]
    /\ pc = [a \in Actors |-> "idle"]
    /\ fd = [a \in Actors |-> NoInode]
    /\ stamp = [a \in Actors |-> TTL + 1]
    /\ tries = [a \in Actors |-> 0]

-----------------------------------------------------------------------------
(* acquire_exclusive                                                       *)

ThreeAttempts == 3    \* mutant: one too many
Attempts == 2

(* The payload, its taken_at included, is computed before the loop.        *)
BeginExclusive(a) ==
    /\ pc[a] = "idle"
    /\ Goto(a, "create")
    /\ stamp' = [stamp EXCEPT ![a] = 0]
    /\ tries' = [tries EXCEPT ![a] = Attempts]
    /\ UNCHANGED <<path, tmp, text, fd>>

(* os.open(O_CREAT|O_EXCL) succeeds: the file exists, still empty.         *)
CreateFile(a) ==
    /\ pc[a] = "create"
    /\ path = NoInode
    /\ \E i \in NewInode :
          /\ path' = i
          /\ fd' = [fd EXCEPT ![a] = i]
          /\ text' = [text EXCEPT ![i] = Torn]
    /\ Goto(a, "write")
    /\ UNCHANGED <<tmp, stamp, tries>>

(* ... or raises FileExistsError.                                          *)
FileExists(a) ==
    /\ pc[a] = "create"
    /\ path # NoInode
    /\ Goto(a, "read")
    /\ UNCHANGED <<path, tmp, text, fd, stamp, tries>>

(* A live entry: acquire_exclusive returns False.                          *)
ReadLive(a) ==
    /\ pc[a] = "read"
    /\ Held
    /\ Goto(a, "idle")
    /\ UNCHANGED <<path, tmp, text, fd, stamp, tries>>

(* Missing, unparseable or expired: the entry is to be removed.            *)
ReadDead(a) ==
    /\ pc[a] = "read"
    /\ ~Held
    /\ Goto(a, "unlink")
    /\ UNCHANGED <<path, tmp, text, fd, stamp, tries>>

(* Unlinks whatever the name resolves to by now and contests again; after  *)
(* the last attempt the loop is over and the answer is False.            *)
UnlinkDead(a) ==
    /\ pc[a] = "unlink"
    /\ path' = NoInode
    /\ tries' = [tries EXCEPT ![a] = tries[a] - 1]
    /\ Goto(a, IF tries[a] > 1 THEN "create" ELSE "idle")
    /\ UNCHANGED <<tmp, fd, stamp>>
    /\ text' = Surviving(text)

(* The payload goes to the open file, whatever its name became meanwhile.  *)
WritePayload(a) ==
    /\ pc[a] = "write"
    /\ fd' = ClosedFd(a)
    /\ Goto(a, "hold")
    /\ UNCHANGED <<path, tmp, stamp, tries>>
    /\ text' = Surviving([text EXCEPT ![fd[a]] = [by |-> a, age |-> stamp[a]]])

-----------------------------------------------------------------------------
(* acquire: the first take of a Taker, the renewal of any holder           *)

BeginAcquire(a) ==
    /\ pc[a] = "hold" \/ (a \in Takers /\ pc[a] = "idle")
    /\ stamp' = [stamp EXCEPT ![a] = 0]
    /\ Goto(a, "opentmp")
    /\ UNCHANGED <<path, tmp, text, fd, tries>>

OpenInPlace(a) ==     \* mutant: the lease itself is opened and emptied
    /\ pc[a] = "opentmp"
    /\ \E i \in IF path = NoInode THEN NewInode ELSE {path} :
          /\ tmp' = i
          /\ fd' = [fd EXCEPT ![a] = i]
          /\ text' = [text EXCEPT ![i] = Torn]
    /\ Goto(a, "writetmp")
    /\ UNCHANGED <<path, stamp, tries>>

(* write_text opens the temporary name with O_TRUNC: an existing file of   *)
(* that name is emptied and shared.                                        *)
OpenTemp(a) ==
    /\ pc[a] = "opentmp"
    /\ \E i \in IF tmp = NoInode THEN NewInode ELSE {tmp} :
          /\ tmp' = i
          /\ fd' = [fd EXCEPT ![a] = i]
          /\ text' = [text EXCEPT ![i] = Torn]
    /\ Goto(a, "writetmp")
    /\ UNCHANGED <<path, stamp, tries>>

WriteTemp(a) ==
    /\ pc[a] = "writetmp"
    /\ fd' = ClosedFd(a)
    /\ Goto(a, "rename")
    /\ UNCHANGED <<path, tmp, stamp, tries>>
    /\ text' = Surviving([text EXCEPT ![fd[a]] = [by |-> a, age |-> stamp[a]]])

RenameTemp(a) ==
    /\ pc[a] = "rename"
    /\ tmp # NoInode
    /\ path' = tmp
    /\ tmp' = NoInode
    /\ Goto(a, "hold")
    /\ UNCHANGED <<fd, stamp, tries>>
    /\ text' = Surviving(text)

(* FileNotFoundError: another acquire renamed the shared temporary file.   *)
(* os.replace raises to the caller of acquire, for whom the call is over;  *)
(* what that caller does with the exception is outside this module.        *)
RenameFails(a) ==
    /\ pc[a] = "rename"
    /\ tmp = NoInode
    /\ Goto(a, "idle")
    /\ UNCHANGED <<path, tmp, text, fd, stamp, tries>>

-----------------------------------------------------------------------------
(* release: unlinks the name, whoever wrote what is there.                 *)
Release(a) ==
    /\ pc[a] = "hold"
    /\ path' = NoInode
    /\ Goto(a, "idle")
    /\ UNCHANGED <<tmp, fd, stamp, tries>>
    /\ text' = Surviving(text)

(* The process dies: its open files close, what is on disk stays.          *)
Crash(a) ==
    /\ pc[a] # "idle"
    /\ Goto(a, "idle")
    /\ fd' = ClosedFd(a)
    /\ UNCHANGED <<path, tmp, stamp, tries>>
    /\ text' = Surviving(text)

Tick ==
    /\ text' = [i \in Inodes |-> [text[i] EXCEPT !.age = Older(text[i].age)]]
    /\ stamp' = [a \in Actors |-> Older(stamp[a])]
    /\ UNCHANGED <<path, tmp, pc, fd, tries>>

ExclusiveStep(a) ==
    \/ CreateFile(a) \/ FileExists(a) \/ ReadLive(a) \/ ReadDead(a)
    \/ UnlinkDead(a) \/ WritePayload(a)
AcquireStep(a) == OpenTemp(a) \/ WriteTemp(a) \/ RenameTemp(a) \/ RenameFails(a)

Next ==
    \/ \E a \in Pressers : BeginExclusive(a) \/ ExclusiveStep(a)
    \/ \E a \in Actors : BeginAcquire(a) \/ AcquireStep(a) \/ Release(a) \/ Crash(a)
    \/ Tick

Spec == Init /\ [][Next]_vars

(* A call that began runs on, a press is made again after a refusal, and   *)
(* the clock moves.  Nothing makes a holder renew or release.              *)
Fairness ==
    /\ WF_vars(Tick)
    /\ \A a \in Pressers : WF_vars(ExclusiveStep(a)) /\ WF_vars(BeginExclusive(a))
    /\ \A a \in Actors : WF_vars(AcquireStep(a))

FairSpec == Spec /\ Fairness

-----------------------------------------------------------------------------
TypeOK ==
    /\ path \in Inodes \cup {NoInode}
    /\ tmp \in Inodes \cup {NoInode}
    /\ text \in [Inodes -> Entries]
    /\ pc \in [Actors -> PCs]
    /\ fd \in [Actors -> Inodes \cup {NoInode}]
    /\ stamp \in [Actors -> Ages]
    /\ tries \in [Actors -> 0..2]

(* As a lease (TimedLease) reads: an empty file is no entry, and the       *)
(* section lasts from the answer True to the release, renewals included.   *)
Renewing(a) == a \in Pressers /\ pc[a] \in {"opentmp", "writetmp", "rename"}
InSection(a) == pc[a] = "hold" \/ Renewing(a)

EntryRead ==
    IF path = NoInode THEN NoInode ELSE IF text[path] = Torn THEN NoInode ELSE text[path]

Lease == INSTANCE TimedLease
    WITH Actors <- Actors, TTL <- TTL, NoEntry <- NoInode,
         entry <- EntryRead, inside <- {a \in Actors : InSection(a)}

(* A single caller at a time: the lease behaves as the TimedLease its      *)
(* readers take it for, through its own crashes and renewals.              *)
ImplementsTimedLease == Lease!Spec

(* While a caller is inside its section the name resolves to a whole file  *)
(* of its own (acquire: "a reader must never see a torn lease"): only the  *)
(* clock can make held() answer that nobody is there.                      *)
OnlyTheClockHides ==
    \A a \in Actors : InSection(a) => path # NoInode /\ text[path].by = a

(* "a holder that crashes must never wedge": once callers stop dying, the  *)
(* lease is held by a living caller again and again, whatever dead, torn   *)
(* or expired file the dead ones left.  (A step that is also a call's own  *)
(* return is not a death.)                                                 *)
Returns(a) == ReadLive(a) \/ RenameFails(a) \/ Release(a)
Dies == \E a \in Actors : Crash(a) /\ ~Returns(a)
Taken == \E a \in Actors : pc[a] = "hold"
NeverWedged == <>[][~Dies]_vars => []<>Taken
=============================================================================
