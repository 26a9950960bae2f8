---------------------------- MODULE ActualQueue ----------------------------
(***************************************************************************)
(* The file queue between obdi and the applier that writes Actual Budget.  *)
(*                                                                         *)
(* Callers (a page of obdi-web, the scheduler after a cycle) build a       *)
(* request from the account map and put it in requests/; the applier works *)
(* the queue in order and answers in results/.  A request leaves the queue *)
(* only after its answer is written, so a death of the applier runs it     *)
(* again.  Accounts the applier had to create come back as links in        *)
(* bindings-pending.json; the next caller claims that file (by renaming    *)
(* it), merges it into the account map and only then marks it merged.      *)
(* After an empty of the whole budget every link is dead and is forgotten, *)
(* once per completed empty (empty-settled.json).                          *)
(*                                                                         *)
(* Sources: export/actual_push.py, cli.queue_actual_push / _audit /        *)
(* _empty, applier/watcher.mjs, empty.mjs, envelope.mjs and lib.mjs.  The  *)
(* rows themselves, prunes, alignments and the sync marker are left out:   *)
(* what is followed is which Actual account each canonical one is linked   *)
(* to.  Of the audits' results only the newest is kept, as every reader    *)
(* uses the newest only, and pushes' results nobody here reads.            *)
(***************************************************************************)
EXTENDS Integers, Sequences, FiniteSets, SequencesExt

CONSTANTS Callers,      \* processes that queue requests
          Canonicals,   \* accounts a person may name
          Namesakes,    \* those of them whose display label is the same words
          Ids,          \* ids of accounts in the budget, each given out once
          NoId,         \* no account
          Faults,       \* which jobs may raise or stop partway
          MaxQueue,     \* bound: requests waiting at a time
          MaxClaims,    \* bound: no caller dies while more claims than this lie about
          MaxEmpties    \* bound: empties ever queued

ASSUME FaultsAssumption == Faults \subseteq {"empty stops", "empty raises", "push raises"}
ASSUME NamesakesAssumption == Namesakes \subseteq Canonicals /\ NoId \notin Ids
ASSUME BoundsAssumption ==
    IsFiniteSet(Callers) /\ MaxQueue \in Nat /\ MaxClaims \in Nat /\ MaxEmpties \in Nat

Empties == 1..(MaxEmpties + Cardinality(Callers))
Links == [Canonicals -> Ids \cup {NoId}]
NoLinks == [c \in Canonicals |-> NoId]
Names == Canonicals \cup {"shared"}

VARIABLES named,      \* canonicals a person has named in the account map
          map,        \* the account map's links ("actual")
          pending,    \* bindings-pending.json: <<>> or the one file
          claims,     \* bindings-pending.merging-* files, oldest first
          requests,   \* requests/, in the order of their stamps
          results,    \* results/: empties, failures and the newest audit, by finish time
          settled,    \* empty-settled.json
          queued,     \* how many empties have been queued
          budget,     \* Actual: each id's name, or "never" given out, or "deleted"
          pc, goal, waiting, consumed,     \* each caller's place, errand and locals
          apc, minted, carry, outcome      \* the applier's place and locals

store == <<named, map, pending, claims, settled>>
queue == <<requests, results, queued>>
caller == <<pc, goal, waiting, consumed>>
applier == <<budget, apc, minted, carry, outcome>>
vars == <<store, queue, caller, applier>>

Live == {i \in Ids : budget[i] \in Names}
Linked(links) == {c \in Canonicals : links[c] # NoId}
Over(new, old) == [c \in Canonicals |-> IF new[c] # NoId THEN new[c] ELSE old[c]]
Goto(c, label) == pc' = [pc EXCEPT ![c] = label]
Leave(c) == Goto(c, "idle") /\ goal' = [goal EXCEPT ![c] = "none"]

Init ==
    /\ named \in SUBSET Canonicals
    /\ map = NoLinks
    /\ pending = <<>> /\ claims = <<>>
    /\ requests = <<>> /\ results = <<>>
    /\ settled = {} /\ queued = 0
    /\ budget = [i \in Ids |-> "never"]
    /\ pc = [c \in Callers |-> "idle"]
    /\ goal = [c \in Callers |-> "none"]
    /\ waiting = [c \in Callers |-> {}]
    /\ consumed = [c \in Callers |-> 0]
    /\ apc = "idle"
    /\ minted = NoLinks /\ carry = NoLinks
    /\ outcome = "none"

-----------------------------------------------------------------------------
(* What the callers read off the queue                                     *)

IsQueued(kind) == \E k \in DOMAIN requests : requests[k].kind = kind

CompleteEmpties ==
    {results[k].id : k \in {j \in DOMAIN results :
        results[j].kind = "empty" /\ results[j].outcome = "complete"}}

(* The newest result of a kind, as its place in finish order; 0 if none.   *)
NewestOf(test(_)) ==
    LET places == {k \in DOMAIN results : test(results[k])}
    IN IF places = {} THEN 0 ELSE Max(places)

Unfinished(result) == result.outcome \in {"partial", "failed"}
IsEmpty(result) == result.kind = "empty"
IsAudit(result) == result.kind = "audit"

(* empty_pending_note: why no push may be queued now.                      *)
EmptyPendingQueueOnly == IsQueued("empty")     \* mutant: results are not asked
EmptyPending ==
    \/ IsQueued("empty")
    \/ LET newest == NewestOf(IsEmpty)
       IN newest # 0 /\ Unfinished(results[newest]) /\ NewestOf(IsAudit) < newest

-----------------------------------------------------------------------------
(* Callers: queue_actual_push, queue_actual_audit                          *)

Press(c, kind) ==
    /\ pc[c] = "idle"
    /\ kind = "empty" => queued < MaxEmpties
    /\ goal' = [goal EXCEPT ![c] = kind]
    /\ Goto(c, IF kind = "empty" THEN "check" ELSE "settle")
    /\ UNCHANGED <<store, queue, waiting, consumed, applier>>

AfterSettling(c) == IF goal[c] = "push" THEN "note" ELSE "claim"

(* settle_emptied_budgets: the complete empties not acted on yet.          *)
SettleEachCall(c) ==      \* mutant: every complete empty, acted on or not
    /\ pc[c] = "settle"
    /\ waiting' = [waiting EXCEPT ![c] = CompleteEmpties]
    /\ Goto(c, IF CompleteEmpties = {} THEN AfterSettling(c) ELSE "claim")
    /\ UNCHANGED <<store, queue, goal, consumed, applier>>
ReadSettled(c) ==
    /\ pc[c] = "settle"
    /\ waiting' = [waiting EXCEPT ![c] = CompleteEmpties \ settled]
    /\ Goto(c, IF CompleteEmpties \subseteq settled THEN AfterSettling(c) ELSE "claim")
    /\ UNCHANGED <<store, queue, goal, consumed, applier>>

AfterMerge(c) == IF waiting[c] # {} THEN "forget" ELSE "drop"

(* merge_pending_bindings: the pending file is claimed before it is read.  *)
Claim(c) ==
    /\ pc[c] = "claim"
    /\ claims' = claims \o pending
    /\ pending' = <<>>
    /\ Goto(c, IF claims' = <<>> THEN AfterMerge(c) ELSE "merge")
    /\ UNCHANGED <<named, map, settled, queue, goal, waiting, consumed, applier>>

(* What parses of some files: only the newest can be cut short, while the   *)
(* applier fills it.                                                       *)
Readable(files) == IF files # <<>> /\ ~Last(files).whole THEN Front(files) ELSE files

(* Every claim that parses goes into the map, a later one over an earlier. *)
Offering(d) == {k \in DOMAIN claims : claims[k].links[d] # NoId}
MergeClaims(c) ==
    /\ pc[c] = "merge"
    /\ map' = [d \in Canonicals |->
                  IF Offering(d) = {} THEN map[d] ELSE claims[Max(Offering(d))].links[d]]
    /\ consumed' = [consumed EXCEPT ![c] = Len(Readable(claims))]
    /\ Goto(c, "mark")
    /\ UNCHANGED <<named, pending, claims, settled, queue, goal, waiting, applier>>

(* Only what parsed is marked merged: an unreadable claim is kept, even if *)
(* the applier has completed it since.  What another call has marked since *)
(* is passed over.                                                         *)
MarkMerged(c) ==
    /\ pc[c] = "mark"
    /\ claims' = SubSeq(claims, consumed[c] + 1, Len(claims))
    /\ consumed' = [d \in Callers |->
                       IF consumed[d] > consumed[c] THEN consumed[d] - consumed[c] ELSE 0]
    /\ Goto(c, AfterMerge(c))
    /\ UNCHANGED <<named, map, pending, settled, queue, goal, waiting, applier>>

ForgetLinks(c) ==
    /\ pc[c] = "forget"
    /\ map' = NoLinks
    /\ Goto(c, "record")
    /\ UNCHANGED <<named, pending, claims, settled, queue, goal, waiting, consumed, applier>>

RecordSettled(c) ==
    /\ pc[c] = "record"
    /\ settled' = settled \cup waiting[c]
    /\ waiting' = [waiting EXCEPT ![c] = {}]
    /\ Goto(c, AfterSettling(c))
    /\ UNCHANGED <<named, map, pending, claims, queue, goal, consumed, applier>>

Blocked(c) ==
    /\ pc[c] = "note"
    /\ IF EmptyPending THEN Leave(c) ELSE Goto(c, "claim") /\ UNCHANGED goal
    /\ UNCHANGED <<store, queue, waiting, consumed, applier>>

(* drop_conflicting_bindings: every sharer of an account is unlinked.      *)
Sharers(links) ==
    {c \in Linked(links) : \E d \in Linked(links) \ {c} : links[d] = links[c]}
DropNothing(c) ==         \* mutant: no repair
    /\ pc[c] = "drop"
    /\ Goto(c, "build")
    /\ UNCHANGED <<store, queue, goal, waiting, consumed, applier>>
DropConflicts(c) ==
    /\ pc[c] = "drop"
    /\ map' = [d \in Canonicals |-> IF d \in Sharers(map) THEN NoId ELSE map[d]]
    /\ Goto(c, "build")
    /\ UNCHANGED <<named, pending, claims, settled, queue, goal, waiting, consumed, applier>>

(* build_envelope: a label two unlinked accounts share gives way to their  *)
(* canonical names.                                                        *)
Unlinked == named \ Linked(map)
NameByLabel(c) ==         \* mutant: a colliding label is used as it is
    IF c \in Namesakes THEN "shared" ELSE c
NameFor(c) ==
    IF c \in Namesakes /\ Namesakes \cap Unlinked = {c} THEN "shared" ELSE c
Request(kind) ==
    [kind |-> kind, id |-> 0, links |-> map, shown |-> {},
     provision |-> IF kind = "push" THEN {[canonical |-> c, name |-> NameFor(c)] : c \in Unlinked}
                                    ELSE {}]

(* Nothing is queued when an identical request is waiting already, nor an  *)
(* audit while nothing is linked.                                          *)
NothingQueued(kind) ==
    \/ Contains(requests, Request(kind))
    \/ kind = "audit" /\ Linked(map) = {}
BuildAndQueue(c) ==
    /\ pc[c] = "build"
    /\ Len(requests) < MaxQueue
    /\ requests' = IF NothingQueued(goal[c]) THEN requests
                   ELSE Append(requests, Request(goal[c]))
    /\ Leave(c)
    /\ UNCHANGED <<store, results, queued, waiting, consumed, applier>>

(* queue_actual_empty: refused while anything is queued; what the person   *)
(* was shown is the newest audit's list.                                   *)
Shown == IF NewestOf(IsAudit) = 0 THEN {} ELSE results[NewestOf(IsAudit)].seen
CheckEmpty(c) ==
    /\ pc[c] = "check"
    /\ IF requests = <<>> /\ Shown # {} THEN Goto(c, "shown") /\ UNCHANGED goal ELSE Leave(c)
    /\ UNCHANGED <<store, queue, waiting, consumed, applier>>

QueueEmpty(c) ==
    /\ pc[c] = "shown"
    /\ Len(requests) < MaxQueue
    /\ queued' = queued + 1
    /\ requests' = Append(requests,
          [kind |-> "empty", id |-> queued + 1, links |-> NoLinks, shown |-> Shown,
           provision |-> {}])
    /\ Leave(c)
    /\ UNCHANGED <<store, results, waiting, consumed, applier>>

(* The process dies, and every local of the call with it.                  *)
CallerDies(c) ==
    /\ pc[c] # "idle"
    /\ Len(claims) <= MaxClaims
    /\ Leave(c)
    /\ waiting' = [waiting EXCEPT ![c] = {}]
    /\ consumed' = [consumed EXCEPT ![c] = 0]
    /\ UNCHANGED <<store, queue, applier>>

(* A person names another account.                                         *)
NameAccount(c) ==
    /\ c \notin named
    /\ named' = named \cup {c}
    /\ UNCHANGED <<map, pending, claims, settled, queue, caller, applier>>

-----------------------------------------------------------------------------
(* The applier: watcher.tick and processRequest                            *)

Job == Head(requests)
Working(kind) == requests # <<>> /\ Job.kind = kind

ApplierIdle ==
    apc' = "idle" /\ minted' = NoLinks /\ carry' = NoLinks /\ outcome' = "none"

StartJob ==
    /\ apc = "idle"
    /\ requests # <<>>
    /\ apc' = CASE Job.kind = "push" -> "provision"
                [] Job.kind = "audit" -> "answer"
                [] Job.kind = "empty" -> "emptying"
    /\ outcome' = IF Job.kind = "audit" THEN "ok" ELSE "none"
    /\ UNCHANGED <<store, queue, caller, budget, minted, carry>>

(* provisionAccounts: an account of that name is reused, else created.     *)
Named(name) == {i \in Ids : budget[i] = name}
AccountFor(name) ==
    CHOOSE i \in Ids : budget[i] = (IF Named(name) = {} THEN "never" ELSE name)
Provision ==
    /\ apc = "provision"
    /\ \E entry \in Job.provision :
          /\ minted[entry.canonical] = NoId
          /\ Named(entry.name) # {} \/ Named("never") # {}
          /\ budget' = [budget EXCEPT ![AccountFor(entry.name)] = entry.name]
          /\ minted' = [minted EXCEPT ![entry.canonical] = AccountFor(entry.name)]
    /\ UNCHANGED <<store, queue, caller, apc, carry, outcome>>

(* Every linked account's rows are imported; then the links are handed     *)
(* back, if any were minted.                                               *)
Import ==
    /\ apc = "provision"
    /\ \A entry \in Job.provision : minted[entry.canonical] # NoId
    /\ outcome' = "ok"
    /\ apc' = IF Job.provision = {} THEN "answer" ELSE "bindings"
    /\ UNCHANGED <<store, queue, caller, budget, minted, carry>>

(* mergeBindings(readJsonOr(BINDINGS, []), minted), then a plain write:    *)
(* the file is first cut to nothing, then filled.                          *)
PendingLinks ==
    IF Readable(pending) = <<>> THEN NoLinks ELSE Head(pending).links
ReadPending ==
    /\ apc = "bindings"
    /\ carry' = Over(minted, PendingLinks)
    /\ apc' = "cut"
    /\ UNCHANGED <<store, queue, caller, budget, minted, outcome>>

CutPending ==
    /\ apc = "cut"
    /\ pending' = <<[whole |-> FALSE, links |-> NoLinks]>>
    /\ apc' = "fill"
    /\ UNCHANGED <<named, map, claims, settled, queue, caller, budget, minted, carry, outcome>>

(* The file may have been claimed since: it is the same file.              *)
Filled(files) ==
    [k \in DOMAIN files |-> IF files[k].whole THEN files[k] ELSE [whole |-> TRUE, links |-> carry]]
FillPending ==
    /\ apc = "fill"
    /\ pending' = Filled(pending)
    /\ claims' = Filled(claims)
    /\ apc' = "answer"
    /\ UNCHANGED <<named, map, settled, queue, caller, budget, minted, carry, outcome>>

(* emptyBudget: refused whole when the budget holds an account nobody was  *)
(* shown; else one account after another, and a last look at the list.     *)
RefuseSilently ==         \* mutant: answered with no outcome
    /\ apc = "emptying" /\ outcome = "none"
    /\ ~(Live \subseteq Job.shown)
    /\ apc' = "answer"
    /\ UNCHANGED <<store, queue, caller, budget, minted, carry, outcome>>
RefuseEmpty ==
    /\ apc = "emptying" /\ outcome = "none"
    /\ ~(Live \subseteq Job.shown)
    /\ outcome' = "refused" /\ apc' = "answer"
    /\ UNCHANGED <<store, queue, caller, budget, minted, carry>>

DeleteAccount ==
    /\ apc = "emptying"
    /\ Live \subseteq Job.shown
    /\ \E i \in Live : budget' = [budget EXCEPT ![i] = "deleted"]
    /\ UNCHANGED <<store, queue, caller, apc, minted, carry, outcome>>

FinishEmpty ==
    /\ apc = "emptying"
    /\ Live = {}
    /\ outcome' = "complete" /\ apc' = "answer"
    /\ UNCHANGED <<store, queue, caller, budget, minted, carry>>

StopEmpty ==
    /\ "empty stops" \in Faults
    /\ apc = "emptying"
    /\ Live # {} /\ Live \subseteq Job.shown
    /\ outcome' = "partial" /\ apc' = "answer"
    /\ UNCHANGED <<store, queue, caller, budget, minted, carry>>

(* The job throws: the session to the server, or its end, fails.           *)
JobRaises ==
    /\ \/ apc = "provision" /\ "push raises" \in Faults
       \/ apc = "emptying" /\ "empty raises" \in Faults
    /\ outcome' = "failed" /\ apc' = "answer"
    /\ UNCHANGED <<store, queue, caller, budget, minted, carry>>

(* failedResult names no kind.                                             *)
Answer ==
    [kind |-> IF outcome = "failed" THEN "none" ELSE Job.kind,
     id |-> Job.id, outcome |-> outcome, seen |-> IF Job.kind = "audit" THEN Live ELSE {}]

(* An answer takes the place of an earlier one to the same request, or of   *)
(* the audit before.                                                       *)
Before == {k \in DOMAIN results : results[k].id = Job.id}
Kept == IF Before = {} THEN results ELSE RemoveAt(results, Max(Before))

(* A push's answer says nothing any caller here reads.                     *)
WriteAnswer ==
    /\ apc = "answer"
    /\ results' = IF Job.kind = "push" THEN results ELSE Append(Kept, Answer)
    /\ apc' = "away"
    /\ UNCHANGED <<store, requests, queued, caller, budget, minted, carry, outcome>>

FileAway ==
    /\ apc = "away"
    /\ requests' = Tail(requests)
    /\ ApplierIdle
    /\ UNCHANGED <<store, results, queued, caller, budget>>

(* The container is killed: the request is still in the queue.  A file cut *)
(* short is never read as links again (merge_pending_bindings keeps it for *)
(* a person to repair), so it leaves the model here.                       *)
ApplierDies ==
    /\ apc # "idle"
    /\ ApplierIdle
    /\ pending' = Readable(pending)
    /\ claims' = Readable(claims)
    /\ UNCHANGED <<named, map, settled, queue, caller, budget>>

-----------------------------------------------------------------------------
CallerStep(c) ==
    \/ ReadSettled(c) \/ Claim(c) \/ MergeClaims(c) \/ MarkMerged(c)
    \/ ForgetLinks(c) \/ RecordSettled(c) \/ Blocked(c) \/ DropConflicts(c)
    \/ BuildAndQueue(c) \/ CheckEmpty(c) \/ QueueEmpty(c)

ApplierStep ==
    \/ StartJob \/ Provision \/ Import \/ ReadPending \/ CutPending \/ FillPending
    \/ RefuseEmpty \/ DeleteAccount \/ FinishEmpty \/ WriteAnswer \/ FileAway

Next ==
    \/ \E c \in Callers, kind \in {"push", "audit", "empty"} : Press(c, kind)
    \/ \E c \in Callers : CallerStep(c) \/ CallerDies(c)
    \/ \E c \in Canonicals : NameAccount(c)
    \/ ApplierStep \/ StopEmpty \/ JobRaises \/ ApplierDies

Spec == Init /\ [][Next]_vars

(* The scheduler pushes after every cycle; calls and the applier run on.   *)
Fairness ==
    /\ \A c \in Callers : SF_vars(Press(c, "push")) /\ WF_vars(CallerStep(c))
    /\ WF_vars(ApplierStep)

FairSpec == Spec /\ Fairness

-----------------------------------------------------------------------------
Files == [whole : BOOLEAN, links : Links]
Envelopes ==
    [kind : {"push", "audit", "empty"}, id : {0} \cup Empties, links : Links, shown : SUBSET Ids,
     provision : SUBSET [canonical : Canonicals, name : Names]]
Answers ==
    [kind : {"audit", "empty", "none"}, id : {0} \cup Empties,
     outcome : {"ok", "complete", "partial", "refused", "failed"}, seen : SUBSET Ids]

TypeOK ==
    /\ named \subseteq Canonicals
    /\ map \in Links
    /\ pending \in Seq(Files) /\ Len(pending) <= 1
    /\ claims \in Seq(Files)
    /\ \A k \in DOMAIN claims : claims[k].whole \/ k = Len(claims)
    /\ requests \in Seq(Envelopes) /\ Len(requests) <= MaxQueue
    /\ results \in Seq(Answers)
    /\ \A j, k \in DOMAIN results : results[j].id = results[k].id => j = k
    /\ settled \subseteq Empties
    /\ queued \in {0} \cup Empties
    /\ budget \in [Ids -> Names \cup {"never", "deleted"}]
    /\ pc \in [Callers -> {"idle", "check", "settle", "claim", "merge", "mark", "forget",
                           "record", "note", "drop", "build", "shown"}]
    /\ goal \in [Callers -> {"none", "push", "audit", "empty"}]
    /\ waiting \in [Callers -> SUBSET Empties]
    /\ consumed \in [Callers -> 0..Len(claims)]
    /\ apc \in {"idle", "provision", "bindings", "cut", "fill", "emptying", "answer", "away"}
    /\ minted \in Links /\ carry \in Links
    /\ outcome \in {"none", "ok", "complete", "partial", "refused", "failed"}

(* drop_conflicting_bindings: no push carries two accounts into one.       *)
NoSharedImport ==
    \A k \in DOMAIN requests : Sharers(requests[k].links) = {}

(* settle_emptied_budgets: "forgetting again after a push had minted new   *)
(* links would undo that push's provisioning": a link to an account that   *)
(* exists leaves the map only to settle a sharing, or an empty that no     *)
(* call has settled yet.                                                   *)
KeepsLiveLinks ==
    [][\A c \in Canonicals :
          map[c] \in Live /\ map'[c] = NoId =>
              c \in Sharers(map) \/ CompleteEmpties \ settled # {}]_vars

(* empty_pending_note: where "the newest empty ended partial [...] and no  *)
(* audit has finished since" no push is queued, although the note is read  *)
(* some steps before the push is.  Of an empty that raised the code cannot *)
(* say as much: its answer names no kind, and no note is made of it.       *)
EmptyEndedPartway ==
    LET Told(result) == result.id # 0 /\ result.outcome # "failed"
        newest == NewestOf(Told)
    IN newest # 0 /\ results[newest].outcome = "partial" /\ NewestOf(IsAudit) < newest
NoPushOverARuin ==
    [][\A c \in Callers : BuildAndQueue(c) /\ goal[c] = "push" => ~EmptyEndedPartway]_vars

(* Provisioning is idempotent by name and links come back through the      *)
(* pending file: once nothing dies, raises or is emptied any more, and     *)
(* calls no longer overlap the applier's work, every named account ends up *)
(* linked to an account of its own, and stays so, even where one label     *)
(* made two accounts share.  (Calls that go on overlapping it can hand a   *)
(* shared link back for ever; and after an empty that stopped partway a    *)
(* person has to forget the dead links, so "empty stops" is left out.)     *)
Disturbed ==
    \/ (ApplierDies \/ JobRaises) /\ ~ApplierStep
    \/ \E c \in Callers : CallerDies(c) /\ ~CallerStep(c)
    \/ \E c \in Callers : Press(c, "empty")
    \/ \E c \in Callers, kind \in {"push", "audit"} : Press(c, kind) /\ requests # <<>>
Provisioned ==
    /\ Sharers(map) = {}
    /\ \A c \in named : map[c] \in Live
Converges ==
    <>[][~Disturbed]_vars => <>[]Provisioned
=============================================================================
