-------------------------- MODULE ConnectionStore --------------------------
(***************************************************************************)
(* The file of connections (ingest/connections.py) under those who use it:  *)
(* pulls of the scheduler, of the page and after an authorisation read one  *)
(* connection, refresh its token at the provider and put it back            *)
(* (pull.ensure_access_token); the authorisation callback puts a new one    *)
(* (pages/web.py _callback); a rename moves one (cli.rename_connection).    *)
(* put and rename read the file and then write it whole; save swaps it in   *)
(* one operation. Nothing keeps one caller's steps apart from another's.    *)
(***************************************************************************)
EXTENDS Naturals, FiniteSets

CONSTANTS Names, Callers, NoRecord,
          Rotating,     \* consents whose provider rotates the token on use (external)
          MaxConsents, MaxTurns, MaxCrashes    \* bounds

Records == [id : Names, consent : 1..MaxConsents, turn : 0..MaxTurns]

ASSUME ConnectionAssumption ==
    /\ NoRecord \notin Records /\ Rotating \subseteq 1..MaxConsents
    /\ MaxConsents \in Nat /\ MaxTurns \in Nat /\ MaxCrashes \in Nat

VARIABLES file,       \* the connections on disk, each under a name
          issued,     \* the turn of the token last issued for each consent (external)
          consents,   \* authorisations made at the bank so far (external)
          pc,         \* "idle", "holds" (read), "puts" (about to) or "saves"
          rec,        \* the connection each caller has in hand
          draft,      \* the file each caller has loaded; from "saves" on, what it saves
          crashes,
          \* history, for the properties only:
          behind,     \* names written by others since a caller at "saves" read the file
          gone,       \* consents whose newest token was written over or died
          split       \* consents that moved while a pull had them in hand

hands == <<pc, rec, draft>>
history == <<behind, gone, split>>
connectionVars == <<file, issued, consents, hands, crashes, history>>

Empty == [n \in Names |-> NoRecord]
IsOf(r, k) == r # NoRecord /\ r.consent = k
NamesOf(f, k) == {n \in Names : IsOf(f[n], k)}

\* A token that the provider would take for consent k is on disk, or a caller
\* has it and is about to write it.
IsNewest(r, k) == IsOf(r, k) /\ r.turn = issued[k]
Kept(k) == \/ \E n \in Names : IsNewest(file[n], k)
           \/ \E c \in Callers : pc[c] \in {"puts", "saves"} /\ IsNewest(rec[c], k)

Takes(c, r, place) ==
    /\ pc' = [pc EXCEPT ![c] = place] /\ rec' = [rec EXCEPT ![c] = r]

\* A caller that is through, or dies, keeps nothing.
Leaves(c) ==
    /\ Takes(c, NoRecord, "idle")
    /\ draft' = [draft EXCEPT ![c] = Empty]

\* A pull loads the file and takes up the connection it is about.
Read(c, n) ==
    /\ pc[c] = "idle" /\ file[n] # NoRecord
    /\ Takes(c, file[n], "holds")
    /\ draft' = [draft EXCEPT ![c] = file]
    /\ UNCHANGED <<file, issued, consents, crashes, history>>

\* The access token is still valid, the consent has expired, or the provider
\* refuses.
NoRefresh(c) ==
    /\ pc[c] = "holds"
    /\ Leaves(c)
    /\ UNCHANGED <<file, issued, consents, crashes, history>>

RotatedBare(r) ==     \* mutant: an answer without a refresh token is written as it is
    IF r.consent \in Rotating THEN [r EXCEPT !.turn = @ + 1] ELSE [r EXCEPT !.turn = MaxTurns + 1]

\* What a refresh answers with: another refresh token, or none.
Rotated(r) == IF r.consent \in Rotating THEN [r EXCEPT !.turn = @ + 1] ELSE r

\* The provider takes the refresh token, where it rotates only the newest of
\* its consent, and apply_refresh keeps what it answers.
Refresh(c) ==
    /\ pc[c] = "holds"
    /\ rec[c].consent \in Rotating =>
           rec[c].turn = issued[rec[c].consent] /\ rec[c].turn < MaxTurns
    /\ issued' = [issued EXCEPT ![rec[c].consent] = Rotated(rec[c]).turn]
    /\ Takes(c, Rotated(rec[c]), "puts")
    /\ UNCHANGED <<file, consents, draft, crashes, history>>

\* A person has authorised: the code is exchanged for a first token.
Authorise(c, n) ==
    /\ pc[c] = "idle" /\ consents < MaxConsents
    /\ consents' = consents + 1
    /\ issued' = [issued EXCEPT ![consents'] = 0]
    /\ Takes(c, [id |-> n, consent |-> consents', turn |-> 0], "puts")
    /\ UNCHANGED <<file, draft, crashes, history>>

PutStale(c) ==     \* mutant: a pull saves the file as it loaded it before the refresh
    /\ pc[c] = "puts"
    /\ Takes(c, rec[c], "saves")
    /\ draft' = [draft EXCEPT ![c] = [(IF @ = Empty THEN file ELSE @)
                                         EXCEPT ![rec[c].id] = rec[c]]]
    /\ UNCHANGED <<file, issued, consents, crashes, history>>

\* put: load again, replace the one entry.
Put(c) ==
    /\ pc[c] = "puts"
    /\ Takes(c, rec[c], "saves")
    /\ draft' = [draft EXCEPT ![c] = [file EXCEPT ![rec[c].id] = rec[c]]]
    /\ UNCHANGED <<file, issued, consents, crashes, history>>

RenameKeepsId(c, old, new) ==     \* mutant: the record keeps the name it carries
    /\ pc[c] = "idle" /\ file[old] # NoRecord /\ file[new] = NoRecord
    /\ Takes(c, file[old], "saves")
    /\ draft' = [draft EXCEPT ![c] = [file EXCEPT ![old] = NoRecord, ![new] = file[old]]]
    /\ UNCHANGED <<file, issued, consents, crashes, history>>

\* rename: load, refuse a name that is taken, move the entry with its record.
Rename(c, old, new) ==
    LET moved == [file[old] EXCEPT !.id = new]
    IN  /\ pc[c] = "idle" /\ file[old] # NoRecord /\ file[new] = NoRecord
        /\ Takes(c, moved, "saves")
        /\ draft' = [draft EXCEPT ![c] = [file EXCEPT ![old] = NoRecord, ![new] = moved]]
        /\ UNCHANGED <<file, issued, consents, crashes, history>>

\* What a save may write over: the entry it replaces, and what was written
\* between its own read and now.
Overwrites(c) ==
    {k \in 1..MaxConsents : \E n \in behind[c] \cup {rec[c].id} : IsOf(file[n], k)}

\* Consents that another caller has in hand, to put back under the old name.
Pulled(c) ==
    {k \in 1..MaxConsents : \E d \in Callers \ {c} : pc[d] \in {"holds", "puts"} /\ IsOf(rec[d], k)}

\* save: the file is swapped for the draft.
Save(c) ==
    /\ pc[c] = "saves"
    /\ file' = draft[c]
    /\ Leaves(c)
    /\ behind' = [d \in Callers |->
                    IF d = c \/ pc[d] # "saves" THEN {}
                    ELSE behind[d] \cup {n \in Names : file[n] # draft[c][n]}]
    /\ split' = split \cup {k \in Pulled(c) : NamesOf(file, k) # NamesOf(draft[c], k)}
    /\ UNCHANGED <<issued, consents, crashes>>
    /\ gone' = {k \in gone \cup Overwrites(c) : ~Kept(k)'}

\* A caller dies; what it was about to put is gone.
Crash(c) ==
    /\ pc[c] # "idle" /\ crashes < MaxCrashes
    /\ crashes' = crashes + 1
    /\ Leaves(c)
    /\ behind' = [behind EXCEPT ![c] = {}]
    /\ UNCHANGED <<file, issued, consents, split>>
    /\ gone' = {k \in gone \cup {rec[c].consent} : ~Kept(k)'}

ConnectionInit ==
    /\ file = Empty /\ issued = [k \in 1..MaxConsents |-> 0] /\ consents = 0
    /\ pc = [c \in Callers |-> "idle"] /\ rec = [c \in Callers |-> NoRecord]
    /\ draft = [c \in Callers |-> Empty] /\ crashes = 0
    /\ behind = [c \in Callers |-> {}] /\ gone = {} /\ split = {}

ConnectionNext ==
    \/ \E c \in Callers, n \in Names : Read(c, n) \/ Authorise(c, n)
    \/ \E c \in Callers : NoRefresh(c) \/ Refresh(c) \/ Put(c) \/ Save(c) \/ Crash(c)
    \/ \E c \in Callers, old, new \in Names : Rename(c, old, new)

ConnectionSpec == ConnectionInit /\ [][ConnectionNext]_connectionVars

----------------------------------------------------------------------------
\* Properties.

\* Every variable stays within its type.
ConnectionTypeOK ==
    /\ file \in [Names -> Records \cup {NoRecord}]
    /\ issued \in [1..MaxConsents -> 0..MaxTurns] /\ consents \in 0..MaxConsents
    /\ pc \in [Callers -> {"idle", "holds", "puts", "saves"}]
    /\ rec \in [Callers -> Records \cup {NoRecord}]
    /\ draft \in [Callers -> [Names -> Records \cup {NoRecord}]]
    /\ crashes \in 0..MaxCrashes
    /\ behind \in [Callers -> SUBSET Names]
    /\ gone \subseteq 1..MaxConsents /\ split \subseteq 1..MaxConsents

\* The newest token of a consent is lost only to its caller's death, to another
\* consent put under its own name, or to a write that came between another
\* caller's read and save (connections.put: re-reading "narrows that window to
\* the write itself. It does not close it"): never to the whole length of a pull.
TokensKept == \A k \in 1..consents \ gone : Kept(k)

\* A consent is held under two names only if its entry moved while a pull had
\* it in hand (connections.rename: name and record move together, or "the next
\* put() [would] write a THIRD entry under the embedded name").
OneNamePerConsent == \A k \in 1..consents \ split : Cardinality(NamesOf(file, k)) <= 1
=============================================================================
