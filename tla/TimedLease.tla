----------------------------- MODULE TimedLease ----------------------------
(***************************************************************************)
(* What a cooperative lease promises the processes that honour it: an      *)
(* entry naming its holder, taken when nobody live has it, kept by         *)
(* renewal, given up on release, and read as absent once it is older than  *)
(* its TTL.  A holder's death changes nothing but the holder: only the     *)
(* clock takes its entry away.                                             *)
(***************************************************************************)
EXTENDS Integers

CONSTANTS Actors, TTL, NoEntry

VARIABLES entry,   \* the lease as a reader parses it
          inside   \* the actors in the section the lease stands for

leaseVars == <<entry, inside>>

Ages == 0..(TTL + 1)
Live == entry # NoEntry /\ entry.age <= TTL

Init == entry = NoEntry /\ inside = {}

Take(a) ==
    /\ ~Live
    /\ \E age \in Ages : entry' = [by |-> a, age |-> age]
    /\ inside' = inside \cup {a}

Renew(a) ==
    /\ a \in inside
    /\ \E age \in Ages : entry' = [by |-> a, age |-> age]
    /\ UNCHANGED inside

Release(a) ==
    /\ a \in inside
    /\ entry' = NoEntry
    /\ inside' = inside \ {a}

Die(a) == inside' = inside \ {a} /\ UNCHANGED entry

(* A lease nobody live holds may be swept away by whoever wants it next.   *)
Sweep == ~Live /\ entry' = NoEntry /\ UNCHANGED inside

Age ==
    /\ entry # NoEntry
    /\ entry' = [entry EXCEPT !.age = IF entry.age > TTL THEN entry.age ELSE entry.age + 1]
    /\ UNCHANGED inside

Next ==
    \/ \E a \in Actors : Take(a) \/ Renew(a) \/ Release(a) \/ Die(a)
    \/ Sweep \/ Age

Spec == Init /\ [][Next]_leaseVars
=============================================================================
