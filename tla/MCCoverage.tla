----------------------------- MODULE MCCoverage -----------------------------
(* Small instances of AskedCoverage for TLC. *)
EXTENDS AskedCoverage

CONSTANTS current, card

OneAccount == <<current>>
OneCard == <<card>>
Tiers == [weekly |-> 2, daily |-> 1, frequent |-> 0]
ServesReach == [t \in {current, card} |-> Reach]
=============================================================================
