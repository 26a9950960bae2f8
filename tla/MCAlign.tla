------------------------------ MODULE MCAlign ------------------------------
(***************************************************************************)
(* Two accounts for AlignBudget: two debits of obdi's in one, two credits  *)
(* in the other, and beside them a credit a person entered.                *)
(***************************************************************************)
EXTENDS AlignBudget

CONSTANTS a1, a2, b1, b2, hand

MCRows == {a1, a2, b1, b2, hand}
MCOurs == MCRows \ {hand}
MCDebits == {a1, a2}
MCAccountOf == [r \in MCRows |-> IF r \in MCDebits THEN "current" ELSE "pot"]
=============================================================================
