------------------------------ MODULE MCActual ------------------------------
(* The accounts of an instance of ActualQueue whose labels are alike are     *)
(* interchangeable: TLC need look at one order of them only.                 *)
EXTENDS ActualQueue

Alike == Permutations(Canonicals)
=============================================================================
