-------------------------------- MODULE MCRows --------------------------------
(* AccountRows for TLC: the payments may be exchanged for one another.     *)
EXTENDS AccountRows

Alike == Permutations(Payments)
=============================================================================
