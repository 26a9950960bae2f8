---------------------------- MODULE MCLeaseSole ----------------------------
(* One contender for a lease, crashing and coming back, under any clock.   *)
EXTENDS LeaseFile
=============================================================================
