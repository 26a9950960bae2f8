------------------------------ MODULE MCCursor ------------------------------
(* Small instances of FeedCursor for TLC. *)
EXTENDS FeedCursor

TwoRungs == <<1, 0>>
=============================================================================
