------------------------------ MODULE MCSpace ------------------------------
(* Small instances of SpaceHistory for TLC. *)
EXTENDS SpaceHistory

SevenDays == <<0, 7>>
Descending == <<4, 2, 1>>
=============================================================================
