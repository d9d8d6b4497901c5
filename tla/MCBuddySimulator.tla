--------------------------- MODULE MCBuddySimulator ---------------------------
(* Three variables that compete for a memory of four pages of two bytes. *)
EXTENDS BuddySimulator

MCSizes == {0, 2, 3, 8, 9}
=============================================================================
