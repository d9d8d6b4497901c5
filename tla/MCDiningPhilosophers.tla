------------------------ MODULE MCDiningPhilosophers ------------------------
(* Small tables for the dining philosophers. *)
EXTENDS DiningPhilosophers
=============================================================================
