------------------------------- MODULE MCBuddy -------------------------------
(* A memory of eight pages of two bytes: three levels of splitting. *)
EXTENDS Buddy

\* A size for every order, at the largest and just above the largest that fits a
\* smaller block, and sizes outside the legal range.
MCSizes == {0, 2, 3, 8, 9, 17}
=============================================================================
