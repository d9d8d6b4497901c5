---------------------------- MODULE MCStringToken ----------------------------
(* One variable is set, to a value with every character that is interpreted. *)
EXTENDS StringToken

MCEnv == [name \in {<<"letter">>} |-> <<"'", "$", "letter", "\\">>]
=============================================================================
