------------------------------- MODULE MCQuash -------------------------------
(* A few lines for quash, as they are typed. *)
EXTENDS Quash

Command(name) == [name |-> name, job |-> 1, marks |-> <<>>, bg |-> FALSE]
With(name, marks) == [Command(name) EXCEPT !.marks = marks]
Last(name) == [Command(name) EXCEPT !.bg = TRUE]

MCLines ==
  {<<Command("yes"), Command("cat"), Command("head")>>,
   <<Command("kill")>>, <<Command("exit")>>,
   <<With("cat", <<"<", ">">>)>>,
   <<With("echo", <<"<", ">">>), With("head", <<">", "<">>)>>,
   <<Last("sleep")>>, <<Command("yes"), Last("head")>>}
=============================================================================
