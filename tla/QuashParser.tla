------------------------------ MODULE QuashParser ------------------------------
(***************************************************************************)
(* The command holders the grammar of quash (parsing/parse.y) makes of a   *)
(* line.  A line is typed as a sequence of commands, with pipes between    *)
(* them; a command has a name, the job a kill refers to, the redirection   *)
(* marks it is followed by, and whether it ends with &.  The files after   *)
(* the marks, and whether output is appended, are left out.                *)
(***************************************************************************)
EXTENDS Integers, Sequences

\* Which redirections a list of marks asks for.
redir_inner(marks) ==
  [in |-> \E m \in DOMAIN marks : marks[m] = "<",
   out |-> \E m \in DOMAIN marks : marks[m] \in {">", ">>"}]

\* Mutant: redirections stay although a pipe is there.
cmdsKeepsRedirects(typed) ==
  [k \in DOMAIN typed |->
     [name |-> typed[k].name, job |-> typed[k].job,
      p_in |-> k > 1, p_out |-> k < Len(typed),
      r_in |-> redir_inner(typed[k].marks).in, r_out |-> redir_inner(typed[k].marks).out,
      background |-> \E m \in k..Len(typed) : typed[m].bg]]

\* The grammar puts the commands together from the right.  At each pipe the
\* command on its left loses its output redirection and the one on its right
\* its input redirection; the left one runs in the background if the right one
\* does.
cmds(typed) ==
  [k \in DOMAIN typed |->
     LET redir == redir_inner(typed[k].marks)
     IN [name |-> typed[k].name, job |-> typed[k].job,
         p_in |-> k > 1, p_out |-> k < Len(typed),
         r_in |-> redir.in /\ k = 1, r_out |-> redir.out /\ k = Len(typed),
         background |-> \E m \in k..Len(typed) : typed[m].bg]]
=============================================================================
