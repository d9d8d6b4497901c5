------------------------------- MODULE Processes -------------------------------
(***************************************************************************)
(* What quash uses of the operating system: processes, file descriptors,   *)
(* pipes, waitpid and kill, and the programs the user runs.  This is not   *)
(* code of the repository; it is modelled from the way execute.c uses it.  *)
(*                                                                         *)
(* A process has what its standard input and output refer to, and a set of *)
(* further pipe ends.  A pipe holds one unit of data.  Numbers of          *)
(* processes and pipes are used again as soon as they are free.            *)
(***************************************************************************)
EXTENDS Integers, FiniteSets

CONSTANTS MAX_PIDS,   \* the limit on the number of child processes
          MAX_PIPES   \* bound: pipes that are open at the same time

ASSUME LimitsAssumption ==
  /\ MAX_PIDS \in Nat \ {0}
  /\ MAX_PIPES \in Nat /\ MAX_PIPES >= 2 * MAX_PIDS + 2

Shell == 0
Pids == 1..MAX_PIDS
Pipes == 1..MAX_PIPES

\* What fork returns when it fails, and what waitpid and kill take for "any
\* process".
AnyPid == -1

\* What a descriptor refers to.
ReadEnd(k) == <<"read", k>>
WriteEnd(k) == <<"write", k>>
Ends == {ReadEnd(k) : k \in Pipes} \cup {WriteEnd(k) : k \in Pipes}
Terminal == <<"terminal", 0>>
File == <<"file", 0>>

VARIABLES
  status,   \* per child: "unused", "running" or "zombie"
  program,  \* per child: the program it runs
  at,       \* per child: what it is doing
  input,    \* per child: what standard input refers to
  output,   \* per child: what standard output refers to
  others,   \* per child and for the shell: the other pipe ends it has open
  full      \* per pipe: whether it holds data

procVars == <<status, program, at, input, output, others, full>>

\* A process runs the program of a command holder.
NoProgram == [name |-> "none"]

\* No child yet, and the given pipe ends open in the shell.
ProcInitWith(ends) ==
  /\ status = [p \in Pids |-> "unused"]
  /\ program = [p \in Pids |-> NoProgram]
  /\ at = [p \in Pids |-> "nowhere"]
  /\ input = [p \in Pids |-> Terminal]
  /\ output = [p \in Pids |-> Terminal]
  /\ others = [q \in Pids \cup {Shell} |-> IF q = Shell THEN ends ELSE {}]
  /\ full = [k \in Pipes |-> FALSE]
ProcInit == ProcInitWith({})

IsOpen(e) == \/ \E q \in Pids \cup {Shell} : e \in others[q]
             \/ \E p \in Pids : e \in {input[p], output[p]}

FreePids == {p \in Pids : status[p] = "unused"}
FreePipes == {k \in Pipes : ~IsOpen(ReadEnd(k)) /\ ~IsOpen(WriteEnd(k))}
Least(S) == CHOOSE x \in S : \A y \in S : x <= y

Children == {p \in Pids : status[p] # "unused"}
Zombies == {p \in Pids : status[p] = "zombie"}

-----------------------------------------------------------------------------
(* The end of processes *)

\* The processes in S end: their descriptors are closed, and they stay in the
\* process table until somebody waits for them.
End(S) ==
  /\ status' = [p \in Pids |-> IF p \in S THEN "zombie" ELSE status[p]]
  /\ at' = [p \in Pids |-> IF p \in S THEN "nowhere" ELSE at[p]]
  /\ input' = [p \in Pids |-> IF p \in S THEN Terminal ELSE input[p]]
  /\ output' = [p \in Pids |-> IF p \in S THEN Terminal ELSE output[p]]
  /\ others' = [q \in Pids \cup {Shell} |-> IF q \in S THEN {} ELSE others[q]]

Exit(p) == End({p}) /\ UNCHANGED <<program, full>>

\* The processes that kill(pid, SIGTERM) reaches.
Reached(pid) == {p \in Pids : status[p] = "running" /\ (pid = p \/ pid = AnyPid)}

\* waitpid removes p from the process table.
Reap(p) ==
  /\ status' = [status EXCEPT ![p] = "unused"]
  /\ program' = [program EXCEPT ![p] = NoProgram]
  /\ UNCHANGED <<at, input, output, others, full>>

\* The children that waitpid(pid) may report, and those it may wait for.
Reported(pid) == {p \in Zombies : pid = p \/ pid = AnyPid}
Awaited(pid) == {p \in Children : pid = p \/ pid = AnyPid}

-----------------------------------------------------------------------------
(* The programs: "echo" writes once; "yes" writes without end; "cat" copies  *)
(* its input; "head" copies one unit of it; "sleep" does nothing for any     *)
(* length of time; "none" is a command that does nothing in a child.         *)

StartOf(name) ==
  CASE name \in {"echo", "yes"} -> "writing"
    [] name \in {"cat", "head"} -> "reading"
    [] name = "sleep" -> "sleeping"
    [] OTHER -> "leaving"

AfterWriting(name) ==
  CASE name = "yes" -> "writing"
    [] name = "cat" -> "reading"
    [] OTHER -> "leaving"

Step(p, to) ==
  /\ at' = [at EXCEPT ![p] = to]
  /\ UNCHANGED <<status, program, input, output, others>>

\* A file or the terminal has more data or is at its end; a pipe is at its end
\* when it is empty and nobody can write to it.
ReadData(p) ==
  /\ at[p] = "reading"
  /\ \/ input[p] \in {Terminal, File} /\ UNCHANGED full
     \/ \E k \in Pipes : /\ input[p] = ReadEnd(k) /\ full[k]
                         /\ full' = [full EXCEPT ![k] = FALSE]
  /\ Step(p, "writing")

ReadEof(p) ==
  /\ at[p] = "reading"
  /\ \/ input[p] \in {Terminal, File}
     \/ \E k \in Pipes : /\ input[p] = ReadEnd(k) /\ ~full[k]
                         /\ ~IsOpen(WriteEnd(k))
  /\ Exit(p)

WriteData(p) ==
  /\ at[p] = "writing"
  /\ \/ output[p] \in {Terminal, File} /\ UNCHANGED full
     \/ \E k \in Pipes : /\ output[p] = WriteEnd(k) /\ ~full[k]
                         /\ IsOpen(ReadEnd(k))
                         /\ full' = [full EXCEPT ![k] = TRUE]
  /\ Step(p, AfterWriting(program[p].name))

\* SIGPIPE: nobody can read what is written.
BrokenPipe(p) ==
  /\ at[p] = "writing"
  /\ \E k \in Pipes : output[p] = WriteEnd(k) /\ ~IsOpen(ReadEnd(k))
  /\ Exit(p)

Leave(p) == at[p] = "leaving" /\ Exit(p)

\* "sleep" ends sooner or later or never.
WakeUp(p) == at[p] = "sleeping" /\ Exit(p)

Busy(p) == ReadData(p) \/ ReadEof(p) \/ WriteData(p) \/ BrokenPipe(p) \/ Leave(p)
=============================================================================
