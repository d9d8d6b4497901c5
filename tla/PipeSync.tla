-------------------------------- MODULE PipeSync --------------------------------
(***************************************************************************)
(* Two processes that take turns with two pipes: lab4, pipe-sync.c, with   *)
(* its output on a terminal, where a line is written when it is printed.   *)
(* fork may fail: the program then goes on as a parent without a child.    *)
(***************************************************************************)
EXTENDS Integers, Sequences

Both == {"child", "parent"}

\* The pipe a process writes to; it reads from the other one.
Out == [child |-> 1, parent |-> 2]
In == [child |-> 2, parent |-> 1]

VARIABLES sync_at,           \* per process: what it does next
          go,                \* per pipe: whether it holds "go"
          readers, writers,  \* per pipe: the processes that have its ends open
          printed,
          forked             \* what became of fork: "not yet", "child" or "failed"

syncVars == <<sync_at, go, readers, writers, printed, forked>>

SyncInit ==
  /\ sync_at = [child |-> "none", parent |-> "fork"]
  /\ go = [p \in 1..2 |-> FALSE]
  /\ readers = [p \in 1..2 |-> {"parent"}] /\ writers = [p \in 1..2 |-> {"parent"}]
  /\ printed = <<>>
  /\ forked = "not yet"

GoesOn(who, from, to) == sync_at[who] = from /\ sync_at' = [sync_at EXCEPT ![who] = to]

ForkChild ==
  /\ sync_at["parent"] = "fork" /\ sync_at' = [b \in Both |-> "close"]
  /\ readers' = [p \in 1..2 |-> Both] /\ writers' = [p \in 1..2 |-> Both]
  /\ forked' = "child"
  /\ UNCHANGED <<go, printed>>

ForkFails ==
  /\ GoesOn("parent", "fork", "close")
  /\ forked' = "failed"
  /\ UNCHANGED <<go, readers, writers, printed>>

\* The ends a process does not use.
CloseUnused(who, to) ==
  /\ GoesOn(who, "close", to)
  /\ readers' = [readers EXCEPT ![Out[who]] = @ \ {who}]
  /\ writers' = [writers EXCEPT ![In[who]] = @ \ {who}]
  /\ UNCHANGED <<go, printed, forked>>

PrintLine(who, line, to) ==
  /\ GoesOn(who, line, to)
  /\ printed' = Append(printed, <<who, line>>)
  /\ UNCHANGED <<go, readers, writers, forked>>

WriteGo(who, to) ==
  /\ readers[Out[who]] # {}
  /\ GoesOn(who, "write", to)
  /\ go' = [go EXCEPT ![Out[who]] = TRUE]
  /\ UNCHANGED <<readers, writers, printed, forked>>

\* read returns what is there, or 0 when nobody can write any more; the
\* program does not look at which.
ReadGo(who, to) ==
  /\ go[In[who]] \/ writers[In[who]] = {}
  /\ GoesOn(who, "read", to)
  /\ go' = [go EXCEPT ![In[who]] = FALSE]
  /\ UNCHANGED <<readers, writers, printed, forked>>

\* The end of a process, by returning from main or by SIGPIPE.
LeavesPipes(who) ==
  /\ readers' = [p \in 1..2 |-> readers[p] \ {who}]
  /\ writers' = [p \in 1..2 |-> writers[p] \ {who}]
  /\ UNCHANGED <<go, printed, forked>>
ReturnFromMain(who) == GoesOn(who, "return", "ended") /\ LeavesPipes(who)
Killed(who) == readers[Out[who]] = {} /\ GoesOn(who, "write", "ended") /\ LeavesPipes(who)

\* Mutant: the child is not waited for.
WaitForNobody ==
  GoesOn("parent", "wait", "line 2") /\ UNCHANGED <<go, readers, writers, printed, forked>>

\* wait(&stat) returns at once when there is no child.
WaitForChild ==
  /\ sync_at["child"] \in {"none", "ended"}
  /\ GoesOn("parent", "wait", "line 2")
  /\ UNCHANGED <<go, readers, writers, printed, forked>>

ChildSteps ==
  \/ CloseUnused("child", "line 1")
  \/ PrintLine("child", "line 1", "write")
  \/ WriteGo("child", "read")
  \/ ReadGo("child", "line 2")
  \/ PrintLine("child", "line 2", "return")

ParentSteps ==
  \/ ForkChild \/ ForkFails
  \/ CloseUnused("parent", "read")
  \/ ReadGo("parent", "line 1")
  \/ PrintLine("parent", "line 1", "write")
  \/ WriteGo("parent", "wait")
  \/ WaitForChild
  \/ PrintLine("parent", "line 2", "return")

SyncNext == ChildSteps \/ ParentSteps \/ \E who \in Both : ReturnFromMain(who) \/ Killed(who)

-----------------------------------------------------------------------------
(* Properties *)

\* "so that we are guaranteed the following sequence of print messages"
\* (pipe-sync.c): whatever the two processes' speeds, and all of it.
TurnsKept ==
  LET turns == <<<<"child", "line 1">>, <<"parent", "line 1">>,
                 <<"child", "line 2">>, <<"parent", "line 2">>>>
  IN (forked = "child") ~> (printed = turns)
=============================================================================
