--------------------------------- MODULE Finder ---------------------------------
(***************************************************************************)
(* The finder of lab3: four children, find | xargs grep | sort | head,     *)
(* joined by three pipes that finder makes before it forks them.  The      *)
(* programs are external, as are the processes and pipes (Processes, where *)
(* finder is the Shell).  Any fork and any execl may fail; the calls of    *)
(* pipe succeed.                                                           *)
(***************************************************************************)
EXTENDS Processes, Sequences

CONSTANT MAX_FILES   \* bound: the files that find reports

ASSUME FinderAssumption == MAX_FILES \in Nat /\ MAX_PIDS >= 4

\* xargs grep writes a line for each file it reads, which is what "cat" does.
Stages == <<"find", "cat", "sort", "head">>
PipeEnds == UNION {{ReadEnd(k), WriteEnd(k)} : k \in 1..3}

VARIABLES finder_at,  \* <<"fork", k>>, <<"close", 0>>, <<"waitpid", k>>, <<"return", status>>
          pid,        \* pid_1 to pid_4
          found       \* how many files find has reported

finderVars == <<procVars, finder_at, pid, found>>

\* From the moment the pipes are made.
FinderInit ==
  /\ ProcInitWith(PipeEnds)
  /\ finder_at = <<"fork", 1>>
  /\ pid = [k \in 1..4 |-> 0]
  /\ found = 0

Forked(k, result) ==
  /\ finder_at = <<"fork", k>>
  /\ finder_at' = IF k < 4 THEN <<"fork", k + 1>> ELSE <<"close", 0>>
  /\ pid' = [pid EXCEPT ![k] = result]
  /\ UNCHANGED <<input, output, full, found>>

\* The child inherits every end the parent has open.
ForkStage(k) ==
  LET p == Least(FreePids) IN
  /\ Forked(k, p)
  /\ status' = [status EXCEPT ![p] = "running"]
  /\ program' = [program EXCEPT ![p] = [name |-> Stages[k]]]
  /\ at' = [at EXCEPT ![p] = "setup"]
  /\ others' = [others EXCEPT ![p] = others[Shell]]

\* The error is not looked at: pid_k is -1.
ForkStageFails(k) == Forked(k, AnyPid) /\ UNCHANGED <<status, program, at, others>>

StageStart ==
  [find |-> "finding", cat |-> "reading", sort |-> "sorting", head |-> "reading"]

\* dup2 of the two ends the stage uses, close of all six.
Redirected(p, k) ==
  /\ input' = [input EXCEPT ![p] = IF k > 1 THEN ReadEnd(k - 1) ELSE @]
  /\ output' = [output EXCEPT ![p] = IF k < 4 THEN WriteEnd(k) ELSE @]
  /\ others' = [others EXCEPT ![p] = {}]

\* The child up to its execl, which leaves it with another program, or fails.
RunStage(p, k) ==
  /\ at[p] = "setup" /\ program[p].name = Stages[k]
  /\ Redirected(p, k)
  /\ at' = [at EXCEPT ![p] = StageStart[Stages[k]]]
  /\ UNCHANGED <<status, program, full, finder_at, pid, found>>
ExecFails(p) ==
  /\ at[p] = "setup"
  /\ Exit(p)
  /\ UNCHANGED <<finder_at, pid, found>>

\* Mutant: finder keeps the pipes open while it waits.
KeepPipes ==
  /\ finder_at = <<"close", 0>> /\ finder_at' = <<"waitpid", 1>>
  /\ UNCHANGED <<procVars, pid, found>>

ClosePipes ==
  /\ finder_at = <<"close", 0>> /\ finder_at' = <<"waitpid", 1>>
  /\ others' = [others EXCEPT ![Shell] = {}]
  /\ UNCHANGED <<status, program, at, input, output, full, pid, found>>

AfterWaitpid(k) == IF k < 4 THEN <<"waitpid", k + 1>> ELSE <<"return", 0>>

Waitpid(k) ==
  /\ finder_at = <<"waitpid", k>>
  /\ \E p \in Reported(pid[k]) : Reap(p)
  /\ finder_at' = AfterWaitpid(k)
  /\ UNCHANGED <<pid, found>>

WaitpidFails(k) ==
  /\ finder_at = <<"waitpid", k>> /\ Awaited(pid[k]) = {}
  /\ finder_at' = <<"return", 1>>
  /\ UNCHANGED <<procVars, pid, found>>

FinderStep ==
  \/ \E k \in 1..4 : ForkStage(k) \/ ForkStageFails(k) \/ Waitpid(k) \/ WaitpidFails(k)
  \/ ClosePipes

-----------------------------------------------------------------------------
(* The programs that differ from those of Processes: find reports any number *)
(* of files, sort writes nothing before the end of its input.                *)

FindReports(p) ==
  /\ at[p] = "finding" /\ found < MAX_FILES /\ found' = found + 1
  /\ \E k \in Pipes : /\ output[p] = WriteEnd(k) /\ ~full[k] /\ IsOpen(ReadEnd(k))
                      /\ full' = [full EXCEPT ![k] = TRUE]
  /\ UNCHANGED at

\* "sorting" becomes "sorting some" with the first line.
SortGathers(p) ==
  /\ at[p] \in {"sorting", "sorting some"}
  /\ \E k \in Pipes : /\ input[p] = ReadEnd(k) /\ full[k]
                      /\ full' = [full EXCEPT ![k] = FALSE]
  /\ at' = [at EXCEPT ![p] = "sorting some"]
  /\ UNCHANGED found

SortWrites(p) ==
  /\ at[p] = "sorting some"
  /\ \E k \in Pipes : input[p] = ReadEnd(k) /\ ~full[k] /\ ~IsOpen(WriteEnd(k))
  /\ at' = [at EXCEPT ![p] = "writing"]
  /\ UNCHANGED <<full, found>>

\* find has no more to report, or nobody reads it; sort has nothing to sort.
StageEnds(p) ==
  /\ \/ at[p] = "finding"
     \/ /\ at[p] = "sorting"
        /\ \E k \in Pipes : input[p] = ReadEnd(k) /\ ~full[k] /\ ~IsOpen(WriteEnd(k))
  /\ Exit(p)
  /\ UNCHANGED found

Works(p) ==
  \/ (\E k \in 1..4 : RunStage(p, k)) \/ ExecFails(p)
  \/ /\ \/ /\ FindReports(p) \/ SortGathers(p) \/ SortWrites(p)
           /\ UNCHANGED <<status, program, input, output, others>>
        \/ StageEnds(p)
        \/ Busy(p) /\ UNCHANGED found
     /\ UNCHANGED <<finder_at, pid>>

FinderNext == FinderStep \/ \E p \in Pids : Works(p)

-----------------------------------------------------------------------------
(* Properties *)

\* finder returns, and no program it started stays behind for ever: every
\* reader comes to the end of its input, "close all other pipe ends (very
\* important)" (finder.c), whichever forks and execs fail.  It returns 0 after
\* all of its children, and reports an error of waitpid only if a fork failed.
FinderEnds ==
  (pid[1] # 0) ~>
    /\ finder_at[1] = "return"
    /\ \A p \in Pids : status[p] # "running"
    /\ finder_at[2] = 0 => Children = {}
    /\ finder_at[2] = 1 => \E k \in 1..4 : pid[k] = AnyPid
=============================================================================
