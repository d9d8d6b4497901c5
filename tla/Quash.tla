--------------------------------- MODULE Quash ---------------------------------
(***************************************************************************)
(* The shell of project1/quash: execute.c and the main loop of quash.c, as *)
(* one process among the children it forks (module Processes).             *)
(*                                                                         *)
(* The parser (module QuashParser) makes a sequence of command holders of  *)
(* a line.  A holder has the program or the built-in command it names, the *)
(* job a kill refers to, and the flags of the pipes and redirections.  A   *)
(* child begins with a copy of the shell's memory, of which it uses pipes  *)
(* and pipe_index.  Environment, directories and output are left out.      *)
(***************************************************************************)
EXTENDS Processes, QuashParser

CONSTANTS Lines,        \* the lines the user may type, as sequences of commands
          MAX_JOB_ID    \* bound: background jobs that are started

ASSUME LinesAssumption ==
  \A l \in Lines :
    /\ l \in Seq([name : STRING, job : Nat, marks : Seq({"<", ">", ">>"}), bg : BOOLEAN])
    /\ Len(l) > 0
ASSUME JobIdsAssumption == MAX_JOB_ID \in Nat

VARIABLES
  running,         \* the field of QuashState
  at_end,          \* the input is at its end
  pc,              \* where the shell is
  pipes,           \* per process: the pipes in the two slots
  pipe_index,      \* per process
  background_jobs,
  next_job_id,
  line,            \* the command holders of the line that is executed
  i,               \* the loop variable of run_script
  pids,            \* current_job.pids
  child_pid,       \* local of run_script
  job,             \* the job popped by check_jobs_bg_status
  num_jobs,        \* jobs it still has to pop
  num_pids,        \* processes of job it still has to check
  all_done,
  owner,           \* history: the job a process was forked for, 0 in foreground
  fork_failed      \* history

checkVars == <<job, num_jobs, num_pids, all_done>>
shellVars == <<running, at_end, pc, background_jobs, next_job_id, line, i, pids, child_pid>>
vars == <<procVars, shellVars, checkVars, pipes, pipe_index, owner, fork_failed>>

histories == <<owner, fork_failed>>

Memories == Pids \cup {Shell}
NoPipes == [slot \in {0, 1} |-> 0]
NoJob == [job_id |-> 0, pids |-> <<>>]
holder == line[i]

Init ==
  /\ ProcInit
  /\ running = TRUE /\ at_end = FALSE
  /\ pc = "parse"
  /\ pipes = [q \in Memories |-> NoPipes]
  /\ pipe_index = [q \in Memories |-> 0]
  /\ background_jobs = <<>>
  /\ next_job_id = 1
  /\ line = <<>> /\ i = 0 /\ pids = <<>> /\ child_pid = 0
  /\ job = NoJob /\ num_jobs = 0 /\ num_pids = 0 /\ all_done = FALSE
  /\ owner = [p \in Pids |-> 0]
  /\ fork_failed = FALSE

-----------------------------------------------------------------------------
(* The main loop *)

\* Bounds: job numbers, and no further lines once a fork has failed.
Fits(holders) == ~fork_failed /\ (holders[1].background => next_job_id <= MAX_JOB_ID)

\* parse returns the holders of a line.  If the line ends with the input
\* instead of a newline, the parser calls end_main_loop.
ParseLine(l) ==
  /\ pc = "parse" /\ ~at_end /\ Fits(cmds(l))
  /\ \/ UNCHANGED <<at_end, running>>
     \/ at_end' = TRUE /\ running' = FALSE
  /\ line' = cmds(l)
  /\ pc' = "check"
  /\ num_jobs' = Len(background_jobs)
  /\ UNCHANGED <<procVars, background_jobs, next_job_id, i, pids, child_pid, job, num_pids, all_done,
                 pipes, pipe_index, histories>>

\* Nothing but the end of the input: the parser calls end_main_loop and returns
\* NULL, and the inner loop of main calls it again.  (An empty line or a syntax
\* error changes nothing.)
ParseEnd ==
  /\ pc = "parse"
  /\ at_end' = TRUE /\ running' = FALSE
  /\ UNCHANGED <<procVars, checkVars, pc, background_jobs, next_job_id, line, i, pids, child_pid,
                 pipes, pipe_index, histories>>

\* run_script returns: the loop of main tests is_running.
Returns == /\ pc' = IF running' THEN "parse" ELSE "exited"
           /\ line' = <<>> /\ i' = 0 /\ pids' = <<>> /\ child_pid' = 0

-----------------------------------------------------------------------------
(* check_jobs_bg_status *)

PopJob ==
  /\ pc = "check" /\ num_jobs > 0 /\ job = NoJob
  /\ job' = Head(background_jobs)
  /\ background_jobs' = Tail(background_jobs)
  /\ num_pids' = Len(Head(background_jobs).pids)
  /\ all_done' = TRUE
  /\ UNCHANGED <<procVars, running, at_end, pc, next_job_id, line, i, pids, child_pid, num_jobs,
                 pipes, pipe_index, histories>>

\* waitpid with WNOHANG answers 0 if there is a child to wait for but none has
\* ended; otherwise it reaps one, or fails.
CheckPid ==
  /\ pc = "check" /\ num_pids > 0
  /\ num_pids' = num_pids - 1
  /\ LET pid == Head(job.pids)
         rest == Tail(job.pids)
     IN \/ /\ Reported(pid) = {} /\ Awaited(pid) # {}
           /\ job' = [job EXCEPT !.pids = Append(rest, pid)]
           /\ all_done' = FALSE
           /\ UNCHANGED procVars
        \/ /\ \E p \in Reported(pid) : Reap(p)
           /\ job' = [job EXCEPT !.pids = rest]
           /\ UNCHANGED all_done
        \/ /\ Awaited(pid) = {}
           /\ job' = [job EXCEPT !.pids = rest]
           /\ UNCHANGED <<procVars, all_done>>
  /\ UNCHANGED <<shellVars, num_jobs, pipes, pipe_index, histories>>

\* Mutant: a job is dropped although it goes on.
PushJobNever ==
  /\ pc = "check" /\ job # NoJob /\ num_pids = 0
  /\ job' = NoJob
  /\ num_jobs' = num_jobs - 1
  /\ all_done' = FALSE
  /\ UNCHANGED <<procVars, shellVars, num_pids, pipes, pipe_index, histories>>

\* A job all of whose processes are done is dropped, another one goes to the
\* back of the list.
PushJob ==
  /\ pc = "check" /\ job # NoJob /\ num_pids = 0
  /\ IF all_done THEN UNCHANGED background_jobs
                 ELSE background_jobs' = Append(background_jobs, job)
  /\ job' = NoJob
  /\ num_jobs' = num_jobs - 1
  /\ all_done' = FALSE
  /\ UNCHANGED <<procVars, running, at_end, pc, next_job_id, line, i, pids, child_pid, num_pids,
                 pipes, pipe_index, histories>>

-----------------------------------------------------------------------------
(* run_script *)

\* A line that consists of exit alone ends the main loop.
IsExit == Len(line) = 1 /\ line[1].name = "exit"

ExitQuash ==
  /\ pc = "check" /\ num_jobs = 0 /\ IsExit
  /\ running' = FALSE
  /\ Returns
  /\ UNCHANGED <<procVars, checkVars, at_end, background_jobs, next_job_id,
                 pipes, pipe_index, histories>>

StartJob ==
  /\ pc = "check" /\ num_jobs = 0 /\ ~IsExit
  /\ i' = 1
  /\ pipe_index' = [pipe_index EXCEPT ![Shell] = 0]
  /\ pc' = "create"
  /\ UNCHANGED <<procVars, checkVars, running, at_end, background_jobs, next_job_id, line,
                 pids, child_pid, pipes, histories>>

\* The pipe to the next command, and the one from the previous command, as
\* process q has them in its memory.
Current(q) == pipes[q][pipe_index[q]]
Previous(q) == pipes[q][1 - pipe_index[q]]

\* The ends of the pipe that pipe(pipes[pipe_index]) opens, if there is one.
NewPipe(k) == IF holder.p_out THEN {ReadEnd(k), WriteEnd(k)} ELSE {}

\* The first half of create_process: pipe and fork.  The child has a copy of the
\* shell's memory and of its descriptors.
CreateProcess ==
  /\ pc = "create" /\ i <= Len(line)
  /\ LET k == Least(FreePipes)
         shellPipes == IF holder.p_out THEN [pipes[Shell] EXCEPT ![pipe_index[Shell]] = k]
                                       ELSE pipes[Shell]
         shellEnds == others[Shell] \cup NewPipe(k)
     IN /\ IF holder.p_out THEN full' = [full EXCEPT ![k] = FALSE] ELSE UNCHANGED full
        /\ IF FreePids = {}
           THEN \* fork fails
                /\ child_pid' = AnyPid
                /\ pipes' = [pipes EXCEPT ![Shell] = shellPipes]
                /\ others' = [others EXCEPT ![Shell] = shellEnds]
                /\ fork_failed' = TRUE
                /\ UNCHANGED <<status, program, at, pipe_index, owner>>
           ELSE LET p == Least(FreePids)
                IN /\ child_pid' = p
                   /\ pipes' = [pipes EXCEPT ![Shell] = shellPipes, ![p] = shellPipes]
                   /\ pipe_index' = [pipe_index EXCEPT ![p] = pipe_index[Shell]]
                   /\ others' = [others EXCEPT ![Shell] = shellEnds, ![p] = shellEnds]
                   /\ status' = [status EXCEPT ![p] = "running"]
                   /\ program' = [program EXCEPT ![p] = holder]
                   /\ at' = [at EXCEPT ![p] = "forked"]
                   /\ owner' = [owner EXCEPT ![p] = IF line[1].background THEN next_job_id ELSE 0]
                   /\ UNCHANGED fork_failed
  /\ pc' = "close"
  /\ UNCHANGED <<input, output, checkVars, running, at_end, background_jobs, next_job_id,
                 line, i, pids>>

\* Mutant: the read end of the previous pipe stays open.
CloseWriteEnd ==
  /\ pc = "close"
  /\ others' = [others EXCEPT ![Shell] =
       {e \in @ : holder.p_out => e # WriteEnd(Current(Shell))}]
  /\ pipe_index' = [pipe_index EXCEPT ![Shell] = 1 - @]
  /\ pc' = "command"
  /\ UNCHANGED <<status, program, at, input, output, full, checkVars, running, at_end,
                 background_jobs, next_job_id, line, i, pids, child_pid, pipes, histories>>

\* The second half: the parent closes its ends and turns to the other slot.
CloseEnds ==
  /\ pc = "close"
  /\ others' = [others EXCEPT ![Shell] =
       {e \in @ : /\ holder.p_out => e # WriteEnd(Current(Shell))
                  /\ holder.p_in => e # ReadEnd(Previous(Shell))}]
  /\ pipe_index' = [pipe_index EXCEPT ![Shell] = 1 - @]
  /\ pc' = "command"
  /\ UNCHANGED <<status, program, at, input, output, full, checkVars, running, at_end,
                 background_jobs, next_job_id, line, i, pids, child_pid, pipes, histories>>

\* Mutant: only the first process of the job is signalled.
SignalledFirst(id) ==
  UNION {Reached(background_jobs[n].pids[1]) :
           n \in {m \in DOMAIN background_jobs : background_jobs[m].job_id = id}}

\* run_kill signals the processes in the deque of the job with the number.
Signalled(id) ==
  {p \in Pids : \E n \in DOMAIN background_jobs :
                  /\ background_jobs[n].job_id = id
                  /\ \E k \in DOMAIN background_jobs[n].pids :
                       p \in Reached(background_jobs[n].pids[k])}

\* parent_run_command, of which only kill matters here; then run_script stores
\* the pid.
RunCommand ==
  /\ pc = "command"
  /\ IF holder.name = "kill" THEN End(Signalled(holder.job)) /\ UNCHANGED <<program, full>>
                             ELSE UNCHANGED procVars
  /\ pids' = Append(pids, child_pid)
  /\ child_pid' = 0
  /\ i' = i + 1
  /\ pc' = "create"
  /\ UNCHANGED <<checkVars, running, at_end, background_jobs, next_job_id, line,
                 pipes, pipe_index, histories>>

\* A background job is put in the list, ...
PushNewJob ==
  /\ pc = "create" /\ i > Len(line) /\ line[1].background
  /\ background_jobs' = Append(background_jobs, [job_id |-> next_job_id, pids |-> pids])
  /\ next_job_id' = next_job_id + 1
  /\ UNCHANGED running
  /\ Returns
  /\ UNCHANGED <<procVars, checkVars, at_end, pipes, pipe_index, histories>>

\* ... and the processes of a foreground job are waited for, one by one.
StartWaiting ==
  /\ pc = "create" /\ i > Len(line) /\ ~line[1].background
  /\ pc' = "wait"
  /\ UNCHANGED <<procVars, checkVars, running, at_end, background_jobs, next_job_id, line,
                 i, pids, child_pid, pipes, pipe_index, histories>>

\* waitpid returns when it has reaped a process, or if there is none to wait for.
Wait ==
  /\ pc = "wait" /\ pids # <<>>
  /\ \/ \E p \in Reported(Head(pids)) : Reap(p)
     \/ Awaited(Head(pids)) = {} /\ UNCHANGED procVars
  /\ pids' = Tail(pids)
  /\ UNCHANGED <<checkVars, running, at_end, pc, background_jobs, next_job_id, line, i, child_pid,
                 pipes, pipe_index, histories>>

JobOver ==
  /\ pc = "wait" /\ pids = <<>>
  /\ UNCHANGED running
  /\ Returns
  /\ UNCHANGED <<procVars, checkVars, at_end, background_jobs, next_job_id,
                 pipes, pipe_index, histories>>

-----------------------------------------------------------------------------
(* The child *)

\* Mutant: the child keeps the read end of its own pipe.
SetUpKeepsEnd(p) ==
  /\ at[p] = "forked"
  /\ LET h == program[p]
     IN /\ input' = [input EXCEPT ![p] = IF h.p_in THEN ReadEnd(Previous(p)) ELSE @]
        /\ output' = [output EXCEPT ![p] = IF h.p_out THEN WriteEnd(Current(p)) ELSE @]
        /\ others' = [others EXCEPT ![p] =
             {e \in @ : /\ h.p_in => e # ReadEnd(Previous(p))
                        /\ h.p_out => e # WriteEnd(Current(p))}]
        /\ at' = [at EXCEPT ![p] = StartOf(h.name)]
  /\ pipes' = [pipes EXCEPT ![p] = NoPipes]
  /\ pipe_index' = [pipe_index EXCEPT ![p] = 0]
  /\ UNCHANGED <<status, program, full, shellVars, checkVars, histories>>

\* The child's part of create_process: the child takes its pipes or files for
\* standard input and output and closes the ends it has no use for.  What it has of pipes and
\* pipe_index is not used any more.
SetUp(p) ==
  /\ at[p] = "forked"
  /\ LET h == program[p]
     IN /\ input' = [input EXCEPT ![p] =
             IF h.r_in THEN File ELSE IF h.p_in THEN ReadEnd(Previous(p)) ELSE @]
        /\ output' = [output EXCEPT ![p] =
             IF h.r_out THEN File ELSE IF h.p_out THEN WriteEnd(Current(p)) ELSE @]
        /\ others' = [others EXCEPT ![p] =
             {e \in @ : /\ h.p_in /\ ~h.r_in => e # ReadEnd(Previous(p))
                        /\ h.p_out /\ ~h.r_out => e # WriteEnd(Current(p))
                        /\ h.p_out => e # ReadEnd(Current(p))}]
        /\ at' = [at EXCEPT ![p] = StartOf(h.name)]
  /\ pipes' = [pipes EXCEPT ![p] = NoPipes]
  /\ pipe_index' = [pipe_index EXCEPT ![p] = 0]
  /\ UNCHANGED <<status, program, full, shellVars, checkVars, histories>>

\* A file cannot be opened.
OpenFails(p) ==
  /\ at[p] = "forked"
  /\ program[p].r_in \/ program[p].r_out
  /\ Exit(p)

\* What a child does without waiting for the user or the passing of time.
ChildWorks(p) ==
  \/ SetUp(p)
  \/ /\ OpenFails(p) \/ Busy(p)
     /\ UNCHANGED <<shellVars, checkVars, pipes, pipe_index, histories>>

Child(p) ==
  \/ ChildWorks(p)
  \/ WakeUp(p) /\ UNCHANGED <<shellVars, checkVars, pipes, pipe_index, histories>>

Execute == \/ PopJob \/ CheckPid \/ PushJob
           \/ ExitQuash \/ StartJob
           \/ CreateProcess \/ CloseEnds \/ RunCommand
           \/ PushNewJob \/ StartWaiting \/ Wait \/ JobOver

Next == \/ ParseEnd \/ (\E l \in Lines : ParseLine(l))
        \/ Execute
        \/ \E p \in Pids : Child(p)

\* The shell and the programs run; the user types when it pleases the user.
Spec == /\ Init /\ [][Next]_vars
        /\ WF_vars(Execute)
        /\ \A p \in Pids : WF_vars(ChildWorks(p))

-----------------------------------------------------------------------------
(* Properties *)

\* The number of times p is in the deques of the shell.
Listed(p) ==
  LET deques == <<pids, job.pids, <<child_pid>>>> \o
                  [n \in DOMAIN background_jobs |-> background_jobs[n].pids]
  IN Cardinality({e \in (1..Len(deques)) \X (1..MAX_PIDS) :
                    e[2] \in DOMAIN deques[e[1]] /\ deques[e[1]][e[2]] = p})

\* As long as fork does not fail, the shell keeps account of its children: each
\* of them is in one deque, once, until it has been waited for, and no pid is
\* kept after that, when it may denote another process.  A job in the list has
\* a process left, and its deque has processes that were forked for it.
ChildrenListedOnce ==
  ~fork_failed =>
    /\ \A p \in Pids : Listed(p) = IF status[p] = "unused" THEN 0 ELSE 1
    /\ \A n \in DOMAIN background_jobs :
         /\ background_jobs[n].pids # <<>>
         /\ \A k \in DOMAIN background_jobs[n].pids :
              owner[background_jobs[n].pids[k]] = background_jobs[n].job_id

Killed == {p \in Pids : status[p] = "running" /\ status'[p] = "zombie"}

\* "Sends a signal to all processes contained in a job" (execute.c), and to no
\* others, once the job has been started; jobs are numbered from 1.
KillReachesTheJob ==
  [][(/\ ~fork_failed
      /\ pc = "command" /\ pc' # pc
      /\ holder.name = "kill" /\ holder.job \in 1..(next_job_id - 1))
     => Killed = {p \in Pids : status[p] = "running" /\ owner[p] = holder.job}]_vars

\* A child that has set itself up has no pipe ends besides its standard input
\* and output: neither end of another pipe, nor the read end of the pipe it
\* writes to, nor an end whose place a redirection takes.  The shell has none
\* when it does not create processes.
NoLeakedEnds ==
  /\ \A p \in Pids : at[p] # "forked" => others[p] = {}
  /\ pc \notin {"create", "close", "command"} => others[Shell] = {}

\* Neighbours in a pipeline are connected by a pipe that nobody else has,
\* whatever redirections were typed.
PipelineConnected ==
  \A k \in 1..(Len(pids) - 1) :
    LET p == pids[k]
        q == pids[k + 1]
    IN (/\ {p, q} \subseteq Pids
        /\ {status[p], status[q]} = {"running"}
        /\ "forked" \notin {at[p], at[q]}) =>
          \E x \in Pipes :
            /\ output[p] = WriteEnd(x) /\ input[q] = ReadEnd(x)
            /\ \A r \in Pids : /\ output[r] = WriteEnd(x) => r = p
                               /\ input[r] = ReadEnd(x) => r = q

\* A pipeline that ends by itself: nothing sleeps or waits for the user, what
\* writes without end writes, through others, to something that ends, and files,
\* which have any length, are not copied.
EndsByItself(l) ==
  LET name(k) == l[k].name
      K == DOMAIN l
  IN /\ name(1) \notin {"cat", "head"}
     /\ \A k \in K : name(k) # "sleep"
     /\ \A k \in K : name(k) \in {"yes", "cat"} => ~l[k].r_in /\ ~l[k].r_out
     /\ \A k \in K : name(k) = "yes" =>
          \E m \in K : m > k /\ name(m) \in {"head", "echo", "none"}

\* The shell comes back from a line that is run in the background or ends by
\* itself: end of file and broken pipes reach all processes of a pipeline.
PromptReturns ==
  (pc = "check" /\ (line[1].background \/ EndsByItself(line)))
    ~> (pc \in {"parse", "exited"} \/ fork_failed)

\* end_main_loop: "Stop Quash from requesting more input" (quash.c).
StoppedAsksNoMore == ~running => pc # "parse"
=============================================================================
