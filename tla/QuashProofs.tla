----------------------------- MODULE QuashProofs -----------------------------
(***************************************************************************)
(* Proofs about the shell of quash, for every number of processes, every   *)
(* set of lines and every number of jobs: the safety properties Quash      *)
(* states, from one inductive invariant.                                   *)
(*                                                                         *)
(* The invariant has a part for the loops and locals of the shell (Shape), *)
(* one for the ends of pipes that are open (EndsKept), one for the deques  *)
(* in which the children are listed (Account, Owners), and one for the     *)
(* order of a pipeline (OneAtEachEnd, Chain).                              *)
(***************************************************************************)
EXTENDS Quash, SequenceTheorems, FiniteSetTheorems, TLAPS

(* The states *)

Holder == [name : STRING, job : Nat, p_in : BOOLEAN, p_out : BOOLEAN,
           r_in : BOOLEAN, r_out : BOOLEAN, background : BOOLEAN]
Answers == Pids \cup {AnyPid}
JobStruct == [job_id : Nat \ {0}, pids : Seq(Answers)]

ReadEnds == {ReadEnd(k) : k \in Pipes}
WriteEnds == {WriteEnd(k) : k \in Pipes}

ProcTypes ==
  /\ status \in [Pids -> {"unused", "running", "zombie"}]
  /\ program \in [Pids -> Holder \cup {NoProgram}]
  /\ at \in [Pids -> {"nowhere", "forked", "writing", "reading", "sleeping", "leaving"}]
  /\ input \in [Pids -> ReadEnds \cup {Terminal, File}]
  /\ output \in [Pids -> WriteEnds \cup {Terminal, File}]
  /\ others \in [Memories -> SUBSET Ends]
  /\ pipes \in [Memories -> [{0, 1} -> Pipes \cup {0}]]
  /\ pipe_index \in [Memories -> {0, 1}]
  /\ owner \in [Pids -> Nat]

ShellTypes ==
  /\ pc \in {"parse", "check", "create", "close", "command", "wait", "exited"}
  /\ line \in Seq(Holder) /\ i \in Nat
  /\ pids \in Seq(Answers) /\ child_pid \in Answers \cup {0}
  /\ background_jobs \in Seq(JobStruct) /\ next_job_id \in Nat \ {0}
  /\ job \in JobStruct \cup {NoJob}
  /\ num_jobs \in Nat /\ num_pids \in Nat /\ all_done \in BOOLEAN
  /\ fork_failed \in BOOLEAN

Creating == pc \in {"create", "close", "command"}

\* What a line is after it has been parsed: only its first command may read from
\* a file, and only its last one may write to one.
LineParsed ==
  \A k \in DOMAIN line : /\ line[k].p_in <=> k > 1
                         /\ line[k].p_out <=> k < Len(line)
                         /\ line[k].r_in => k = 1
                         /\ line[k].r_out => k = Len(line)

\* Where the shell is in run_script, and what its locals are there.
Control ==
  /\ pc \notin {"parse", "exited"} => Len(line) > 0
  /\ Creating => i \in 1..(Len(line) + 1) /\ Len(pids) = i - 1
  /\ pc \in {"close", "command"} => i <= Len(line) /\ child_pid # 0
  /\ pc \notin {"close", "command"} => child_pid = 0
  /\ ~Creating /\ pc # "wait" => pids = <<>>
  /\ pc # "check" => job = NoJob /\ num_jobs = 0
  /\ pc = "check" => ~fork_failed
  /\ job = NoJob => num_pids = 0 /\ all_done = FALSE

\* The loops of check_jobs_bg_status: as long as the shell has found all
\* processes of a job done, there are as many left in its deque as to be checked.
Checking ==
  pc = "check" =>
    /\ num_jobs <= Len(background_jobs) + (IF job = NoJob THEN 0 ELSE 1)
    /\ job # NoJob => num_jobs > 0
    /\ num_pids <= Len(job.pids)
    /\ all_done => num_pids = Len(job.pids)
    /\ ~all_done /\ job # NoJob => num_pids < Len(job.pids)

Shape == ShellTypes /\ LineParsed /\ Control /\ Checking

\* A process that runs is somewhere in its program.
RunningIsAt == \A p \in Pids : status[p] = "running" <=> at[p] # "nowhere"

-----------------------------------------------------------------------------
(* The ends of pipes *)

\* What a child has of the pipes of the shell until it has set itself up.
Inherited(p) ==
  (IF program[p].p_in THEN {ReadEnd(Previous(p))} ELSE {}) \cup
  (IF program[p].p_out THEN {ReadEnd(Current(p)), WriteEnd(Current(p))} ELSE {})

\* A child has more than its standard input and output only until then.
HasItsEnds(p) ==
  /\ at[p] # "forked" => others[p] = {}
  /\ at[p] = "forked" => /\ program[p] \in Holder
                         /\ program[p].p_in => ~program[p].r_in
                         /\ program[p].p_out => ~program[p].r_out
                         /\ others[p] = Inherited(p)
  /\ at[p] \in {"forked", "nowhere"} => input[p] = Terminal /\ output[p] = Terminal

\* What the shell has open: the read end for the next command, and the pipe
\* that it has just made.
Pending ==
  CASE pc = "create"  -> IF i > 1 /\ i <= Len(line) THEN {ReadEnd(Previous(Shell))} ELSE {}
    [] pc = "close"   -> (IF i > 1 THEN {ReadEnd(Previous(Shell))} ELSE {}) \cup
                         (IF i < Len(line)
                          THEN {ReadEnd(Current(Shell)), WriteEnd(Current(Shell))} ELSE {})
    [] pc = "command" -> IF i < Len(line) THEN {ReadEnd(Previous(Shell))} ELSE {}
    [] OTHER          -> {}

ShellHasItsEnds ==
  /\ others[Shell] = Pending
  /\ pc = "close" /\ i > 1 /\ i < Len(line) => Current(Shell) # Previous(Shell)

EndsInv == /\ ProcTypes /\ Shape /\ RunningIsAt
           /\ \A p \in Pids : HasItsEnds(p)
           /\ ShellHasItsEnds

-----------------------------------------------------------------------------
(* Lemmas about descriptors and numbers *)

\* What a descriptor refers to is one thing only.
LEMMA EndsDiffer ==
  \A x, y : /\ ReadEnd(x) = ReadEnd(y) => x = y
            /\ WriteEnd(x) = WriteEnd(y) => x = y
            /\ ReadEnd(x) # WriteEnd(y)
            /\ ReadEnd(x) \notin {Terminal, File} /\ WriteEnd(x) \notin {Terminal, File}
            /\ ReadEnd(x) \in Ends <=> x \in Pipes
            /\ WriteEnd(x) \in Ends <=> x \in Pipes
            /\ ReadEnd(x) \in ReadEnds <=> x \in Pipes
            /\ WriteEnd(x) \in WriteEnds <=> x \in Pipes
            /\ Terminal \notin Ends /\ File \notin Ends
BY DEF ReadEnd, WriteEnd, Ends, ReadEnds, WriteEnds, Terminal, File

\* A non-empty set of natural numbers has a least element.
LEMMA LeastNatural ==
  ASSUME NEW T \in SUBSET Nat, T # {}
  PROVE  \E x \in T : \A y \in T : x <= y
<1> PICK n \in T : TRUE
  OBVIOUS
<1> DEFINE U == {0..x : x \in {z \in T : z <= n}}
           R == StrictSubsetOrdering(0..n)
<1>1. U \subseteq SUBSET (0..n) /\ 0..n \in U
  OBVIOUS
<1>2. IsWellFoundedOn(R, SUBSET (0..n))
  <2>1. IsFiniteSet(0..n)
    BY FS_Interval
  <2>2. FiniteSubsetsOf(0..n) = SUBSET (0..n)
    BY <2>1, FS_FiniteSubsetsOfFinite
  <2>3. IsWellFoundedOn(R, FiniteSubsetsOf(0..n))
    BY FS_StrictSubsetOrderingWellFounded
  <2> HIDE DEF R
  <2> QED BY <2>2, <2>3
<1>3. PICK u \in U : \A v \in U : <<v, u>> \notin R
  BY <1>1, <1>2, WFMin
<1>4. PICK x \in T : x <= n /\ u = 0..x
  OBVIOUS
<1>5. ASSUME NEW y \in T, y < x PROVE FALSE
  <2>1. 0..y \in U
    BY <1>4, <1>5
  <2>2. 0..y \subseteq 0..x /\ 0..y # 0..x
    <3>1. x \in 0..x /\ x \notin 0..y
      BY <1>5
    <3> QED BY <3>1, <1>5
  <2> QED BY <1>1, <1>3, <1>4, <2>1, <2>2 DEF StrictSubsetOrdering
<1> QED BY <1>5

\* Least is the least element.
LEMMA LeastIsIn ==
  ASSUME NEW T \in SUBSET Nat, T # {}
  PROVE  Least(T) \in T
BY LeastNatural DEF Least

-----------------------------------------------------------------------------
(* The shell *)

\* The parser gives each command the pipes and redirections LineParsed asks for.
LEMMA CommandsParsed ==
  ASSUME NEW l \in Lines
  PROVE  /\ cmds(l) \in Seq(Holder) /\ Len(cmds(l)) = Len(l) /\ Len(l) > 0
         /\ \A k \in DOMAIN cmds(l) : /\ cmds(l)[k].p_in <=> k > 1
                                      /\ cmds(l)[k].p_out <=> k < Len(l)
                                      /\ cmds(l)[k].r_in => k = 1
                                      /\ cmds(l)[k].r_out => k = Len(l)
<1>1. /\ l \in Seq([name : STRING, job : Nat, marks : Seq({"<", ">", ">>"}), bg : BOOLEAN])
      /\ Len(l) > 0
  BY LinesAssumption
<1>2. DOMAIN l = 1..Len(l) /\ Len(l) \in Nat
  BY <1>1
<1>3. ASSUME NEW k \in 1..Len(l)
      PROVE  /\ cmds(l)[k] \in Holder
             /\ cmds(l)[k].p_in <=> k > 1
             /\ cmds(l)[k].p_out <=> k < Len(l)
             /\ cmds(l)[k].r_in => k = 1
             /\ cmds(l)[k].r_out => k = Len(l)
  <2>1. l[k].name \in STRING /\ l[k].job \in Nat
    <3>1. l[k] \in [name : STRING, job : Nat, marks : Seq({"<", ">", ">>"}), bg : BOOLEAN]
      BY <1>1, ElementOfSeq
    <3> QED BY <3>1
  <2> DEFINE c == cmds(l)[k]
             redir == redir_inner(l[k].marks)
             bg == \E m \in k..Len(l) : l[m].bg
  <2>2. redir.in \in BOOLEAN /\ redir.out \in BOOLEAN
    BY DEF redir_inner
  <2>3. c = [name |-> l[k].name, job |-> l[k].job, p_in |-> k > 1, p_out |-> k < Len(l),
             r_in |-> redir.in /\ k = 1, r_out |-> redir.out /\ k = Len(l), background |-> bg]
    BY <1>2 DEF cmds
  <2>4. bg \in BOOLEAN
    OBVIOUS
  <2>5. k \in Nat
    OBVIOUS
  <2> HIDE DEF c, bg, redir
  <2>6. c \in Holder
    BY <2>1, <2>2, <2>3, <2>4 DEF Holder
  <2>7. /\ c.p_in <=> k > 1
        /\ c.p_out <=> k < Len(l)
        /\ c.r_in => k = 1
        /\ c.r_out => k = Len(l)
    BY <1>2, <2>3, <2>5
  <2> QED BY <2>6, <2>7 DEF c
<1>4. cmds(l) = [k \in 1..Len(l) |-> cmds(l)[k]]
  BY <1>2 DEF cmds
<1>5. cmds(l) \in Seq(Holder) /\ Len(cmds(l)) = Len(l) /\ DOMAIN cmds(l) = 1..Len(l)
  <2>1. \A k \in 1..Len(l) : cmds(l)[k] \in Holder
    BY <1>3
  <2> HIDE DEF cmds
  <2>2. [k \in 1..Len(l) |-> cmds(l)[k]] \in Seq(Holder)
    BY <1>2, <2>1, IsASeq
  <2> QED BY <1>2, <1>4, <2>2
<1> QED BY <1>1, <1>3, <1>5

\* fork returns the number of a child or fails.
LEMMA ForkAnswers ==
  FreePids # {} => Least(FreePids) \in Pids /\ status[Least(FreePids)] = "unused"
BY LeastIsIn DEF FreePids, Pids

\* Sequences of the deques.
LEMMA Rotate ==
  ASSUME NEW S, NEW s \in Seq(S), s # <<>>
  PROVE  /\ Head(s) \in S /\ Tail(s) \in Seq(S) /\ Len(Tail(s)) = Len(s) - 1
         /\ Append(Tail(s), Head(s)) \in Seq(S) /\ Len(Append(Tail(s), Head(s))) = Len(s)
         /\ Len(s) \in Nat /\ Len(s) > 0
OBVIOUS

\* What a step of a child leaves alone.
LEMMA ChildLeavesShell ==
  ASSUME NEW p \in Pids, Child(p)
  PROVE  UNCHANGED <<shellVars, checkVars, histories>>
BY DEF Child, ChildWorks, SetUp, shellVars, checkVars, histories

\* A call of waitpid for a process of the job that is checked.
LEMMA CheckedJob ==
  ASSUME Shape, CheckPid
  PROVE  /\ job # NoJob /\ job.pids # <<>> /\ job' \in JobStruct /\ job'.job_id = job.job_id
         /\ \/ job'.pids = Append(Tail(job.pids), Head(job.pids)) /\ all_done' = FALSE
            \/ job'.pids = Tail(job.pids) /\ all_done' = all_done
         /\ num_pids' = num_pids - 1 /\ num_pids > 0
         /\ UNCHANGED <<shellVars, num_jobs>>
<1>1. job # NoJob /\ job \in JobStruct /\ num_pids > 0 /\ num_pids <= Len(job.pids)
  BY DEF Shape, Control, Checking, ShellTypes, CheckPid
<1>2. job.pids \in Seq(Answers) /\ Len(job.pids) > 0
  <2>1. job.pids \in Seq(Answers) /\ Len(job.pids) \in Nat
    BY <1>1 DEF JobStruct
  <2> QED BY <1>1, <2>1 DEF Shape, ShellTypes
<1>3. Tail(job.pids) \in Seq(Answers) /\ Append(Tail(job.pids), Head(job.pids)) \in Seq(Answers)
  BY <1>2, Rotate
<1> QED BY <1>1, <1>2, <1>3 DEF CheckPid, JobStruct, shellVars

\* The loops and locals of the shell are what Shape says.
LEMMA ShapeKept ==
  ASSUME Shape, [Next]_vars
  PROVE  Shape'
<1> USE DEF Shape, shellVars, checkVars, histories
<1>1. ASSUME NEW l \in Lines, ParseLine(l) PROVE Shape'
  BY <1>1, CommandsParsed DEF ParseLine, ShellTypes, LineParsed, Control, Checking, Fits, Creating, NoJob
<1>2. CASE ParseEnd
  BY <1>2 DEF ParseEnd, ShellTypes, LineParsed, Control, Checking, Creating
<1>3. CASE PopJob
  <2>1. background_jobs # <<>> /\ background_jobs \in Seq(JobStruct)
    BY <1>3 DEF PopJob, ShellTypes, Checking
  <2>2. /\ Head(background_jobs) \in JobStruct /\ Tail(background_jobs) \in Seq(JobStruct)
        /\ Len(Tail(background_jobs)) = Len(background_jobs) - 1
    BY <2>1, Rotate
  <2>3. job' \in JobStruct /\ job' # NoJob /\ num_pids' = Len(job'.pids) /\ num_pids' \in Nat
    BY <2>2, <1>3 DEF PopJob, JobStruct, NoJob
  <2>4. ShellTypes'
    BY <2>2, <2>3, <1>3 DEF PopJob, ShellTypes
  <2> QED BY <2>2, <2>3, <2>4, <1>3 DEF PopJob, LineParsed, Control, Checking, Creating, ShellTypes
<1>4. CASE CheckPid
  <2>1. job # NoJob /\ job \in JobStruct /\ job' \in JobStruct
    BY <1>4, CheckedJob DEF ShellTypes
  <2>2. job.pids \in Seq(Answers) /\ job.pids # <<>> /\ num_pids \in Nat
    BY <1>4, <2>1, CheckedJob DEF JobStruct, ShellTypes
  <2>3. job' # NoJob
    BY <2>1 DEF JobStruct, NoJob
  <2>4. /\ UNCHANGED <<pc, line, i, pids, child_pid, background_jobs, next_job_id, num_jobs, fork_failed>>
        /\ num_pids' = num_pids - 1 /\ num_pids > 0
        /\ pc = "check"
    BY <1>4, CheckedJob DEF CheckPid
  <2>5. all_done' \in BOOLEAN
    BY <1>4, CheckedJob DEF ShellTypes
  <2>6. ShellTypes'
    BY <2>4, <2>1, <2>2, <2>5 DEF ShellTypes
  <2>7. \/ Len(job'.pids) = Len(job.pids) /\ ~all_done'
        \/ Len(job'.pids) = Len(job.pids) - 1 /\ all_done' = all_done
    BY <1>4, <2>2, CheckedJob, Rotate
  <2>8. num_jobs > 0 /\ num_jobs \in Nat /\ num_pids <= Len(job.pids) /\ Len(job.pids) \in Nat
        /\ (all_done => num_pids = Len(job.pids)) /\ (~all_done => num_pids < Len(job.pids))
        /\ num_jobs <= Len(background_jobs) + 1
    BY <2>4, <2>1, <2>2 DEF Checking, ShellTypes
  <2>9. Checking'
    BY <2>4, <2>1, <2>3, <2>2, <2>7, <2>8 DEF Checking
  <2> QED BY <2>4, <2>3, <2>6, <2>9 DEF LineParsed, Control, Creating
<1>5. CASE PushJob
  <2>1. job \in JobStruct /\ background_jobs' \in Seq(JobStruct)
    <3>1. /\ background_jobs \in Seq(JobStruct) /\ job # NoJob /\ job \in JobStruct \cup {NoJob}
          /\ background_jobs' = IF all_done THEN background_jobs ELSE Append(background_jobs, job)
      BY <1>5 DEF PushJob, ShellTypes
    <3> QED BY <3>1
  <2>2. num_jobs - 1 \in Nat
    <3>1. num_jobs \in Nat /\ num_jobs > 0
      BY <1>5 DEF PushJob, ShellTypes, Checking
    <3> QED BY <3>1
  <2>3. ShellTypes'
    BY <1>5, <2>1, <2>2 DEF PushJob, ShellTypes
  <2>4. /\ Len(background_jobs') \in Nat /\ Len(background_jobs) \in Nat
         /\ Len(background_jobs') >= Len(background_jobs)
    BY <1>5, <2>1 DEF PushJob, ShellTypes
  <2>5. num_jobs <= Len(background_jobs) + 1 /\ num_jobs' = num_jobs - 1 /\ num_jobs \in Nat
    BY <1>5 DEF PushJob, ShellTypes, Checking
  <2>6. job' = NoJob /\ Len(NoJob.pids) = 0 /\ num_pids' = 0 /\ ~all_done'
    BY <1>5 DEF PushJob, NoJob
  <2>7. Checking'
    BY <2>4, <2>5, <2>6 DEF Checking
  <2> QED BY <1>5, <2>3, <2>7 DEF PushJob, LineParsed, Control, Creating, NoJob
<1>6. CASE ExitQuash
  BY <1>6 DEF ExitQuash, Returns, ShellTypes, LineParsed, Control, Checking, Creating
<1>7. CASE StartJob
  BY <1>7 DEF StartJob, ShellTypes, LineParsed, Control, Checking, Creating
<1>8. CASE CreateProcess
  <2>1. child_pid' \in Answers /\ child_pid' # 0
    BY <1>8, ForkAnswers DEF CreateProcess, Answers, Pids, AnyPid
  <2>2. fork_failed' \in BOOLEAN
    BY <1>8 DEF CreateProcess, ShellTypes
  <2> QED BY <1>8, <2>1, <2>2 DEF CreateProcess, ShellTypes, LineParsed, Control, Checking, Creating
<1>9. CASE CloseEnds
  BY <1>9 DEF CloseEnds, ShellTypes, LineParsed, Control, Checking, Creating
<1>10. CASE RunCommand
  <2>1. child_pid \in Answers
    BY <1>10 DEF RunCommand, Control, ShellTypes
  <2> QED BY <1>10, <2>1 DEF RunCommand, ShellTypes, LineParsed, Control, Checking, Creating
<1>11. CASE PushNewJob
  <2>1. [job_id |-> next_job_id, pids |-> pids] \in JobStruct
    BY DEF ShellTypes, JobStruct
  <2> QED BY <1>11, <2>1 DEF PushNewJob, Returns, ShellTypes, LineParsed, Control, Checking, Creating
<1>12. CASE StartWaiting
  BY <1>12 DEF StartWaiting, ShellTypes, LineParsed, Control, Checking, Creating
<1>13. CASE Wait
  <2>1. Tail(pids) \in Seq(Answers)
    BY <1>13 DEF Wait, ShellTypes
  <2> QED BY <1>13, <2>1 DEF Wait, ShellTypes, LineParsed, Control, Checking, Creating
<1>14. CASE JobOver
  BY <1>14 DEF JobOver, Returns, ShellTypes, LineParsed, Control, Checking, Creating
<1>15. ASSUME NEW p \in Pids, Child(p) PROVE Shape'
  BY <1>15, ChildLeavesShell DEF ShellTypes, LineParsed, Control, Checking, Creating, histories
<1>16. CASE UNCHANGED vars
  BY <1>16 DEF vars, ShellTypes, LineParsed, Control, Checking, Creating
<1> QED BY <1>1, <1>2, <1>3, <1>4, <1>5, <1>6, <1>7, <1>8, <1>9, <1>10, <1>11, <1>12, <1>13,
           <1>14, <1>15, <1>16 DEF Next, Execute

-----------------------------------------------------------------------------
(* The processes and their descriptors *)

ProcInv == ProcTypes /\ RunningIsAt /\ \A p \in Pids : HasItsEnds(p)

\* What happens to the children in a step of the shell that is about itself, ...
OfShell ==
  /\ UNCHANGED <<status, program, at, input, output, owner>>
  /\ \A p \in Pids : /\ others'[p] = others[p]
                     /\ pipes'[p] = pipes[p]
                     /\ pipe_index'[p] = pipe_index[p]
  /\ others' \in [Memories -> SUBSET Ends]
  /\ pipes' \in [Memories -> [{0, 1} -> Pipes \cup {0}]]
  /\ pipe_index' \in [Memories -> {0, 1}]

\* ... when the processes in S end, ...
Ended(S) ==
  /\ End(S) /\ \A p \in S : p \in Pids /\ status[p] = "running"
  /\ UNCHANGED <<program, pipes, pipe_index, owner>>

\* ... when one is waited for, ...
Reaped(p) == p \in Pids /\ status[p] = "zombie" /\ Reap(p) /\ UNCHANGED <<pipes, pipe_index, owner>>

\* ... and when one goes on with its program.
Moved(p) ==
  /\ p \in Pids /\ at[p] \notin {"forked", "nowhere"}
  /\ \E to \in {"writing", "reading", "leaving"} : at' = [at EXCEPT ![p] = to]
  /\ UNCHANGED <<status, program, input, output, others, pipes, pipe_index, owner>>

LEMMA ChildSteps ==
  ASSUME ProcTypes, RunningIsAt, NEW p \in Pids, Child(p)
  PROVE  SetUp(p) \/ Moved(p) \/ Ended({p})
<1>0. CASE SetUp(p)
  BY <1>0
<1>1. ASSUME Exit(p), at[p] # "nowhere", UNCHANGED <<pipes, pipe_index, owner>>
      PROVE  Ended({p})
  BY <1>1 DEF Exit, Ended, RunningIsAt
<1>2. AfterWriting(program[p].name) \in {"writing", "reading", "leaving"}
  BY DEF AfterWriting
<1>3. ASSUME Busy(p), UNCHANGED <<pipes, pipe_index, owner>> PROVE Moved(p) \/ Ended({p})
  <2>1. CASE ReadData(p)
    BY <2>1, <1>3 DEF ReadData, Step, Moved
  <2>2. CASE ReadEof(p)
    BY <2>2, <1>1, <1>3 DEF ReadEof
  <2>3. CASE WriteData(p)
    BY <2>3, <1>2, <1>3 DEF WriteData, Step, Moved
  <2>4. CASE BrokenPipe(p)
    BY <2>4, <1>1, <1>3 DEF BrokenPipe
  <2>5. CASE Leave(p)
    BY <2>5, <1>1, <1>3 DEF Leave
  <2> QED BY <1>3, <2>1, <2>2, <2>3, <2>4, <2>5 DEF Busy
<1>4. CASE OpenFails(p) /\ UNCHANGED <<pipes, pipe_index, histories>>
  BY <1>4, <1>1 DEF OpenFails, histories
<1>5. CASE Busy(p) /\ UNCHANGED <<pipes, pipe_index, histories>>
  BY <1>5, <1>3 DEF histories
<1>6. CASE WakeUp(p) /\ UNCHANGED <<pipes, pipe_index, histories>>
  BY <1>6, <1>1 DEF WakeUp, histories
<1> QED BY <1>0, <1>4, <1>5, <1>6 DEF Child, ChildWorks

LEMMA MemoriesAre == \A p \in Pids : p \in Memories /\ p # Shell /\ p \in Nat
BY DEF Memories, Pids, Shell

LEMMA OfShellKeeps ==
  ASSUME ProcInv, OfShell
  PROVE  ProcInv'
<1>1. ProcTypes'
  BY DEF ProcInv, OfShell, ProcTypes
<1>2. RunningIsAt'
  BY DEF ProcInv, OfShell, RunningIsAt
<1>3. ASSUME NEW p \in Pids PROVE HasItsEnds(p)'
  BY DEF ProcInv, OfShell, HasItsEnds, Inherited, Previous, Current
<1> QED BY <1>1, <1>2, <1>3 DEF ProcInv

LEMMA EndedKeeps ==
  ASSUME ProcInv, NEW S, Ended(S)
  PROVE  ProcInv'
<1>1. ProcTypes'
  BY DEF ProcInv, Ended, End, ProcTypes, Memories
<1>2. RunningIsAt'
  BY DEF ProcInv, Ended, End, RunningIsAt
<1>3. ASSUME NEW p \in Pids PROVE HasItsEnds(p)'
  <2>1. HasItsEnds(p)
    BY DEF ProcInv
  <2>2. CASE p \in S
    BY <2>2, MemoriesAre DEF Ended, End, HasItsEnds
  <2>3. CASE p \notin S
    <3>1. /\ at'[p] = at[p] /\ others'[p] = others[p] /\ input'[p] = input[p]
          /\ output'[p] = output[p] /\ program' = program /\ pipes' = pipes
          /\ pipe_index' = pipe_index
      BY <2>3 DEF Ended, End
    <3> QED BY <2>1, <3>1 DEF HasItsEnds, Inherited, Previous, Current
  <2> QED BY <2>2, <2>3
<1> QED BY <1>1, <1>2, <1>3 DEF ProcInv

LEMMA ReapedKeeps ==
  ASSUME ProcInv, NEW r, Reaped(r)
  PROVE  ProcInv'
<1>1. ProcTypes'
  BY DEF ProcInv, Reaped, Reap, ProcTypes
<1>2. RunningIsAt'
  BY DEF ProcInv, Reaped, Reap, RunningIsAt, ProcTypes
<1>3. at[r] = "nowhere"
  BY DEF ProcInv, Reaped, RunningIsAt
<1>4. ASSUME NEW p \in Pids PROVE HasItsEnds(p)'
  <2>1. /\ UNCHANGED <<at, input, output, others, pipes, pipe_index>>
        /\ p # r => program'[p] = program[p]
    BY DEF ProcInv, ProcTypes, Reaped, Reap
  <2> QED BY <1>3, <2>1 DEF ProcInv, HasItsEnds, Inherited, Previous, Current
<1> QED BY <1>1, <1>2, <1>4 DEF ProcInv

LEMMA MovedKeeps ==
  ASSUME ProcInv, NEW m, Moved(m)
  PROVE  ProcInv'
<1>1. PICK to \in {"writing", "reading", "leaving"} : at' = [at EXCEPT ![m] = to]
  BY DEF Moved
<1>2. ProcTypes'
  BY <1>1 DEF ProcInv, Moved, ProcTypes
<1>3. RunningIsAt'
  BY <1>1 DEF ProcInv, Moved, RunningIsAt, ProcTypes
<1>4. ASSUME NEW p \in Pids PROVE HasItsEnds(p)'
  <2>1. /\ UNCHANGED <<program, input, output, others, pipes, pipe_index>>
        /\ p # m => at'[p] = at[p]
        /\ at'[m] \notin {"forked", "nowhere"} /\ at[m] \notin {"forked", "nowhere"}
    BY <1>1 DEF ProcInv, ProcTypes, Moved
  <2> QED BY <2>1 DEF ProcInv, HasItsEnds, Inherited, Previous, Current
<1> QED BY <1>2, <1>3, <1>4 DEF ProcInv

\* A child that sets itself up keeps no other end than those it works with.
LEMMA SetUpKeeps ==
  ASSUME ProcInv, NEW s \in Pids, SetUp(s)
  PROVE  ProcInv'
<1>0. /\ program[s] \in Holder /\ at[s] = "forked" /\ others[s] = Inherited(s)
      /\ program[s].p_in => ~program[s].r_in
      /\ program[s].p_out => ~program[s].r_out
      /\ s \in Memories
  BY MemoriesAre DEF ProcInv, HasItsEnds, SetUp
<1>1. StartOf(program[s].name) \in {"writing", "reading", "sleeping", "leaving"}
  BY DEF StartOf
<1>2. /\ program[s].p_in => Previous(s) \in Pipes
      /\ program[s].p_out => Current(s) \in Pipes
  <2>1. others[s] \subseteq Ends
    BY <1>0 DEF ProcInv, ProcTypes
  <2> QED BY <1>0, <2>1, EndsDiffer DEF Inherited
<1>3. UNCHANGED <<status, program, owner>>
  BY DEF SetUp, histories
<1>4. /\ input' = [input EXCEPT ![s] = input'[s]] /\ output' = [output EXCEPT ![s] = output'[s]]
      /\ others' = [others EXCEPT ![s] = others'[s]]
      /\ at' = [at EXCEPT ![s] = StartOf(program[s].name)]
      /\ pipes' = [pipes EXCEPT ![s] = NoPipes] /\ pipe_index' = [pipe_index EXCEPT ![s] = 0]
  BY <1>0 DEF SetUp, ProcInv, ProcTypes
<1>5. input'[s] \in ReadEnds \cup {Terminal, File}
  BY <1>2, EndsDiffer DEF SetUp, ProcInv, ProcTypes
<1>6. output'[s] \in WriteEnds \cup {Terminal, File}
  BY <1>2, EndsDiffer DEF SetUp, ProcInv, ProcTypes
<1>7. others'[s] = {}
  <2>1. others'[s] = {e \in others[s] :
           /\ program[s].p_in /\ ~program[s].r_in => e # ReadEnd(Previous(s))
           /\ program[s].p_out /\ ~program[s].r_out => e # WriteEnd(Current(s))
           /\ program[s].p_out => e # ReadEnd(Current(s))}
    BY <1>0 DEF SetUp, ProcInv, ProcTypes
  <2> QED BY <1>0, <2>1 DEF Inherited
<1>8. ProcTypes'
  <2>1. NoPipes \in [{0, 1} -> Pipes \cup {0}]
    BY DEF NoPipes
  <2> QED BY <1>0, <1>1, <1>3, <1>4, <1>5, <1>6, <1>7, <2>1 DEF ProcInv, ProcTypes
<1>9. RunningIsAt'
  BY <1>0, <1>1, <1>3, <1>4 DEF ProcInv, ProcTypes, RunningIsAt
<1>10. ASSUME NEW p \in Pids PROVE HasItsEnds(p)'
  <2>1. CASE p = s
    BY <1>0, <1>1, <1>4, <1>7, <2>1 DEF HasItsEnds, ProcInv, ProcTypes
  <2>2. CASE p # s
    <3>1. /\ at'[p] = at[p] /\ others'[p] = others[p] /\ input'[p] = input[p]
          /\ output'[p] = output[p] /\ program' = program /\ pipes'[p] = pipes[p]
          /\ pipe_index'[p] = pipe_index[p]
      BY <1>3, <1>4, <2>2, MemoriesAre DEF ProcInv, ProcTypes
    <3> QED BY <3>1 DEF ProcInv, HasItsEnds, Inherited, Previous, Current
  <2> QED BY <2>1, <2>2
<1> QED BY <1>8, <1>9, <1>10 DEF ProcInv

\* There is always another pipe: a process has two at most, the shell one.
LEMMA PipeIsFree ==
  ASSUME EndsInv, pc = "create"
  PROVE  FreePipes # {}
<1> SUFFICES ASSUME FreePipes = {} PROVE FALSE
  OBVIOUS
<1> DEFINE In(p) == IF at[p] = "forked" THEN ReadEnd(Previous(p)) ELSE input[p]
           Out(p) == IF at[p] = "forked" THEN WriteEnd(Current(p)) ELSE output[p]
           Slots == 0..(2 * MAX_PIDS)
           Holds(s, k) == \/ s = 0 /\ k = Previous(Shell)
                          \/ s \in 1..MAX_PIDS /\ In(s) = ReadEnd(k)
                          \/ s \in (MAX_PIDS + 1)..(2 * MAX_PIDS) /\ Out(s - MAX_PIDS) = WriteEnd(k)
           f == [k \in Pipes |-> CHOOSE s \in Slots : Holds(s, k)]
<1>0. MAX_PIDS \in Nat /\ MAX_PIPES \in Nat /\ MAX_PIPES >= 2 * MAX_PIDS + 2
  BY LimitsAssumption
<1>1. ASSUME NEW k \in Pipes PROVE \E s \in Slots : Holds(s, k)
  <2>1. IsOpen(ReadEnd(k)) \/ IsOpen(WriteEnd(k))
    BY DEF FreePipes
  <2>2. ASSUME NEW e \in {ReadEnd(k), WriteEnd(k)}, e \in others[Shell]
        PROVE  Holds(0, k)
    BY <2>2, EndsDiffer DEF EndsInv, ShellHasItsEnds, Pending
  <2>3. ASSUME NEW e \in {ReadEnd(k), WriteEnd(k)}, NEW p \in Pids, e \in others[p]
        PROVE  In(p) = ReadEnd(k) \/ Out(p) = WriteEnd(k)
    BY <2>3, EndsDiffer DEF EndsInv, HasItsEnds, Inherited
  <2>4. ASSUME NEW e \in {ReadEnd(k), WriteEnd(k)}, NEW p \in Pids, e \in {input[p], output[p]}
        PROVE  In(p) = ReadEnd(k) \/ Out(p) = WriteEnd(k)
    <3>1. at[p] # "forked"
      BY <2>4, EndsDiffer DEF EndsInv, HasItsEnds
    <3>2. input[p] \in ReadEnds \cup {Terminal, File} /\ output[p] \in WriteEnds \cup {Terminal, File}
      BY DEF EndsInv, ProcTypes
    <3> QED BY <2>4, <3>1, <3>2, EndsDiffer DEF ReadEnds, WriteEnds
  <2>5. Holds(0, k) \/ \E p \in Pids : In(p) = ReadEnd(k) \/ Out(p) = WriteEnd(k)
    <3> HIDE DEF Holds, In, Out
    <3> QED BY <2>1, <2>2, <2>3, <2>4 DEF IsOpen
  <2>6. ASSUME NEW p \in Pids, In(p) = ReadEnd(k) PROVE p \in Slots /\ Holds(p, k)
    BY <1>0, <2>6 DEF Pids
  <2>7. ASSUME NEW p \in Pids, Out(p) = WriteEnd(k)
        PROVE  p + MAX_PIDS \in Slots /\ Holds(p + MAX_PIDS, k)
    <3>1. p \in Int /\ p + MAX_PIDS \in (MAX_PIDS + 1)..(2 * MAX_PIDS) /\ (p + MAX_PIDS) - MAX_PIDS = p
      BY <1>0 DEF Pids
    <3>2. Out((p + MAX_PIDS) - MAX_PIDS) = WriteEnd(k)
      BY <2>7, <3>1
    <3>3. p + MAX_PIDS \in Slots
      BY <1>0, <3>1
    <3> QED BY <3>1, <3>2, <3>3
  <2>8. 0 \in Slots
    BY <1>0
  <2> HIDE DEF Holds, Slots, In, Out
  <2> QED BY <2>5, <2>6, <2>7, <2>8
<1>2. ASSUME NEW s \in Slots, NEW k \in Pipes, NEW m \in Pipes, Holds(s, k), Holds(s, m)
      PROVE  k = m
  <2> HIDE DEF In, Out
  <2>1. s = 0 \/ s \in 1..MAX_PIDS \/ s \in (MAX_PIDS + 1)..(2 * MAX_PIDS)
    BY <1>0
  <2> QED BY <1>0, <1>2, <2>1, EndsDiffer
<1> HIDE DEF Holds
<1>3. f \in [Pipes -> Slots] /\ \A k \in Pipes : Holds(f[k], k)
  BY <1>1
<1>4. IsFiniteSet(Pipes) /\ Cardinality(Pipes) = MAX_PIPES
  BY <1>0, FS_Interval DEF Pipes
<1>5. IsFiniteSet(Slots) /\ Cardinality(Slots) = 2 * MAX_PIDS + 1
  BY <1>0, FS_Interval
<1>6. PICK k, m \in Pipes : k # m /\ f[k] = f[m]
  <2>1. Cardinality(Slots) < Cardinality(Pipes)
    BY <1>0, <1>4, <1>5
  <2> HIDE DEF f, Slots
  <2> QED BY <1>3, <1>4, <1>5, <2>1, FS_PigeonHole
<1> QED BY <1>2, <1>3, <1>6

\* The pipe that the shell makes is open nowhere yet.
LEMMA NewPipeIsNew ==
  ASSUME EndsInv, pc = "create"
  PROVE  /\ Least(FreePipes) \in Pipes
         /\ ~IsOpen(ReadEnd(Least(FreePipes))) /\ ~IsOpen(WriteEnd(Least(FreePipes)))
<1>1. FreePipes \subseteq Pipes /\ Pipes \subseteq Nat
  BY DEF FreePipes, Pipes
<1>2. Least(FreePipes) \in FreePipes
  BY <1>1, PipeIsFree, LeastIsIn
<1> QED BY <1>2 DEF FreePipes

\* The command that create_process is called for.
LEMMA HolderParsed ==
  ASSUME Shape, pc \in {"create", "close", "command"}, i <= Len(line)
  PROVE  /\ holder \in Holder /\ i \in 1..Len(line) /\ Len(line) \in Nat
         /\ holder.p_in <=> i > 1
         /\ holder.p_out <=> i < Len(line)
         /\ holder.p_in => ~holder.r_in
         /\ holder.p_out => ~holder.r_out
<1>1. line \in Seq(Holder) /\ i \in 1..Len(line) /\ Len(line) \in Nat
  BY DEF Shape, ShellTypes, Control, Creating
<1>2. line[i] \in Holder /\ i \in DOMAIN line
  BY <1>1, ElementOfSeq
<1> QED BY <1>1, <1>2 DEF Shape, LineParsed, holder

\* What is in the memory of the shell when create_process has called pipe.
ShellPipes == IF holder.p_out THEN [pipes[Shell] EXCEPT ![pipe_index[Shell]] = Least(FreePipes)]
                              ELSE pipes[Shell]
ShellEnds == others[Shell] \cup NewPipe(Least(FreePipes))

LEMMA PipeMade ==
  ASSUME EndsInv, pc = "create", i <= Len(line)
  PROVE  /\ ShellPipes \in [{0, 1} -> Pipes \cup {0}] /\ ShellEnds \in SUBSET Ends
         /\ ShellPipes[1 - pipe_index[Shell]] = Previous(Shell)
         /\ holder.p_out => ShellPipes[pipe_index[Shell]] = Least(FreePipes)
         /\ ShellEnds = (IF holder.p_in THEN {ReadEnd(Previous(Shell))} ELSE {}) \cup
                        (IF holder.p_out THEN {ReadEnd(Least(FreePipes)), WriteEnd(Least(FreePipes))}
                                         ELSE {})
         /\ holder.p_in => Previous(Shell) # Least(FreePipes)
<1> DEFINE k == Least(FreePipes)
<1>0. Shell \in Memories
  BY DEF Memories
<1>1. k \in Pipes /\ ~IsOpen(ReadEnd(k)) /\ ~IsOpen(WriteEnd(k))
  BY NewPipeIsNew
<1>2. holder.p_in <=> i > 1
  BY HolderParsed DEF EndsInv
<1>3. others[Shell] = IF holder.p_in THEN {ReadEnd(Previous(Shell))} ELSE {}
  BY <1>2 DEF EndsInv, ShellHasItsEnds, Pending
<1> HIDE DEF k
<1>4. /\ pipes[Shell] \in [{0, 1} -> Pipes \cup {0}] /\ pipe_index[Shell] \in {0, 1}
      /\ others[Shell] \in SUBSET Ends
  BY <1>0 DEF EndsInv, ProcTypes
<1>5. ShellPipes = IF holder.p_out THEN [pipes[Shell] EXCEPT ![pipe_index[Shell]] = k] ELSE pipes[Shell]
  BY DEF ShellPipes, k
<1>6. ShellEnds = others[Shell] \cup IF holder.p_out THEN {ReadEnd(k), WriteEnd(k)} ELSE {}
  BY DEF ShellEnds, NewPipe, k
<1>7. holder.p_in => Previous(Shell) # k
  <2>1. ReadEnd(k) \notin others[Shell]
    BY <1>1 DEF IsOpen
  <2> QED BY <1>3, <2>1
<1>8. ShellPipes \in [{0, 1} -> Pipes \cup {0}]
  BY <1>1, <1>4, <1>5
<1>9. ShellEnds \in SUBSET Ends
  BY <1>1, <1>4, <1>6, EndsDiffer
<1>10. /\ ShellPipes[1 - pipe_index[Shell]] = Previous(Shell)
       /\ holder.p_out => ShellPipes[pipe_index[Shell]] = k
  BY <1>4, <1>5 DEF Previous
<1> QED BY <1>3, <1>6, <1>7, <1>8, <1>9, <1>10 DEF k

\* A child begins with the ends it needs, whatever its command.
LEMMA ForkKeeps ==
  ASSUME EndsInv, CreateProcess, FreePids # {}
  PROVE  ProcInv'
<1> DEFINE p == Least(FreePids)
<1>1. p \in Pids /\ status[p] = "unused" /\ p \in Memories /\ p # Shell /\ Shell \in Memories
  BY ForkAnswers, MemoriesAre DEF Memories
<1>2. pc = "create" /\ i <= Len(line)
  BY DEF CreateProcess
<1>3. /\ pipes' = [pipes EXCEPT ![Shell] = ShellPipes, ![p] = ShellPipes]
      /\ pipe_index' = [pipe_index EXCEPT ![p] = pipe_index[Shell]]
      /\ others' = [others EXCEPT ![Shell] = ShellEnds, ![p] = ShellEnds]
      /\ status' = [status EXCEPT ![p] = "running"]
      /\ program' = [program EXCEPT ![p] = holder]
      /\ at' = [at EXCEPT ![p] = "forked"]
      /\ owner' = [owner EXCEPT ![p] = IF line[1].background THEN next_job_id ELSE 0]
      /\ UNCHANGED <<input, output>>
  BY DEF CreateProcess, ShellPipes, ShellEnds
<1>4. /\ ShellPipes \in [{0, 1} -> Pipes \cup {0}] /\ ShellEnds \in SUBSET Ends
      /\ ShellPipes[1 - pipe_index[Shell]] = Previous(Shell)
      /\ holder.p_out => ShellPipes[pipe_index[Shell]] = Least(FreePipes)
      /\ ShellEnds = (IF holder.p_in THEN {ReadEnd(Previous(Shell))} ELSE {}) \cup
                     (IF holder.p_out THEN {ReadEnd(Least(FreePipes)), WriteEnd(Least(FreePipes))}
                                      ELSE {})
  BY <1>2, PipeMade
<1>5. holder \in Holder /\ (holder.p_in => ~holder.r_in) /\ (holder.p_out => ~holder.r_out)
  BY <1>2, HolderParsed DEF EndsInv
<1> HIDE DEF p
<1>6. ProcTypes /\ RunningIsAt /\ \A q \in Pids : HasItsEnds(q)
  BY DEF EndsInv
<1>7. next_job_id \in Nat
  BY DEF EndsInv, Shape, ShellTypes
<1>8. ProcTypes'
  BY <1>1, <1>3, <1>4, <1>5, <1>6, <1>7 DEF ProcTypes
<1>9. RunningIsAt'
  BY <1>1, <1>3, <1>6 DEF ProcTypes, RunningIsAt
<1>10. ASSUME NEW q \in Pids PROVE HasItsEnds(q)'
  <2>1. CASE q = p
    <3>1. at[q] = "nowhere"
      BY <1>1, <1>6, <2>1 DEF RunningIsAt, ProcTypes
    <3>2. input'[q] = Terminal /\ output'[q] = Terminal
      BY <1>1, <1>3, <1>6, <3>1 DEF HasItsEnds
    <3>3. /\ at'[q] = "forked" /\ program'[q] = holder /\ others'[q] = ShellEnds
          /\ pipes'[q] = ShellPipes /\ pipe_index'[q] = pipe_index[Shell]
      BY <1>1, <1>3, <1>6, <2>1 DEF ProcTypes
    <3>4. Inherited(q)' = ShellEnds
      BY <1>4, <3>3 DEF Inherited, Previous, Current
    <3> QED BY <1>5, <3>2, <3>3, <3>4 DEF HasItsEnds
  <2>2. CASE q # p
    <3>1. /\ at'[q] = at[q] /\ others'[q] = others[q] /\ input'[q] = input[q]
          /\ output'[q] = output[q] /\ program'[q] = program[q] /\ pipes'[q] = pipes[q]
          /\ pipe_index'[q] = pipe_index[q]
      BY <1>1, <1>3, <1>6, <2>2, MemoriesAre DEF ProcTypes
    <3> QED BY <1>6, <3>1 DEF HasItsEnds, Inherited, Previous, Current
  <2> QED BY <2>1, <2>2
<1> QED BY <1>8, <1>9, <1>10 DEF ProcInv

\* Whatever the shell or a child does is one of these to the children.
LEMMA StepOfChildren ==
  ASSUME EndsInv, [Next]_vars
  PROVE  \/ OfShell
         \/ \E S : Ended(S)
         \/ \E r : Reaped(r)
         \/ \E m : Moved(m)
         \/ \E s \in Pids : SetUp(s)
         \/ CreateProcess /\ FreePids # {}
<1>0. Shell \in Memories /\ ProcTypes /\ RunningIsAt
  BY DEF Memories, EndsInv
<1>1. ASSUME UNCHANGED <<status, program, at, input, output, owner, others, pipes>>,
             \E x \in {0, 1} : pipe_index' \in {pipe_index, [pipe_index EXCEPT ![Shell] = x]}
      PROVE  OfShell
  <2>1. PICK x \in {0, 1} : pipe_index' \in {pipe_index, [pipe_index EXCEPT ![Shell] = x]}
    BY <1>1
  <2>2. \A p \in Pids : pipe_index'[p] = pipe_index[p]
    BY <1>0, <2>1, MemoriesAre DEF ProcTypes
  <2>3. pipe_index' \in [Memories -> {0, 1}]
    BY <1>0, <2>1 DEF ProcTypes
  <2> QED BY <1>0, <1>1, <2>2, <2>3 DEF OfShell, ProcTypes
<1>2. ASSUME NEW l \in Lines, ParseLine(l) PROVE OfShell
  BY <1>1, <1>2 DEF ParseLine, procVars, histories
<1>3. CASE ParseEnd
  BY <1>1, <1>3 DEF ParseEnd, procVars, histories
<1>4. CASE PopJob
  BY <1>1, <1>4 DEF PopJob, procVars, histories
<1>5. CASE CheckPid
  <2>1. UNCHANGED <<pipes, pipe_index, owner>> /\ (UNCHANGED procVars \/ \E p \in Zombies : Reap(p))
    BY <1>5 DEF CheckPid, Reported, histories
  <2> QED BY <1>1, <2>1 DEF procVars, Reaped, Zombies
<1>6. CASE PushJob
  BY <1>1, <1>6 DEF PushJob, procVars, histories
<1>7. CASE ExitQuash
  BY <1>1, <1>7 DEF ExitQuash, procVars, histories
<1>8. CASE StartJob
  BY <1>1, <1>8 DEF StartJob, procVars, histories
<1>9. CASE CreateProcess /\ FreePids = {}
  <2>1. ShellPipes \in [{0, 1} -> Pipes \cup {0}] /\ ShellEnds \in SUBSET Ends
    BY <1>9, PipeMade DEF CreateProcess
  <2>2. /\ UNCHANGED <<status, program, at, input, output, owner, pipe_index>>
        /\ pipes' = [pipes EXCEPT ![Shell] = ShellPipes]
        /\ others' = [others EXCEPT ![Shell] = ShellEnds]
    BY <1>9 DEF CreateProcess, ShellPipes, ShellEnds
  <2>3. OfShell
    BY <1>0, <2>1, <2>2, MemoriesAre DEF OfShell, ProcTypes
  <2> QED BY <2>3
<1>10. CASE CloseEnds
  <2>1. /\ UNCHANGED <<status, program, at, input, output, owner, pipes>>
        /\ pipe_index' = [pipe_index EXCEPT ![Shell] = 1 - pipe_index[Shell]]
        /\ others' = [others EXCEPT ![Shell] = others'[Shell]]
        /\ others'[Shell] \subseteq others[Shell]
    BY <1>0, <1>10 DEF CloseEnds, histories, ProcTypes
  <2>2. /\ others' \in [Memories -> SUBSET Ends]
        /\ \A p \in Pids : others'[p] = others[p]
    BY <1>0, <2>1, MemoriesAre DEF ProcTypes
  <2>3. 1 - pipe_index[Shell] \in {0, 1}
    BY <1>0 DEF ProcTypes
  <2>4. /\ pipe_index' \in [Memories -> {0, 1}]
        /\ \A p \in Pids : pipe_index'[p] = pipe_index[p]
    BY <1>0, <2>1, <2>3, MemoriesAre DEF ProcTypes
  <2> QED BY <1>0, <2>1, <2>2, <2>4 DEF OfShell, ProcTypes
<1>11. CASE RunCommand
  <2>1. UNCHANGED <<pipes, pipe_index, owner>>
    BY <1>11 DEF RunCommand, histories
  <2>2. CASE holder.name = "kill"
    <3>1. End(Signalled(holder.job)) /\ UNCHANGED program
      BY <1>11, <2>2 DEF RunCommand
    <3>2. \A p \in Signalled(holder.job) : p \in Pids /\ status[p] = "running"
      BY DEF Signalled, Reached
    <3> QED BY <2>1, <3>1, <3>2 DEF Ended
  <2>3. CASE holder.name # "kill"
    BY <1>1, <1>11, <2>1, <2>3 DEF RunCommand, procVars
  <2> QED BY <2>2, <2>3
<1>12. CASE PushNewJob
  BY <1>1, <1>12 DEF PushNewJob, procVars, histories
<1>13. CASE StartWaiting
  BY <1>1, <1>13 DEF StartWaiting, procVars, histories
<1>14. CASE Wait
  <2>1. UNCHANGED <<pipes, pipe_index, owner>> /\ (UNCHANGED procVars \/ \E p \in Zombies : Reap(p))
    BY <1>14 DEF Wait, Reported, histories
  <2> QED BY <1>1, <2>1 DEF procVars, Reaped, Zombies
<1>15. CASE JobOver
  BY <1>1, <1>15 DEF JobOver, procVars, histories
<1>16. ASSUME NEW p \in Pids, Child(p)
       PROVE  SetUp(p) \/ Moved(p) \/ Ended({p})
  BY <1>0, <1>16, ChildSteps
<1>17. CASE UNCHANGED vars
  BY <1>1, <1>17 DEF vars, procVars, histories
<1> QED BY <1>2, <1>3, <1>4, <1>5, <1>6, <1>7, <1>8, <1>9, <1>10, <1>11, <1>12, <1>13, <1>14,
           <1>15, <1>16, <1>17 DEF Next, Execute

LEMMA ProcInvKept ==
  ASSUME EndsInv, [Next]_vars
  PROVE  ProcInv'
<1>1. ProcInv
  BY DEF EndsInv, ProcInv
<1> QED BY <1>1, StepOfChildren, OfShellKeeps, EndedKeeps, ReapedKeeps, MovedKeeps, SetUpKeeps,
           ForkKeeps

\* The shell has open what the next command needs.
LEMMA ShellEndsKept ==
  ASSUME EndsInv, [Next]_vars
  PROVE  ShellHasItsEnds'
<1>0. /\ Shell \in Memories /\ Shell \notin Pids /\ ProcTypes /\ Shape /\ ShellHasItsEnds
      /\ pipe_index[Shell] \in {0, 1} /\ i \in Nat /\ Len(line) \in Nat
  BY MemoriesAre DEF Memories, EndsInv, ProcTypes, Shape, ShellTypes
<1>1. ASSUME UNCHANGED <<pc, i, line, others[Shell], pipes[Shell], pipe_index[Shell]>>
      PROVE  ShellHasItsEnds'
  BY <1>0, <1>1 DEF ShellHasItsEnds, Pending, Previous, Current
<1>2. ASSUME UNCHANGED others[Shell], Pending = {}, pc' \notin {"create", "close", "command"}
      PROVE  ShellHasItsEnds'
  BY <1>0, <1>2 DEF ShellHasItsEnds, Pending
<1>3. ASSUME NEW l \in Lines, ParseLine(l) PROVE ShellHasItsEnds'
  BY <1>2, <1>3 DEF ParseLine, procVars, Pending
<1>4. CASE ParseEnd
  BY <1>1, <1>4 DEF ParseEnd, procVars
<1>5. CASE PopJob
  BY <1>1, <1>5 DEF PopJob, procVars
<1>6. CASE CheckPid
  BY <1>1, <1>6 DEF CheckPid, Reap, procVars, shellVars
<1>7. CASE PushJob
  BY <1>1, <1>7 DEF PushJob, procVars
<1>8. CASE ExitQuash
  BY <1>2, <1>8 DEF ExitQuash, Returns, procVars, Pending
<1>9. CASE StartJob
  BY <1>0, <1>9 DEF StartJob, procVars, ShellHasItsEnds, Pending
<1>10. CASE CreateProcess
  <2>1. /\ pc = "create" /\ i <= Len(line) /\ pc' = "close" /\ UNCHANGED <<i, line>>
        /\ others'[Shell] = ShellEnds /\ pipes'[Shell] = ShellPipes
        /\ pipe_index'[Shell] = pipe_index[Shell]
    <3>1. FreePids # {} => Least(FreePids) \in Memories /\ Least(FreePids) # Shell
      BY ForkAnswers, MemoriesAre
    <3> QED BY <1>0, <1>10, <3>1 DEF CreateProcess, ShellPipes, ShellEnds, ProcTypes
  <2>2. (holder.p_in <=> i > 1) /\ (holder.p_out <=> i < Len(line))
    BY <1>0, <2>1, HolderParsed
  <2>3. Previous(Shell)' = Previous(Shell) /\ (holder.p_out => Current(Shell)' = Least(FreePipes))
    BY <2>1, PipeMade DEF Previous, Current
  <2> QED BY <2>1, <2>2, <2>3, PipeMade DEF ShellHasItsEnds, Pending
<1>11. CASE CloseEnds
  <2>1. /\ pc = "close" /\ pc' = "command" /\ UNCHANGED <<i, line, pipes>> /\ i <= Len(line)
        /\ others'[Shell] = {e \in others[Shell] :
                               /\ holder.p_out => e # WriteEnd(Current(Shell))
                               /\ holder.p_in => e # ReadEnd(Previous(Shell))}
        /\ pipe_index'[Shell] = 1 - pipe_index[Shell]
    BY <1>0, <1>11 DEF CloseEnds, ProcTypes, Shape, Control
  <2>2. (holder.p_in <=> i > 1) /\ (holder.p_out <=> i < Len(line))
    BY <1>0, <2>1, HolderParsed
  <2>3. Previous(Shell)' = Current(Shell)
    <3>1. 1 - (1 - pipe_index[Shell]) = pipe_index[Shell]
      BY <1>0
    <3> QED BY <2>1, <3>1 DEF Previous, Current
  <2> QED BY <1>0, <2>1, <2>2, <2>3, EndsDiffer DEF ShellHasItsEnds, Pending
<1>12. CASE RunCommand
  <2>1. others'[Shell] = others[Shell]
    <3>1. Shell \notin Signalled(holder.job)
      BY <1>0 DEF Signalled
    <3> QED BY <1>0, <1>12, <3>1 DEF RunCommand, End, Memories, procVars
  <2>2. pc = "command" /\ pc' = "create" /\ i' = i + 1 /\ UNCHANGED <<line, pipes, pipe_index>>
        /\ i \in 1..Len(line)
    BY <1>0, <1>12 DEF RunCommand, Shape, Control, Creating
  <2> QED BY <1>0, <2>1, <2>2 DEF ShellHasItsEnds, Pending, Previous
<1>13. CASE PushNewJob
  BY <1>0, <1>2, <1>13 DEF PushNewJob, Returns, procVars, Pending
<1>14. CASE StartWaiting
  BY <1>0, <1>2, <1>14 DEF StartWaiting, procVars, Pending
<1>15. CASE Wait
  BY <1>2, <1>15 DEF Wait, Reap, procVars, Pending
<1>16. CASE JobOver
  BY <1>2, <1>16 DEF JobOver, Returns, procVars, Pending
<1>17. ASSUME NEW p \in Pids, Child(p) PROVE ShellHasItsEnds'
  <2>1. UNCHANGED <<pc, i, line>>
    BY <1>17, ChildLeavesShell DEF shellVars
  <2>2. p # Shell /\ p \in Memories
    BY MemoriesAre
  <2>3. UNCHANGED <<others[Shell], pipes[Shell], pipe_index[Shell]>>
    <3>1. CASE SetUp(p)
      BY <1>0, <2>2, <3>1 DEF SetUp, ProcTypes
    <3>2. CASE Moved(p)
      BY <3>2 DEF Moved
    <3>3. CASE Ended({p})
      BY <1>0, <2>2, <3>3 DEF Ended, End, Memories
    <3> QED BY <1>17, <3>1, <3>2, <3>3, ChildSteps DEF EndsInv
  <2> QED BY <1>1, <2>1, <2>3
<1>18. CASE UNCHANGED vars
  BY <1>1, <1>18 DEF vars, procVars, shellVars
<1> QED BY <1>3, <1>4, <1>5, <1>6, <1>7, <1>8, <1>9, <1>10, <1>11, <1>12, <1>13, <1>14,
           <1>15, <1>16, <1>17, <1>18 DEF Next, Execute

LEMMA EndsInvKept ==
  ASSUME EndsInv, [Next]_vars
  PROVE  EndsInv'
BY ShapeKept, ProcInvKept, ShellEndsKept DEF EndsInv, ProcInv

-----------------------------------------------------------------------------
(* No end of a pipe is left open *)

LEMMA EndsInvInit ==
  ASSUME Init
  PROVE  EndsInv
<1>1. ProcTypes
  <2>1. NoPipes \in [{0, 1} -> Pipes \cup {0}]
    BY DEF NoPipes
  <2> QED BY <2>1 DEF Init, ProcInit, ProcInitWith, ProcTypes, Memories
<1>2. Shape
  <2>1. ShellTypes
    <3>1. all_done \in BOOLEAN /\ fork_failed \in BOOLEAN
      BY DEF Init
    <3>2. line \in Seq(Holder) /\ pids \in Seq(Answers) /\ background_jobs \in Seq(JobStruct)
      BY DEF Init
    <3>3. /\ pc = "parse" /\ i = 0 /\ child_pid = 0 /\ next_job_id = 1
          /\ job = NoJob /\ num_jobs = 0 /\ num_pids = 0
      BY DEF Init
    <3> QED BY <3>1, <3>2, <3>3 DEF ShellTypes
  <2>2. LineParsed
    BY DEF Init, LineParsed
  <2>3. Control /\ Checking
    BY DEF Init, Control, Checking, Creating
  <2> QED BY <2>1, <2>2, <2>3 DEF Shape
<1>3. RunningIsAt /\ \A p \in Pids : HasItsEnds(p)
  BY MemoriesAre DEF Init, ProcInit, ProcInitWith, RunningIsAt, HasItsEnds
<1>4. ShellHasItsEnds
  BY DEF Init, ProcInit, ProcInitWith, ShellHasItsEnds, Pending, Memories
<1> QED BY <1>1, <1>2, <1>3, <1>4 DEF EndsInv

\* execute.c:427-459: whatever the lines, the jobs and the number of processes,
\* a child that has set itself up has no end of a pipe besides its standard
\* input and output, and the shell has none between two lines, even if a fork
\* has failed.
THEOREM NoEndLeaks == Spec => []NoLeakedEnds
<1>2. EndsInv => NoLeakedEnds
  BY DEF EndsInv, HasItsEnds, ShellHasItsEnds, Pending, NoLeakedEnds
<1> QED BY EndsInvInit, EndsInvKept, <1>2, PTL DEF Spec
-----------------------------------------------------------------------------
(* The account of the children *)

Elems(s) == {s[k] : k \in DOMAIN s}
Distinct(s) == \A k, l \in DOMAIN s : s[k] = s[l] => k = l

\* The deque the shell works on.
InHand == IF pc = "check" THEN job.pids ELSE pids

\* The processes in the deques of a list of jobs, ...
Members(bs) == UNION {Elems(bs[n].pids) : n \in DOMAIN bs}

\* ... each of which has some, and no two of which have one in common.
JobsApart(bs) ==
  \A n \in DOMAIN bs :
    /\ Elems(bs[n].pids) \subseteq Pids /\ Distinct(bs[n].pids) /\ bs[n].pids # <<>>
    /\ \A m \in DOMAIN bs : m # n => Elems(bs[m].pids) \cap Elems(bs[n].pids) = {}

NewChild == {child_pid} \ {0}

Account ==
  /\ Elems(InHand) \subseteq Pids /\ Distinct(InHand)
  /\ JobsApart(background_jobs)
  /\ NewChild \subseteq Pids
  /\ Elems(InHand) \cap Members(background_jobs) = {}
  /\ NewChild \cap (Elems(InHand) \cup Members(background_jobs)) = {}
  /\ Children = Elems(InHand) \cup NewChild \cup Members(background_jobs)

\* The processes of a job were forked for it, and its number has been given out.
JobOwned(j) ==
  /\ j.job_id \in 1..(next_job_id - 1)
  /\ \A p \in Elems(j.pids) : owner[p] = j.job_id

Owners ==
  /\ \A n \in DOMAIN background_jobs : JobOwned(background_jobs[n])
  /\ job # NoJob => JobOwned(job)
  /\ Creating => \A p \in Elems(pids) \cup NewChild :
                   owner[p] = IF line[1].background THEN next_job_id ELSE 0

AccountInv == EndsInv /\ (~fork_failed => Account /\ Owners)

\* Deques of distinct elements.
LEMMA EmptyElems == Elems(<<>>) = {} /\ Distinct(<<>>) /\ Members(<<>>) = {}
BY DEF Elems, Distinct, Members

LEMMA TailElems ==
  ASSUME NEW S, NEW s \in Seq(S), s # <<>>
  PROVE  /\ Head(s) \in Elems(s) /\ Elems(Tail(s)) \subseteq Elems(s)
         /\ Elems(s) = Elems(Tail(s)) \cup {Head(s)}
         /\ Distinct(s) => Distinct(Tail(s)) /\ Head(s) \notin Elems(Tail(s))
<1> DEFINE n == Len(s)
           t == Tail(s)
<1>1. n \in Nat /\ n > 0 /\ DOMAIN s = 1..n /\ Head(s) = s[1]
  OBVIOUS
<1>2. DOMAIN t = 1..(n - 1) /\ \A k \in 1..(n - 1) : t[k] = s[k + 1]
  OBVIOUS
<1> HIDE DEF n, t
<1>3. \A k \in DOMAIN t : k + 1 \in DOMAIN s /\ t[k] = s[k + 1] /\ k + 1 # 1
  BY <1>1, <1>2
<1>4. \A k \in DOMAIN s : k = 1 \/ (k - 1 \in DOMAIN t /\ t[k - 1] = s[k])
  <2> TAKE k \in DOMAIN s
  <2>1. k \in Int /\ (k - 1) + 1 = k
    BY <1>1
  <2>2. k # 1 => k - 1 \in 1..(n - 1)
    BY <1>1, <2>1
  <2> QED BY <1>2, <2>1, <2>2
<1>5. Elems(t) \subseteq Elems(s) /\ s[1] \in Elems(s)
  BY <1>1, <1>3 DEF Elems
<1>6. Elems(s) \subseteq Elems(t) \cup {s[1]}
  BY <1>4 DEF Elems
<1>7. ASSUME Distinct(s) PROVE Distinct(t)
  <2>1. ASSUME NEW k \in DOMAIN t, NEW l \in DOMAIN t, t[k] = t[l] PROVE k = l
    <3>1. s[k + 1] = s[l + 1] /\ k + 1 \in DOMAIN s /\ l + 1 \in DOMAIN s
      BY <1>3, <2>1
    <3>2. k + 1 = l + 1 /\ k \in Int /\ l \in Int
      BY <1>2, <1>7, <3>1, <1>1 DEF Distinct
    <3> QED BY <3>2
  <2> QED BY <2>1 DEF Distinct
<1>8. ASSUME Distinct(s) PROVE s[1] \notin Elems(t)
  <2>1. ASSUME NEW k \in DOMAIN t, t[k] = s[1] PROVE FALSE
    <3>1. s[k + 1] = s[1] /\ k + 1 \in DOMAIN s /\ 1 \in DOMAIN s /\ k + 1 # 1
      BY <1>1, <1>3, <2>1
    <3> QED BY <1>8, <3>1 DEF Distinct
  <2> QED BY <2>1 DEF Elems
<1> QED BY <1>1, <1>5, <1>6, <1>7, <1>8 DEF t

LEMMA AppendElems ==
  ASSUME NEW S, NEW s \in Seq(S), NEW x \in S
  PROVE  /\ Elems(Append(s, x)) = Elems(s) \cup {x}
         /\ Distinct(s) /\ x \notin Elems(s) => Distinct(Append(s, x))
<1> DEFINE n == Len(s)
           t == Append(s, x)
<1>1. n \in Nat /\ DOMAIN s = 1..n /\ DOMAIN t = 1..(n + 1)
  OBVIOUS
<1>2. t[n + 1] = x /\ \A k \in 1..n : t[k] = s[k]
  OBVIOUS
<1> HIDE DEF n, t
<1>3. \A k \in DOMAIN t : k = n + 1 \/ k \in DOMAIN s
  BY <1>1
<1>4. n + 1 \in DOMAIN t /\ DOMAIN s \subseteq DOMAIN t
  BY <1>1
<1>5. Elems(t) = Elems(s) \cup {x}
  BY <1>1, <1>2, <1>3, <1>4 DEF Elems
<1>6. ASSUME Distinct(s), x \notin Elems(s) PROVE Distinct(t)
  BY <1>1, <1>2, <1>3, <1>6 DEF Distinct, Elems
<1> QED BY <1>5, <1>6 DEF t

\* The head goes to the back of its deque.
LEMMA RotateElems ==
  ASSUME NEW S, NEW s \in Seq(S), s # <<>>, Distinct(s)
  PROVE  /\ Elems(Append(Tail(s), Head(s))) = Elems(s)
         /\ Distinct(Append(Tail(s), Head(s)))
<1>1. Tail(s) \in Seq(S) /\ Head(s) \in S
  BY Rotate
<1>2. Distinct(Tail(s)) /\ Head(s) \notin Elems(Tail(s)) /\ Elems(s) = Elems(Tail(s)) \cup {Head(s)}
  BY TailElems
<1>3. \A t \in Seq(S), x \in S :
        /\ Elems(Append(t, x)) = Elems(t) \cup {x}
        /\ Distinct(t) /\ x \notin Elems(t) => Distinct(Append(t, x))
  BY AppendElems
<1> QED BY <1>1, <1>2, <1>3

\* The first job of the list is taken out, ...
LEMMA FirstJobApart ==
  ASSUME NEW S, NEW bs \in Seq(S), bs # <<>>, JobsApart(bs)
  PROVE  /\ JobsApart(Tail(bs)) /\ Elems(Head(bs).pids) \subseteq Pids
         /\ Distinct(Head(bs).pids) /\ Head(bs).pids # <<>>
         /\ Members(bs) = Members(Tail(bs)) \cup Elems(Head(bs).pids)
         /\ Members(Tail(bs)) \cap Elems(Head(bs).pids) = {}
<1> DEFINE n == Len(bs)
           t == Tail(bs)
<1>1. n \in Nat /\ n > 0 /\ DOMAIN bs = 1..n /\ Head(bs) = bs[1] /\ 1 \in DOMAIN bs
  OBVIOUS
<1>2. DOMAIN t = 1..(n - 1) /\ \A k \in 1..(n - 1) : t[k] = bs[k + 1]
  OBVIOUS
<1> HIDE DEF n, t
<1>3. \A k \in DOMAIN t : k \in Int /\ k + 1 \in DOMAIN bs /\ t[k] = bs[k + 1] /\ k + 1 # 1
  BY <1>1, <1>2
<1>4. \A k \in DOMAIN bs : k = 1 \/ (k - 1 \in DOMAIN t /\ t[k - 1] = bs[k])
  <2> TAKE k \in DOMAIN bs
  <2>1. k \in Int /\ (k - 1) + 1 = k
    BY <1>1
  <2>2. k # 1 => k - 1 \in 1..(n - 1)
    BY <1>1, <2>1
  <2> QED BY <1>2, <2>1, <2>2
<1>5. JobsApart(t)
  <2> SUFFICES ASSUME NEW k \in DOMAIN t
               PROVE  /\ Elems(t[k].pids) \subseteq Pids /\ Distinct(t[k].pids) /\ t[k].pids # <<>>
                      /\ \A m \in DOMAIN t : m # k => Elems(t[m].pids) \cap Elems(t[k].pids) = {}
    BY DEF JobsApart
  <2>1. k + 1 \in DOMAIN bs /\ t[k] = bs[k + 1] /\ k \in Int
    BY <1>3
  <2>2. ASSUME NEW m \in DOMAIN t, m # k PROVE Elems(t[m].pids) \cap Elems(t[k].pids) = {}
    <3>1. m + 1 \in DOMAIN bs /\ t[m] = bs[m + 1] /\ m + 1 # k + 1
      BY <1>3, <2>1, <2>2
    <3> QED BY <2>1, <3>1 DEF JobsApart
  <2>3. Elems(t[k].pids) \subseteq Pids /\ Distinct(t[k].pids) /\ t[k].pids # <<>>
    BY <2>1 DEF JobsApart
  <2> QED BY <2>2, <2>3
<1>6. Elems(bs[1].pids) \subseteq Pids /\ Distinct(bs[1].pids) /\ bs[1].pids # <<>>
  BY <1>1 DEF JobsApart
<1>7. Members(t) \subseteq Members(bs) /\ Elems(bs[1].pids) \subseteq Members(bs)
  BY <1>1, <1>3 DEF Members
<1>8. Members(bs) \subseteq Members(t) \cup Elems(bs[1].pids)
  BY <1>4 DEF Members
<1>9. Members(t) \cap Elems(bs[1].pids) = {}
  <2>1. ASSUME NEW k \in DOMAIN t PROVE Elems(t[k].pids) \cap Elems(bs[1].pids) = {}
    BY <1>1, <1>3 DEF JobsApart
  <2> QED BY <2>1 DEF Members
<1> QED BY <1>1, <1>5, <1>6, <1>7, <1>8, <1>9 DEF t

\* ... and a job is put at the end of it.
LEMMA AppendJobApart ==
  ASSUME NEW S, NEW bs \in Seq(S), NEW j \in S, JobsApart(bs),
         Elems(j.pids) \subseteq Pids, Distinct(j.pids), j.pids # <<>>,
         Members(bs) \cap Elems(j.pids) = {}
  PROVE  /\ JobsApart(Append(bs, j))
         /\ Members(Append(bs, j)) = Members(bs) \cup Elems(j.pids)
<1> DEFINE n == Len(bs)
           t == Append(bs, j)
<1>1. n \in Nat /\ DOMAIN bs = 1..n /\ DOMAIN t = 1..(n + 1)
  OBVIOUS
<1>2. t[n + 1] = j /\ \A k \in 1..n : t[k] = bs[k]
  OBVIOUS
<1> HIDE DEF n, t
<1>3. \A k \in DOMAIN t : k = n + 1 \/ k \in DOMAIN bs
  BY <1>1
<1>4. n + 1 \in DOMAIN t /\ DOMAIN bs \subseteq DOMAIN t /\ \A k \in DOMAIN bs : t[k] = bs[k]
  BY <1>1, <1>2
<1>5. \A k \in DOMAIN bs : Elems(bs[k].pids) \cap Elems(j.pids) = {}
  BY DEF Members
<1>6. JobsApart(t)
  <2> SUFFICES ASSUME NEW k \in DOMAIN t
               PROVE  /\ Elems(t[k].pids) \subseteq Pids /\ Distinct(t[k].pids) /\ t[k].pids # <<>>
                      /\ \A m \in DOMAIN t : m # k => Elems(t[m].pids) \cap Elems(t[k].pids) = {}
    BY DEF JobsApart
  <2>1. Elems(t[k].pids) \subseteq Pids /\ Distinct(t[k].pids) /\ t[k].pids # <<>>
    BY <1>2, <1>3, <1>4 DEF JobsApart
  <2>2. ASSUME NEW m \in DOMAIN t, m # k PROVE Elems(t[m].pids) \cap Elems(t[k].pids) = {}
    <3>1. CASE k \in DOMAIN bs /\ m \in DOMAIN bs
      BY <1>4, <2>2, <3>1 DEF JobsApart
    <3>2. CASE k = n + 1 /\ m \in DOMAIN bs
      BY <1>2, <1>4, <1>5, <3>2
    <3>3. CASE m = n + 1 /\ k \in DOMAIN bs
      BY <1>2, <1>4, <1>5, <3>3
    <3> QED BY <1>3, <2>2, <3>1, <3>2, <3>3
  <2> QED BY <2>1, <2>2
<1>7. Members(t) = Members(bs) \cup Elems(j.pids)
  BY <1>2, <1>3, <1>4 DEF Members
<1> QED BY <1>6, <1>7 DEF t

\* The process table in a step: its owners are known, and its entries stay until
\* they are waited for.
LEMMA ChildrenKept ==
  ASSUME EndsInv
  PROVE  /\ OfShell => Children' = Children /\ owner' = owner
         /\ \A S : Ended(S) => Children' = Children /\ owner' = owner
         /\ \A p : Moved(p) => Children' = Children /\ owner' = owner
         /\ \A p : SetUp(p) => Children' = Children /\ owner' = owner
         /\ \A p \in Pids : Reap(p) => Children' = Children \ {p}
<1> USE DEF Children
<1>1. OfShell => Children' = Children /\ owner' = owner
  BY DEF OfShell
<1>2. ASSUME NEW S, Ended(S) PROVE Children' = Children /\ owner' = owner
  BY <1>2 DEF Ended, End
<1>3. ASSUME NEW p, Moved(p) PROVE Children' = Children /\ owner' = owner
  BY <1>3 DEF Moved
<1>4. ASSUME NEW p, SetUp(p) PROVE Children' = Children /\ owner' = owner
  BY <1>4 DEF SetUp, histories
<1>5. ASSUME NEW p \in Pids, Reap(p) PROVE Children' = Children \ {p}
  BY <1>5 DEF Reap, EndsInv, ProcTypes
<1> QED BY <1>1, <1>2, <1>3, <1>4, <1>5

LEMMA ChildStepKept ==
  ASSUME EndsInv, NEW p \in Pids, Child(p)
  PROVE  UNCHANGED <<Children, shellVars, checkVars, histories>>
<1>1. SetUp(p) \/ Moved(p) \/ Ended({p})
  BY ChildSteps DEF EndsInv
<1>2. Children' = Children
  BY <1>1, ChildrenKept
<1> QED BY <1>2, ChildLeavesShell

\* waitpid for a process of a job that has not been waited for yet: either it
\* goes on, or it is the one that is reaped.
LEMMA WaitForChild ==
  ASSUME EndsInv, NEW pid \in Children
  PROVE  /\ Awaited(pid) # {} /\ Reported(pid) \subseteq {pid}
         /\ \A p \in Reported(pid) : Reap(p) => Children' = Children \ {pid}
<1>1. pid \in Pids /\ pid # AnyPid
  BY DEF Children, Pids, AnyPid
<1>2. pid \in Awaited(pid) /\ Reported(pid) \subseteq {pid}
  BY <1>1 DEF Awaited, Reported
<1> QED BY <1>1, <1>2, ChildrenKept

LEMMA AccountKept ==
  ASSUME AccountInv, [Next]_vars, ~fork_failed'
  PROVE  Account'
<1>0. EndsInv /\ Shape /\ ShellTypes /\ ProcTypes
  BY DEF AccountInv, EndsInv, Shape
<1>1. ~fork_failed /\ Account
  <2>1. fork_failed => fork_failed'
    BY ChildLeavesShell DEF Next, vars, Execute, ParseLine, ParseEnd, PopJob, CheckPid, PushJob, ExitQuash,
       StartJob, CreateProcess, CloseEnds, RunCommand, PushNewJob, StartWaiting, Wait, JobOver, histories
  <2> QED BY <2>1 DEF AccountInv
<1>2. UNCHANGED <<InHand, background_jobs, child_pid, Children>> => Account'
  BY <1>1 DEF Account, NewChild
<1>3. UNCHANGED procVars => Children' = Children
  BY DEF procVars, Children
<1>4. pc # "check" => job.pids = <<>>
  BY <1>0 DEF Shape, Control, NoJob
<1>5. ASSUME NEW l \in Lines, ParseLine(l) PROVE Account'
  <2>1. InHand = <<>> /\ InHand' = <<>>
    BY <1>0, <1>4, <1>5 DEF ParseLine, InHand, Shape, Control, Creating
  <2> QED BY <1>2, <1>3, <1>5, <2>1 DEF ParseLine
<1>6. CASE ParseEnd
  BY <1>2, <1>3, <1>6 DEF ParseEnd, InHand, checkVars
<1>7. CASE PopJob
  <2>1. background_jobs \in Seq(JobStruct) /\ background_jobs # <<>>
    BY <1>0, <1>7 DEF PopJob, ShellTypes, Shape, Checking
  <2>2. InHand = <<>> /\ child_pid = 0
    BY <1>0, <1>7 DEF PopJob, InHand, NoJob, Shape, Control
  <2>3. InHand' = Head(background_jobs).pids /\ background_jobs' = Tail(background_jobs)
        /\ child_pid' = child_pid /\ Children' = Children
    BY <1>3, <1>7 DEF PopJob, InHand
  <2>4. /\ JobsApart(Tail(background_jobs)) /\ Elems(Head(background_jobs).pids) \subseteq Pids
        /\ Distinct(Head(background_jobs).pids)
        /\ Members(background_jobs) = Members(Tail(background_jobs)) \cup Elems(Head(background_jobs).pids)
        /\ Members(Tail(background_jobs)) \cap Elems(Head(background_jobs).pids) = {}
    BY <1>1, <2>1, FirstJobApart DEF Account
  <2> QED BY <1>1, <2>2, <2>3, <2>4, EmptyElems DEF Account, NewChild
<1>8. CASE CheckPid
  <2>1. /\ job # NoJob /\ job.pids # <<>> /\ pc = "check" /\ UNCHANGED <<pc, child_pid, background_jobs>>
        /\ job \in JobStruct
    BY <1>0, <1>8, CheckedJob DEF CheckPid, shellVars, ShellTypes
  <2>2. job.pids \in Seq(Answers) /\ InHand = job.pids /\ InHand' = job'.pids
    BY <2>1 DEF JobStruct, InHand
  <2> DEFINE pid == Head(job.pids)
             rest == Tail(job.pids)
  <2>3. /\ pid \in Elems(job.pids) /\ Elems(rest) \subseteq Elems(job.pids)
        /\ Elems(job.pids) = Elems(rest) \cup {pid}
        /\ Distinct(rest) /\ pid \notin Elems(rest)
    BY <1>1, <2>1, <2>2, TailElems DEF Account
  <2>4. pid \in Children
    BY <1>1, <2>2, <2>3 DEF Account
  <2>5. \/ job'.pids = Append(rest, pid) /\ UNCHANGED procVars
        \/ job'.pids = rest /\ Children' = Children \ {pid}
    <3> HIDE DEF pid, rest
    <3>1. \/ job' = [job EXCEPT !.pids = Append(rest, pid)] /\ UNCHANGED procVars
          \/ job' = [job EXCEPT !.pids = rest] /\ \E p \in Reported(pid) : Reap(p)
          \/ Awaited(pid) = {}
      BY <1>8 DEF CheckPid, pid, rest
    <3> QED BY <1>0, <2>1, <2>4, <3>1, WaitForChild DEF JobStruct
  <2>6. CASE job'.pids = Append(rest, pid) /\ UNCHANGED procVars
    <3>1. Elems(InHand') = Elems(InHand) /\ Distinct(InHand')
      BY <1>1, <2>1, <2>2, <2>6, RotateElems DEF Account
    <3> QED BY <1>1, <1>3, <2>1, <2>6, <3>1 DEF Account, NewChild
  <2>7. CASE job'.pids = rest /\ Children' = Children \ {pid}
    <3> HIDE DEF pid, rest
    <3>1. child_pid = 0
      BY <1>0, <2>1 DEF Shape, Control
    <3> QED BY <1>1, <2>1, <2>2, <2>3, <2>7, <3>1 DEF Account, NewChild
  <2> QED BY <2>5, <2>6, <2>7
<1>9. CASE PushJob
  <2>1. /\ job \in JobStruct /\ pc = "check" /\ UNCHANGED <<pc, child_pid>> /\ Children' = Children
        /\ job'.pids = <<>> /\ child_pid = 0 /\ background_jobs \in Seq(JobStruct)
    BY <1>0, <1>3, <1>9 DEF PushJob, ShellTypes, NoJob, Shape, Control
  <2>2. InHand = job.pids /\ InHand' = <<>>
    BY <2>1 DEF InHand
  <2>3. CASE all_done
    <3>1. Len(job.pids) = 0 /\ job.pids \in Seq(Answers)
      BY <1>0, <1>9, <2>1, <2>3 DEF PushJob, Shape, Checking, JobStruct
    <3>2. job.pids = <<>> /\ background_jobs' = background_jobs
      BY <1>9, <2>3, <3>1 DEF PushJob
    <3> QED BY <1>2, <2>1, <2>2, <3>2
  <2>4. CASE ~all_done
    <3>1. job.pids # <<>>
      BY <1>0, <1>9, <2>1, <2>4 DEF PushJob, Shape, Checking, JobStruct
    <3>2. background_jobs' = Append(background_jobs, job)
      BY <1>9, <2>4 DEF PushJob
    <3>3. /\ JobsApart(background_jobs')
          /\ Members(background_jobs') = Members(background_jobs) \cup Elems(job.pids)
      BY <1>1, <2>1, <2>2, <3>1, <3>2, AppendJobApart DEF Account
    <3> QED BY <1>1, <2>1, <2>2, <3>3, EmptyElems DEF Account, NewChild
  <2> QED BY <2>3, <2>4
<1>10. CASE ExitQuash
  <2>1. InHand = <<>> /\ InHand' = <<>> /\ child_pid = 0
    BY <1>0, <1>10 DEF ExitQuash, Returns, InHand, Shape, Control, Checking, NoJob
  <2> QED BY <1>2, <1>3, <1>10, <2>1 DEF ExitQuash, Returns
<1>11. CASE StartJob
  <2>1. InHand = <<>> /\ InHand' = <<>>
    BY <1>0, <1>11 DEF StartJob, InHand, Shape, Control, Checking, NoJob, Creating
  <2> QED BY <1>2, <1>3, <1>11, <2>1 DEF StartJob
<1>12. CASE CreateProcess
  <2> DEFINE p == Least(FreePids)
  <2>1. p \in Pids /\ status[p] = "unused" /\ FreePids # {}
    BY <1>0, <1>12, ForkAnswers DEF CreateProcess
  <2>2. /\ child_pid' = p /\ status' = [status EXCEPT ![p] = "running"]
        /\ UNCHANGED <<pids, background_jobs>> /\ pc = "create" /\ pc' = "close"
    BY <1>12, <2>1 DEF CreateProcess
  <2> HIDE DEF p
  <2>3. p \notin Children /\ p # 0 /\ child_pid = 0 /\ InHand = pids /\ InHand' = pids
    BY <1>0, <2>1, <2>2 DEF Children, Pids, Shape, Control, InHand
  <2>4. Children' = Children \cup {p}
    BY <1>0, <2>1, <2>2 DEF Children, ProcTypes
  <2> QED BY <1>1, <2>1, <2>2, <2>3, <2>4 DEF Account, NewChild
<1>13. CASE CloseEnds
  <2>1. UNCHANGED <<status, pids, child_pid, background_jobs>> /\ pc = "close" /\ pc' = "command"
    BY <1>13 DEF CloseEnds
  <2> QED BY <1>2, <2>1 DEF Children, InHand
<1>14. CASE RunCommand
  <2>1. /\ pids' = Append(pids, child_pid) /\ child_pid' = 0 /\ UNCHANGED background_jobs
        /\ pc = "command" /\ pc' = "create"
    BY <1>14 DEF RunCommand
  <2>2. Children' = Children
    <3>1. UNCHANGED procVars \/ End(Signalled(holder.job))
      BY <1>14 DEF RunCommand
    <3>2. ASSUME End(Signalled(holder.job)) PROVE Children' = Children
      BY <3>2 DEF End, Signalled, Reached, Children
    <3> QED BY <1>3, <3>1, <3>2
  <2>3. child_pid # 0 /\ pids \in Seq(Answers)
    BY <1>0, <2>1 DEF Shape, Control, ShellTypes
  <2>4. child_pid \in Answers /\ NewChild = {child_pid} /\ NewChild' = {} /\ InHand = pids /\ InHand' = pids'
    BY <1>0, <2>1, <2>3 DEF NewChild, InHand, ShellTypes
  <2>5. Elems(pids') = Elems(pids) \cup {child_pid} /\ Distinct(pids')
    BY <1>1, <2>1, <2>3, <2>4, AppendElems DEF Account
  <2> QED BY <1>1, <2>1, <2>2, <2>4, <2>5 DEF Account
<1>15. CASE PushNewJob
  <2>1. /\ background_jobs' = Append(background_jobs, [job_id |-> next_job_id, pids |-> pids])
        /\ pids' = <<>> /\ child_pid' = 0 /\ pc = "create" /\ pc' # "check" /\ Children' = Children
    BY <1>3, <1>15 DEF PushNewJob, Returns
  <2>2. child_pid = 0 /\ Len(pids) > 0 /\ pids \in Seq(Answers) /\ background_jobs \in Seq(JobStruct)
    BY <1>0, <1>15 DEF PushNewJob, Shape, Control, Creating, ShellTypes
  <2>3. [job_id |-> next_job_id, pids |-> pids] \in JobStruct /\ pids # <<>>
    BY <1>0, <2>2 DEF JobStruct, ShellTypes
  <2>4. InHand = pids /\ InHand' = <<>>
    BY <2>1 DEF InHand
  <2>5. /\ JobsApart(background_jobs')
        /\ Members(background_jobs') = Members(background_jobs) \cup Elems(pids)
    <3> DEFINE j == [job_id |-> next_job_id, pids |-> pids]
    <3>1. j \in JobStruct /\ j.pids = pids
      BY <2>3
    <3> HIDE DEF j
    <3>2. Elems(j.pids) \subseteq Pids /\ Distinct(j.pids) /\ j.pids # <<>>
          /\ Members(background_jobs) \cap Elems(j.pids) = {} /\ JobsApart(background_jobs)
      BY <1>1, <2>3, <2>4, <3>1 DEF Account
    <3> QED BY <2>1, <2>2, <3>1, <3>2, AppendJobApart DEF j
  <2> QED BY <1>1, <2>1, <2>2, <2>4, <2>5, EmptyElems DEF Account, NewChild
<1>16. CASE StartWaiting
  <2>1. InHand = pids /\ InHand' = pids
    BY <1>16 DEF StartWaiting, InHand
  <2> QED BY <1>2, <1>3, <1>16, <2>1 DEF StartWaiting, InHand
<1>17. CASE Wait
  <2>1. /\ pc = "wait" /\ pids # <<>> /\ pids' = Tail(pids) /\ UNCHANGED <<pc, child_pid, background_jobs>>
        /\ pids \in Seq(Answers) /\ child_pid = 0 /\ InHand = pids /\ InHand' = pids'
    BY <1>0, <1>17 DEF Wait, ShellTypes, Shape, Control, InHand
  <2> DEFINE pid == Head(pids)
  <2>2. /\ pid \in Elems(pids) /\ Elems(pids) = Elems(Tail(pids)) \cup {pid}
        /\ Distinct(Tail(pids)) /\ pid \notin Elems(Tail(pids))
    BY <1>1, <2>1, TailElems DEF Account
  <2>3. pid \in Children
    BY <1>1, <2>1, <2>2 DEF Account
  <2>4. (\E p \in Reported(pid) : Reap(p)) \/ Awaited(pid) = {}
    BY <1>17 DEF Wait
  <2> HIDE DEF pid
  <2>5. Children' = Children \ {pid}
    BY <1>0, <2>3, <2>4, WaitForChild
  <2> QED BY <1>1, <2>1, <2>2, <2>5 DEF Account, NewChild
<1>18. CASE JobOver
  <2>1. InHand = <<>> /\ InHand' = <<>> /\ child_pid = 0 /\ child_pid' = 0
    BY <1>0, <1>18 DEF JobOver, Returns, InHand, Shape, Control
  <2> QED BY <1>2, <1>3, <1>18, <2>1 DEF JobOver
<1>19. ASSUME NEW p \in Pids, Child(p) PROVE Account'
  <2>1. UNCHANGED <<Children, shellVars, checkVars>>
    BY <1>0, <1>19, ChildStepKept
  <2> QED BY <1>2, <2>1 DEF shellVars, checkVars, InHand
<1>20. CASE UNCHANGED vars
  BY <1>2, <1>3, <1>20 DEF vars, shellVars, checkVars, InHand
<1> QED BY <1>5, <1>6, <1>7, <1>8, <1>9, <1>10, <1>11, <1>12, <1>13, <1>14, <1>15, <1>16, <1>17,
           <1>18, <1>19, <1>20 DEF Next, Execute

\* The jobs of a list and of its tail, and of a list with one more.
LEMMA TailOfJobs ==
  ASSUME NEW S, NEW bs \in Seq(S), bs # <<>>
  PROVE  /\ \A n \in DOMAIN Tail(bs) : \E m \in DOMAIN bs : Tail(bs)[n] = bs[m]
         /\ \E m \in DOMAIN bs : Head(bs) = bs[m]
<1>1. Len(bs) \in Nat /\ Len(bs) > 0 /\ DOMAIN bs = 1..Len(bs) /\ Head(bs) = bs[1]
  OBVIOUS
<1>2. DOMAIN Tail(bs) = 1..(Len(bs) - 1) /\ \A n \in 1..(Len(bs) - 1) : Tail(bs)[n] = bs[n + 1]
  OBVIOUS
<1>3. ASSUME NEW n \in DOMAIN Tail(bs) PROVE n + 1 \in DOMAIN bs /\ Tail(bs)[n] = bs[n + 1]
  BY <1>1, <1>2
<1>4. 1 \in DOMAIN bs
  BY <1>1
<1> QED BY <1>1, <1>3, <1>4

LEMMA MoreJobs ==
  ASSUME NEW S, NEW bs \in Seq(S), NEW j \in S
  PROVE  \A n \in DOMAIN Append(bs, j) : Append(bs, j)[n] = j \/ \E m \in DOMAIN bs : Append(bs, j)[n] = bs[m]
<1>1. DOMAIN bs = 1..Len(bs) /\ Len(bs) \in Nat
  OBVIOUS
<1>2. /\ DOMAIN Append(bs, j) = 1..(Len(bs) + 1) /\ Append(bs, j)[Len(bs) + 1] = j
      /\ \A n \in 1..Len(bs) : Append(bs, j)[n] = bs[n]
  OBVIOUS
<1> QED BY <1>1, <1>2

\* A step in which nobody is forked leaves the owners of the processes alone.
LEMMA OwnerKept ==
  ASSUME EndsInv, [Next]_vars, ~CreateProcess
  PROVE  owner' = owner
BY ChildLeavesShell DEF Next, vars, Execute, ParseLine, ParseEnd, PopJob, CheckPid, PushJob, ExitQuash,
   StartJob, CloseEnds, RunCommand, PushNewJob, StartWaiting, Wait, JobOver, histories

LEMMA OwnersKept ==
  ASSUME AccountInv, [Next]_vars, ~fork_failed, Account, Owners, ~fork_failed'
  PROVE  Owners'
<1>0. EndsInv /\ Shape /\ ShellTypes /\ ProcTypes
  BY DEF AccountInv, EndsInv, Shape
<1>1. ASSUME UNCHANGED <<owner, next_job_id>>, NEW j, JobOwned(j) PROVE JobOwned(j)'
  BY <1>1 DEF JobOwned
<1>2. ASSUME UNCHANGED <<owner, next_job_id, background_jobs, job>>, ~Creating'
      PROVE  Owners'
  BY <1>1, <1>2 DEF Owners
<1>3. ASSUME NEW l \in Lines, ParseLine(l) PROVE Owners'
  BY <1>2, <1>3 DEF ParseLine, Creating, histories
<1>4. CASE ParseEnd
  <2>1. ~Creating'
    BY <1>4 DEF ParseEnd, Creating
  <2> QED BY <1>2, <1>4, <2>1 DEF ParseEnd, histories, checkVars
<1>5. CASE PopJob
  <2>1. background_jobs \in Seq(JobStruct) /\ background_jobs # <<>>
    BY <1>0, <1>5 DEF PopJob, ShellTypes, Shape, Checking
  <2>2. /\ UNCHANGED <<owner, next_job_id>> /\ job' = Head(background_jobs)
        /\ background_jobs' = Tail(background_jobs) /\ ~Creating'
    BY <1>5 DEF PopJob, histories, Creating
  <2>3. \A n \in DOMAIN background_jobs : JobOwned(background_jobs[n])
    BY DEF Owners
  <2>4. JobOwned(Head(background_jobs))
    BY <2>1, <2>3, TailOfJobs
  <2>5. \A n \in DOMAIN Tail(background_jobs) : JobOwned(Tail(background_jobs)[n])
    BY <2>1, <2>3, TailOfJobs
  <2> QED BY <2>2, <2>4, <2>5 DEF Owners, JobOwned
<1>6. CASE CheckPid
  <2>1. /\ job # NoJob /\ job.pids \in Seq(Answers) /\ job.pids # <<>> /\ job'.job_id = job.job_id
        /\ \/ job'.pids = Append(Tail(job.pids), Head(job.pids))
           \/ job'.pids = Tail(job.pids)
        /\ UNCHANGED <<owner, next_job_id, background_jobs>> /\ ~Creating'
    BY <1>0, <1>6, CheckedJob DEF CheckPid, histories, shellVars, Creating, ShellTypes, JobStruct
  <2>2. InHand = job.pids
    BY <1>6 DEF CheckPid, InHand
  <2>3. Elems(job'.pids) \subseteq Elems(job.pids)
    BY <2>1, <2>2, TailElems, RotateElems DEF Account
  <2>4. JobOwned(job)
    BY <2>1 DEF Owners
  <2> QED BY <2>1, <2>3, <2>4 DEF Owners, JobOwned
<1>7. CASE PushJob
  <2>1. /\ job' = NoJob /\ UNCHANGED <<owner, next_job_id>> /\ ~Creating' /\ JobOwned(job)
        /\ background_jobs' \in {background_jobs, Append(background_jobs, job)}
        /\ job \in JobStruct /\ background_jobs \in Seq(JobStruct)
    BY <1>0, <1>7 DEF PushJob, histories, Creating, Owners, ShellTypes
  <2>2. \A n \in DOMAIN background_jobs : JobOwned(background_jobs[n])
    BY DEF Owners
  <2>3. \A n \in DOMAIN background_jobs' : JobOwned(background_jobs'[n])
    BY <2>1, <2>2, MoreJobs
  <2> QED BY <2>1, <2>3 DEF Owners, JobOwned
<1>8. CASE ExitQuash
  BY <1>2, <1>8 DEF ExitQuash, Returns, Creating, histories, checkVars
<1>9. CASE StartJob
  <2>1. /\ pids = <<>> /\ UNCHANGED <<pids, child_pid, owner, next_job_id, background_jobs, job>>
        /\ child_pid = 0
    BY <1>0, <1>9 DEF StartJob, Shape, Control, Creating, histories, checkVars
  <2> QED BY <2>1, EmptyElems DEF Owners, JobOwned, NewChild
<1>10. CASE CreateProcess
  <2> DEFINE p == Least(FreePids)
             o == IF line[1].background THEN next_job_id ELSE 0
  <2>1. p \in Pids /\ status[p] = "unused" /\ FreePids # {}
    BY <1>0, <1>10, ForkAnswers DEF CreateProcess
  <2>2. /\ child_pid' = p /\ owner' = [owner EXCEPT ![p] = o]
        /\ UNCHANGED <<pids, background_jobs, job, next_job_id, line>> /\ pc = "create"
    BY <1>10, <2>1 DEF CreateProcess, checkVars
  <2> HIDE DEF p
  <2>3. p \notin Children /\ InHand = pids /\ job = NoJob
    BY <1>0, <2>1, <2>2 DEF Children, Shape, Control, InHand
  <2>4. \A q \in Children : owner'[q] = owner[q]
    BY <1>0, <2>1, <2>2, <2>3 DEF Children, ProcTypes
  <2>5. ASSUME NEW n \in DOMAIN background_jobs PROVE JobOwned(background_jobs[n])'
    <3>1. Elems(background_jobs[n].pids) \subseteq Children
      BY DEF Account, Members
    <3> QED BY <2>2, <2>4, <3>1 DEF Owners, JobOwned
  <2>6. owner'[p] = o /\ o' = o
    BY <1>0, <2>1, <2>2 DEF ProcTypes
  <2>7. \A q \in Elems(pids) : owner'[q] = o
    <3>1. Elems(pids) \subseteq Children
      BY <2>3 DEF Account
    <3>2. \A q \in Elems(pids) : owner[q] = o
      BY <2>2 DEF Owners, Creating
    <3> QED BY <2>4, <3>1, <3>2
  <2>8. NewChild' \subseteq {p}
    BY <2>2 DEF NewChild
  <2> HIDE DEF o
  <2>9. \A q \in Elems(pids') \cup NewChild' : owner'[q] = o
    BY <2>2, <2>6, <2>7, <2>8
  <2> QED BY <2>2, <2>3, <2>5, <2>6, <2>9 DEF Owners, o
<1>11. CASE CloseEnds
  <2>1. /\ UNCHANGED <<pids, child_pid, line, owner, next_job_id, background_jobs, job>>
        /\ pc = "close" /\ pc' = "command"
    BY <1>11 DEF CloseEnds, histories, checkVars
  <2> QED BY <2>1 DEF Owners, JobOwned, NewChild, Creating
<1>12. CASE RunCommand
  <2>1. /\ pids' = Append(pids, child_pid) /\ child_pid' = 0
        /\ UNCHANGED <<line, owner, next_job_id, background_jobs, job>>
        /\ pc = "command" /\ pc' = "create"
    BY <1>12 DEF RunCommand, histories, checkVars
  <2>2. child_pid \in Answers /\ pids \in Seq(Answers) /\ NewChild = {child_pid} /\ NewChild' = {}
    BY <1>0, <2>1 DEF Shape, Control, ShellTypes, NewChild
  <2>3. Elems(pids') = Elems(pids) \cup {child_pid}
    BY <2>1, <2>2, AppendElems
  <2> QED BY <2>1, <2>2, <2>3 DEF Owners, JobOwned, Creating
<1>13. CASE PushNewJob
  <2> DEFINE j == [job_id |-> next_job_id, pids |-> pids]
  <2>1. /\ background_jobs' = Append(background_jobs, j) /\ next_job_id' = next_job_id + 1
        /\ UNCHANGED <<owner, job>> /\ ~Creating' /\ pc = "create" /\ line[1].background
    BY <1>13 DEF PushNewJob, Returns, histories, checkVars, Creating
  <2>2. /\ j \in JobStruct /\ background_jobs \in Seq(JobStruct) /\ next_job_id \in Nat \ {0}
        /\ job = NoJob
    BY <1>0, <2>1 DEF ShellTypes, JobStruct, Shape, Control
  <2>3. \A b : JobOwned(b) => JobOwned(b)'
    BY <2>1, <2>2 DEF JobOwned
  <2>4. next_job_id \in 1..(next_job_id' - 1)
    BY <2>1, <2>2
  <2>5. \A p \in Elems(j.pids) : owner[p] = next_job_id
    BY <2>1 DEF Owners, Creating
  <2>6. j.job_id = next_job_id
    OBVIOUS
  <2> HIDE DEF j
  <2>7. j.job_id \in 1..(next_job_id' - 1) /\ \A p \in Elems(j.pids) : owner'[p] = j.job_id
    BY <2>1, <2>4, <2>5, <2>6
  <2>8. ASSUME NEW n \in DOMAIN background_jobs'
        PROVE  LET b == background_jobs'[n]
               IN b.job_id \in 1..(next_job_id' - 1) /\ \A p \in Elems(b.pids) : owner'[p] = b.job_id
    <3>1. PICK b : b = background_jobs'[n]
      OBVIOUS
    <3>2. b = j \/ \E m \in DOMAIN background_jobs : b = background_jobs[m]
      BY <2>1, <2>2, <3>1, MoreJobs
    <3>3. b = j \/ JobOwned(b)
      BY <3>2 DEF Owners
    <3> QED BY <2>3, <2>7, <3>1, <3>3 DEF JobOwned
  <2> QED BY <2>1, <2>2, <2>8 DEF Owners, JobOwned
<1>14. CASE StartWaiting
  BY <1>2, <1>14 DEF StartWaiting, Creating, histories, checkVars
<1>15. CASE Wait
  BY <1>2, <1>15 DEF Wait, Creating, histories, checkVars
<1>16. CASE JobOver
  BY <1>2, <1>16 DEF JobOver, Returns, Creating, histories, checkVars
<1>17. ASSUME NEW p \in Pids, Child(p) PROVE Owners'
  BY <1>17, ChildLeavesShell DEF shellVars, checkVars, histories, Owners, JobOwned, Creating, NewChild
<1>18. CASE UNCHANGED vars
  BY <1>18 DEF vars, shellVars, checkVars, histories, Owners, JobOwned, Creating, NewChild
<1> QED BY <1>3, <1>4, <1>5, <1>6, <1>7, <1>8, <1>9, <1>10, <1>11, <1>12, <1>13, <1>14, <1>15, <1>16,
           <1>17, <1>18 DEF Next, Execute

LEMMA AccountInvKept ==
  ASSUME AccountInv, [Next]_vars
  PROVE  AccountInv'
<1>1. fork_failed => fork_failed'
  BY ChildLeavesShell DEF Next, vars, Execute, ParseLine, ParseEnd, PopJob, CheckPid, PushJob, ExitQuash,
     StartJob, CreateProcess, CloseEnds, RunCommand, PushNewJob, StartWaiting, Wait, JobOver, histories
<1>2. EndsInv'
  BY EndsInvKept DEF AccountInv
<1>3. ~fork_failed' => Account' /\ Owners'
  BY <1>1, AccountKept, OwnersKept DEF AccountInv
<1> QED BY <1>2, <1>3 DEF AccountInv

LEMMA AccountInvInit ==
  ASSUME Init
  PROVE  AccountInv
<1>1. InHand = <<>> /\ background_jobs = <<>> /\ NewChild = {} /\ ~Creating /\ job = NoJob
  BY DEF Init, InHand, NewChild, Creating
<1>2. Children = {}
  BY DEF Init, ProcInit, ProcInitWith, Children
<1>3. JobsApart(background_jobs)
  BY <1>1 DEF JobsApart
<1>4. Account
  BY <1>1, <1>2, <1>3, EmptyElems DEF Account
<1>5. Owners
  BY <1>1 DEF Owners
<1> QED BY <1>4, <1>5, EndsInvInit DEF AccountInv

-----------------------------------------------------------------------------
(* Every child is listed once *)

\* A deque of distinct processes is not longer than the process table.
LEMMA DistinctIsShort ==
  ASSUME NEW S, NEW s \in Seq(S), Distinct(s), Elems(s) \subseteq Pids
  PROVE  Len(s) <= MAX_PIDS
<1>1. s \in [1..Len(s) -> Pids] /\ Len(s) \in Nat
  BY DEF Elems
<1>2. s \in Injection(1..Len(s), Pids)
  BY <1>1 DEF Distinct, Injection, IsInjective
<1>3. MAX_PIDS \in Nat /\ MAX_PIDS > 0
  BY LimitsAssumption
<1>4. IsFiniteSet(Pids) /\ Cardinality(Pids) = MAX_PIDS
  BY <1>3, FS_Interval DEF Pids
<1>5. Cardinality(1..Len(s)) = Len(s)
  <2>1. \A n \in Nat : Cardinality(1..n) = n
    BY FS_Interval
  <2> QED BY <1>1, <2>1
<1> QED BY <1>2, <1>4, <1>5, FS_Injection

\* The deques of the shell, one after the other.
Deques == <<pids, job.pids, <<child_pid>>>> \o [n \in DOMAIN background_jobs |-> background_jobs[n].pids]

LEMMA DequesAre ==
  ASSUME ShellTypes
  PROVE  /\ Len(Deques) = Len(background_jobs) + 3
         /\ Deques[1] = pids /\ Deques[2] = job.pids /\ Deques[3] = <<child_pid>>
         /\ \A n \in 1..Len(background_jobs) : Deques[n + 3] = background_jobs[n].pids
         /\ \A n \in 1..Len(Deques) : Deques[n] \in Seq(Answers \cup {0})
<1> DEFINE A == Answers \cup {0}
           s == <<pids, job.pids, <<child_pid>>>>
           t == [n \in DOMAIN background_jobs |-> background_jobs[n].pids]
<1>1. pids \in Seq(A) /\ <<child_pid>> \in Seq(A)
  BY DEF ShellTypes
<1>2. job.pids \in Seq(A)
  <2>1. CASE job \in JobStruct
    BY <2>1 DEF JobStruct
  <2>2. CASE job = NoJob
    <3>1. job.pids = <<>>
      BY <2>2 DEF NoJob
    <3> QED BY <3>1
  <2> QED BY <2>1, <2>2 DEF ShellTypes
<1>3. background_jobs \in Seq(JobStruct) /\ DOMAIN background_jobs = 1..Len(background_jobs)
      /\ Len(background_jobs) \in Nat
  BY DEF ShellTypes
<1>4. ASSUME NEW n \in 1..Len(background_jobs) PROVE background_jobs[n].pids \in Seq(A)
  <2>1. background_jobs[n] \in JobStruct
    BY <1>3, ElementOfSeq
  <2> QED BY <2>1 DEF JobStruct
<1> HIDE DEF A
<1>5. t \in Seq(Seq(A)) /\ Len(t) = Len(background_jobs)
      /\ \A n \in 1..Len(background_jobs) : t[n] = background_jobs[n].pids
  <2>1. t = [n \in 1..Len(background_jobs) |-> background_jobs[n].pids]
    BY <1>3
  <2>2. [n \in 1..Len(background_jobs) |-> background_jobs[n].pids] \in Seq(Seq(A))
    BY <1>3, <1>4, IsASeq
  <2>3. DOMAIN t = 1..Len(background_jobs)
    BY <2>1
  <2>4. Len(t) = Len(background_jobs)
    BY <1>3, <2>1, <2>2, <2>3
  <2> QED BY <2>1, <2>2, <2>4
<1>6. s \in Seq(Seq(A)) /\ Len(s) = 3 /\ s[1] = pids /\ s[2] = job.pids /\ s[3] = <<child_pid>>
  BY <1>1, <1>2
<1> HIDE DEF s, t
<1>7. /\ s \o t \in Seq(Seq(A)) /\ Len(s \o t) = 3 + Len(background_jobs)
      /\ \A n \in 1..(3 + Len(background_jobs)) : (s \o t)[n] = IF n <= 3 THEN s[n] ELSE t[n - 3]
  <2> DEFINE B == Seq(A)
  <2>1. s \in Seq(B) /\ t \in Seq(B)
    BY <1>5, <1>6
  <2> HIDE DEF B
  <2>2. /\ s \o t \in Seq(B) /\ Len(s \o t) = Len(s) + Len(t)
        /\ \A n \in 1..(Len(s) + Len(t)) : (s \o t)[n] = IF n <= Len(s) THEN s[n] ELSE t[n - Len(s)]
    BY <2>1, ConcatProperties, Zenon
  <2>3. \A n \in 1..(3 + Len(background_jobs)) : (s \o t)[n] = IF n <= 3 THEN s[n] ELSE t[n - 3]
    BY <1>5, <1>6, <2>2
  <2>4. s \o t \in Seq(Seq(A))
    BY <2>2 DEF B
  <2> QED BY <1>3, <1>5, <1>6, <2>2, <2>3, <2>4
<1>8. Deques = s \o t
  BY DEF Deques, s, t
<1>9. \A n \in 1..Len(background_jobs) : Deques[n + 3] = background_jobs[n].pids
  <2> TAKE n \in 1..Len(background_jobs)
  <2>1. n + 3 \in 1..(3 + Len(background_jobs)) /\ ~(n + 3 <= 3) /\ (n + 3) - 3 = n
    BY <1>3
  <2> QED BY <1>5, <1>7, <1>8, <2>1
<1>10. Deques[1] = pids /\ Deques[2] = job.pids /\ Deques[3] = <<child_pid>>
  <2>1. \A n \in {1, 2, 3} : n \in 1..(3 + Len(background_jobs)) /\ n <= 3
    BY <1>3
  <2>2. \A n \in {1, 2, 3} : (s \o t)[n] = s[n]
    BY <1>7, <2>1
  <2> QED BY <1>6, <1>8, <2>2
<1>11. \A n \in 1..Len(Deques) : Deques[n] \in Seq(Answers \cup {0})
  BY <1>7, <1>8, ElementOfSeq DEF A
<1>12. Len(Deques) = Len(background_jobs) + 3
  BY <1>3, <1>7, <1>8
<1> QED BY <1>9, <1>10, <1>11, <1>12

\* The deques keep the account: each child is in one of them, and they have
\* no process in common.
LEMMA DequesKeepAccount ==
  ASSUME EndsInv, Account
  PROVE  /\ \A n \in 1..Len(Deques) : Distinct(Deques[n]) /\ Elems(Deques[n]) \subseteq Children \cup {0}
                                      /\ Len(Deques[n]) <= MAX_PIDS
         /\ \A n \in 1..Len(Deques), m \in 1..Len(Deques) :
              n # m => Elems(Deques[n]) \cap Elems(Deques[m]) \subseteq {0}
         /\ \A p \in Children : \E n \in 1..Len(Deques) : p \in Elems(Deques[n])
<1>0. ShellTypes /\ Shape
  BY DEF EndsInv, Shape
<1> DEFINE J == 1..Len(background_jobs)
<1>1. background_jobs \in Seq(JobStruct) /\ DOMAIN background_jobs = J /\ Len(background_jobs) \in Nat
  BY <1>0 DEF ShellTypes
<1>2. \/ InHand = pids /\ job.pids = <<>>
      \/ InHand = job.pids /\ pids = <<>>
  BY <1>0 DEF InHand, Shape, Control, Creating, NoJob
<1>3. Elems(pids) \cap Elems(job.pids) = {} /\ Elems(InHand) = Elems(pids) \cup Elems(job.pids)
      /\ Distinct(pids) /\ Distinct(job.pids)
  BY <1>2, EmptyElems DEF Account
<1>4. Elems(<<child_pid>>) = {child_pid} /\ Distinct(<<child_pid>>) /\ Len(<<child_pid>>) = 1
  BY DEF Elems, Distinct
<1>5. ASSUME NEW n \in J
      PROVE  /\ Elems(background_jobs[n].pids) \subseteq Members(background_jobs)
             /\ Distinct(background_jobs[n].pids)
             /\ \A m \in J : m # n => Elems(background_jobs[m].pids) \cap Elems(background_jobs[n].pids) = {}
  BY <1>1 DEF Account, JobsApart, Members
<1>6. \A n \in 1..Len(Deques) : n \in {1, 2, 3} \/ (n - 3 \in J /\ Deques[n] = background_jobs[n - 3].pids)
  <2> TAKE n \in 1..Len(Deques)
  <2>1. n \in 1..(Len(background_jobs) + 3)
    BY <1>0, DequesAre
  <2>2. n \in {1, 2, 3} \/ (n - 3 \in J /\ (n - 3) + 3 = n)
    BY <1>1, <2>1
  <2> QED BY <1>0, <2>2, DequesAre
<1>7. /\ 1 \in 1..Len(Deques) /\ 2 \in 1..Len(Deques) /\ 3 \in 1..Len(Deques)
      /\ \A n \in J : n + 3 \in 1..Len(Deques) /\ Deques[n + 3] = background_jobs[n].pids
  BY <1>0, <1>1, DequesAre
<1> HIDE DEF J
<1>8. /\ Elems(InHand) \subseteq Children /\ Members(background_jobs) \subseteq Children
      /\ child_pid = 0 \/ child_pid \in Children
      /\ Children = Elems(pids) \cup Elems(job.pids) \cup NewChild \cup Members(background_jobs)
      /\ Elems(InHand) \cap Members(background_jobs) = {}
      /\ child_pid = 0 \/ child_pid \notin Elems(InHand) \cup Members(background_jobs)
  BY <1>3 DEF Account, NewChild
<1>9. /\ Deques[1] = pids /\ Deques[2] = job.pids /\ Deques[3] = <<child_pid>>
      /\ \A n \in 1..Len(Deques) : Deques[n] \in Seq(Answers \cup {0})
  BY <1>0, DequesAre
<1>10. ASSUME NEW n \in 1..Len(Deques)
       PROVE  Distinct(Deques[n]) /\ Elems(Deques[n]) \subseteq Children \cup {0} /\ Len(Deques[n]) <= MAX_PIDS
  <2>1. Distinct(Deques[n])
    BY <1>3, <1>4, <1>5, <1>6, <1>9
  <2>2. Elems(Deques[n]) \subseteq Children \cup {0} /\ (n # 3 => Elems(Deques[n]) \subseteq Children)
    BY <1>3, <1>4, <1>5, <1>6, <1>8, <1>9
  <2>3. n # 3 => Elems(Deques[n]) \subseteq Pids
    BY <2>2 DEF Children
  <2>4. n = 3 => Len(Deques[n]) = 1
    BY <1>4, <1>9
  <2>5. n # 3 => Len(Deques[n]) <= MAX_PIDS
    BY <1>9, <2>1, <2>3, DistinctIsShort
  <2>6. MAX_PIDS \in Nat \ {0}
    BY LimitsAssumption
  <2> QED BY <2>1, <2>2, <2>4, <2>5, <2>6
<1>11. ASSUME NEW n \in 1..Len(Deques), NEW m \in 1..Len(Deques), n # m
       PROVE  Elems(Deques[n]) \cap Elems(Deques[m]) \subseteq {0}
  <2>1. ASSUME NEW k \in 1..Len(Deques), k \notin {1, 2, 3}
        PROVE  /\ Elems(Deques[k]) \subseteq Members(background_jobs)
               /\ \A l \in 1..Len(Deques) :
                    l \notin {1, 2, 3} /\ l # k => Elems(Deques[k]) \cap Elems(Deques[l]) = {}
    <3>1. \A l \in 1..Len(Deques) : l \in Int
      OBVIOUS
    <3>2. \A l \in 1..Len(Deques) : l # k => l - 3 # k - 3
      BY <3>1
    <3>3. k - 3 \in J /\ Deques[k] = background_jobs[k - 3].pids
      BY <1>6, <2>1
    <3> QED BY <1>5, <1>6, <3>2, <3>3
  <2>2. CASE n \in {1, 2, 3} /\ m \in {1, 2, 3}
    BY <1>3, <1>4, <1>8, <1>9, <1>11, <2>2
  <2>3. CASE n \in {1, 2, 3} /\ m \notin {1, 2, 3}
    BY <1>3, <1>4, <1>8, <1>9, <2>1, <2>3
  <2>4. CASE n \notin {1, 2, 3} /\ m \in {1, 2, 3}
    BY <1>3, <1>4, <1>8, <1>9, <2>1, <2>4
  <2>5. CASE n \notin {1, 2, 3} /\ m \notin {1, 2, 3}
    BY <1>11, <2>1, <2>5
  <2> QED BY <2>2, <2>3, <2>4, <2>5
<1>12. ASSUME NEW p \in Children PROVE \E n \in 1..Len(Deques) : p \in Elems(Deques[n])
  <2>1. CASE p \in Elems(pids) \cup Elems(job.pids) \cup NewChild
    BY <1>4, <1>7, <1>9, <2>1 DEF NewChild
  <2>2. CASE p \in Members(background_jobs)
    <3>1. PICK n \in J : p \in Elems(background_jobs[n].pids)
      BY <1>1, <2>2 DEF Members
    <3> QED BY <1>7, <3>1
  <2> QED BY <1>8, <2>1, <2>2
<1> QED BY <1>10, <1>11, <1>12

\* Listed counts the places of p in the deques.
LEMMA ListedCounts ==
  ASSUME EndsInv, Account, NEW p \in Pids
  PROVE  Listed(p) = IF status[p] = "unused" THEN 0 ELSE 1
<1> DEFINE D == Deques
           Places == {e \in (1..Len(D)) \X (1..MAX_PIDS) : e[2] \in DOMAIN D[e[1]] /\ D[e[1]][e[2]] = p}
<1>1. Listed(p) = Cardinality(Places)
  BY DEF Listed, Deques
<1>2. /\ \A n \in 1..Len(D) : Distinct(D[n]) /\ Elems(D[n]) \subseteq Children \cup {0} /\ Len(D[n]) <= MAX_PIDS
      /\ \A n \in 1..Len(D), m \in 1..Len(D) : n # m => Elems(D[n]) \cap Elems(D[m]) \subseteq {0}
      /\ \A q \in Children : \E n \in 1..Len(D) : q \in Elems(D[n])
  BY DequesKeepAccount
<1>3. \A n \in 1..Len(D) : DOMAIN D[n] = 1..Len(D[n]) /\ Len(D[n]) \in Nat
  <2>1. \A n \in 1..Len(D) : D[n] \in Seq(Answers \cup {0})
    BY DequesAre DEF EndsInv, Shape
  <2> QED BY <2>1
<1>4. p # 0 /\ (p \in Children <=> status[p] # "unused")
  BY DEF Pids, Children
<1> HIDE DEF D
<1>5. CASE p \notin Children
  <2>1. ASSUME NEW e \in Places PROVE FALSE
    <3>1. e[1] \in 1..Len(D) /\ e[2] \in DOMAIN D[e[1]] /\ D[e[1]][e[2]] = p
      OBVIOUS
    <3>2. p \in Elems(D[e[1]])
      BY <3>1 DEF Elems
    <3> QED BY <1>2, <1>4, <1>5, <3>1, <3>2
  <2>2. Places = {}
    BY <2>1
  <2> HIDE DEF Places
  <2> QED BY <1>1, <1>4, <1>5, <2>2, FS_EmptySet
<1>6. CASE p \in Children
  <2>1. PICK n \in 1..Len(D) : p \in Elems(D[n])
    BY <1>2, <1>6
  <2>2. PICK k \in DOMAIN D[n] : D[n][k] = p
    BY <2>1 DEF Elems
  <2>3. k \in 1..MAX_PIDS
    <3>1. k \in 1..Len(D[n]) /\ Len(D[n]) \in Nat /\ Len(D[n]) <= MAX_PIDS /\ MAX_PIDS \in Nat
      BY <1>2, <1>3, <2>2, LimitsAssumption
    <3> QED BY <3>1
  <2>4. <<n, k>> \in Places
    BY <2>2, <2>3
  <2>5. ASSUME NEW e \in Places PROVE e = <<n, k>>
    <3>1. e = <<e[1], e[2]>> /\ e[1] \in 1..Len(D) /\ e[2] \in DOMAIN D[e[1]] /\ D[e[1]][e[2]] = p
      OBVIOUS
    <3>2. p \in Elems(D[e[1]])
      BY <3>1 DEF Elems
    <3>3. e[1] = n
      <4> SUFFICES ASSUME e[1] # n PROVE FALSE
        OBVIOUS
      <4>1. Elems(D[n]) \cap Elems(D[e[1]]) \subseteq {0}
        BY <1>2, <2>1, <3>1, Zenon
      <4> QED BY <1>4, <2>1, <3>2, <4>1
    <3>4. e[2] = k
      BY <1>2, <2>2, <3>1, <3>3 DEF Distinct
    <3> QED BY <3>1, <3>3, <3>4
  <2>6. Places = {<<n, k>>}
    BY <2>4, <2>5
  <2> HIDE DEF Places
  <2> QED BY <1>1, <1>4, <1>6, <2>6, FS_Singleton
<1> QED BY <1>5, <1>6

\* check_jobs_bg_status, run_script: whatever the lines and however the children
\* end between the calls of waitpid, the shell has each of them in one deque,
\* once, until it has waited for it, and no number of a process that is gone.
THEOREM ChildrenAccounted == Spec => []ChildrenListedOnce
<1>1. AccountInv => ChildrenListedOnce
  <2> SUFFICES ASSUME AccountInv, ~fork_failed PROVE ChildrenListedOnce
    BY DEF ChildrenListedOnce
  <2>1. EndsInv /\ Account /\ Owners
    BY DEF AccountInv
  <2>2. \A p \in Pids : Listed(p) = IF status[p] = "unused" THEN 0 ELSE 1
    BY <2>1, ListedCounts
  <2>3. ASSUME NEW n \in DOMAIN background_jobs
        PROVE  /\ background_jobs[n].pids # <<>>
               /\ \A k \in DOMAIN background_jobs[n].pids :
                    owner[background_jobs[n].pids[k]] = background_jobs[n].job_id
    BY <2>1 DEF Account, JobsApart, Owners, JobOwned, Elems
  <2> QED BY <2>2, <2>3 DEF ChildrenListedOnce
<1> QED BY AccountInvInit, AccountInvKept, <1>1, PTL DEF Spec

-----------------------------------------------------------------------------
(* kill *)

\* While a kill is run, the processes of a job that has been started are those
\* that its number signals.
LEMMA SignalledAreOwned ==
  ASSUME EndsInv, Account, Owners, pc = "command", NEW id \in 1..(next_job_id - 1),
         NEW p \in Pids, status[p] = "running"
  PROVE  p \in Signalled(id) <=> owner[p] = id
<1>0. next_job_id \in Nat \ {0} /\ InHand = pids /\ Creating /\ p # AnyPid
  BY DEF EndsInv, Shape, ShellTypes, InHand, Creating, Pids, AnyPid
<1>1. ASSUME p \in Signalled(id) PROVE owner[p] = id
  <2>0. PICK n \in DOMAIN background_jobs :
           /\ background_jobs[n].job_id = id
           /\ \E k \in DOMAIN background_jobs[n].pids : p \in Reached(background_jobs[n].pids[k])
    BY <1>1 DEF Signalled
  <2>1. PICK k \in DOMAIN background_jobs[n].pids : p \in Reached(background_jobs[n].pids[k])
    BY <2>0
  <2>2. background_jobs[n].pids[k] \in Elems(background_jobs[n].pids)
    BY DEF Elems
  <2>3. background_jobs[n].pids[k] \in Pids
    BY <2>2 DEF Account, JobsApart
  <2>4. p = background_jobs[n].pids[k]
    BY <2>1, <2>3 DEF Reached, Pids, AnyPid
  <2> QED BY <2>0, <2>2, <2>4 DEF Owners, JobOwned
<1>2. ASSUME owner[p] = id PROVE p \in Signalled(id)
  <2>1. p \in Elems(pids) \cup NewChild \cup Members(background_jobs)
    BY <1>0 DEF Children, Account
  <2>2. p \notin Elems(pids) \cup NewChild
    BY <1>0, <1>2 DEF Owners
  <2>3. PICK n \in DOMAIN background_jobs : p \in Elems(background_jobs[n].pids)
    BY <2>1, <2>2 DEF Members
  <2>4. background_jobs[n].job_id = id
    BY <1>2, <2>3 DEF Owners, JobOwned
  <2>5. PICK k \in DOMAIN background_jobs[n].pids : background_jobs[n].pids[k] = p
    BY <2>3 DEF Elems
  <2> QED BY <2>4, <2>5 DEF Signalled, Reached
<1> QED BY <1>1, <1>2

\* run_kill: all processes of the job and no others, however many have ended and
\* whatever has been started since.
THEOREM KillReaches == Spec => KillReachesTheJob
<1> DEFINE A == (/\ ~fork_failed
                 /\ pc = "command" /\ pc' # pc
                 /\ holder.name = "kill" /\ holder.job \in 1..(next_job_id - 1))
                => Killed = {p \in Pids : status[p] = "running" /\ owner[p] = holder.job}
<1>1. ASSUME AccountInv, [Next]_vars PROVE A
  <2> SUFFICES ASSUME ~fork_failed, pc = "command", pc' # pc,
                      holder.name = "kill", holder.job \in 1..(next_job_id - 1)
               PROVE  Killed = {p \in Pids : status[p] = "running" /\ owner[p] = holder.job}
    OBVIOUS
  <2>1. EndsInv /\ Account /\ Owners
    BY <1>1 DEF AccountInv
  <2>2. RunCommand
    BY <1>1, ChildLeavesShell DEF Next, vars, shellVars, Execute, ParseLine, ParseEnd, PopJob, CheckPid, PushJob,
       ExitQuash, StartJob, CreateProcess, CloseEnds, PushNewJob, StartWaiting, Wait, JobOver
  <2>3. status' = [p \in Pids |-> IF p \in Signalled(holder.job) THEN "zombie" ELSE status[p]]
    BY <2>2 DEF RunCommand, End
  <2>4. \A p \in Pids : status[p] = "running" =>
          (p \in Signalled(holder.job) <=> owner[p] = holder.job)
    <3>1. \A id \in 1..(next_job_id - 1), p \in Pids :
            status[p] = "running" => (p \in Signalled(id) <=> owner[p] = id)
      BY <2>1, SignalledAreOwned
    <3> QED BY <3>1
  <2> QED BY <2>3, <2>4 DEF Killed
<1> QED BY <1>1, AccountInvInit, AccountInvKept, PTL DEF Spec, KillReachesTheJob

-----------------------------------------------------------------------------
(* Pipelines *)

\* What standard input and output are, or will be once the child is set up.
StdIn(p) == IF at[p] # "forked" THEN input[p]
            ELSE IF program[p].p_in THEN ReadEnd(Previous(p)) ELSE Terminal
StdOut(p) == IF at[p] # "forked" THEN output[p]
             ELSE IF program[p].p_out THEN WriteEnd(Current(p)) ELSE Terminal

\* The pipe whose read end the shell has open for the command after the current
\* one, and the process that writes to it.
HasNextPipe == \/ pc = "create" /\ i > 1 /\ i <= Len(line)
               \/ pc \in {"close", "command"} /\ i < Len(line)
NextPipe == IF pc = "close" THEN Current(Shell) ELSE Previous(Shell)
LastChild == IF pc = "create" THEN pids[i - 1] ELSE child_pid

\* A pipe has at most one process at either end, and nobody reads yet from the
\* one for the next command.
OneAtEachEnd ==
  /\ \A p, q \in Pids : StdIn(p) = StdIn(q) /\ StdIn(p) \in Ends => p = q
  /\ \A p, q \in Pids : StdOut(p) = StdOut(q) /\ StdOut(p) \in Ends => p = q
  /\ HasNextPipe => \A p \in Pids : StdIn(p) # ReadEnd(NextPipe)

Runs(p) == p \in Pids /\ status[p] = "running"
Joined(p, q) == Runs(p) /\ Runs(q) => \E x \in Pipes : StdOut(p) = WriteEnd(x) /\ StdIn(q) = ReadEnd(x)

\* Neighbours are joined, and the last process so far writes to the pipe for the
\* next command.
Chain ==
  /\ \A k \in 1..(Len(pids) - 1) : Joined(pids[k], pids[k + 1])
  /\ pc \in {"close", "command"} /\ i > 1 => Joined(pids[i - 1], child_pid)
  /\ HasNextPipe /\ Runs(LastChild) => StdOut(LastChild) = WriteEnd(NextPipe)

\* No process of a pipeline is waited for while it is made.
NoneReaped ==
  Creating => /\ \A k \in DOMAIN pids : pids[k] \in Pids => status[pids[k]] # "unused"
              /\ child_pid \in Pids => status[child_pid] # "unused"

PipelineInv == EndsInv /\ OneAtEachEnd /\ Chain /\ NoneReaped

LEMMA StreamsAreOpen ==
  ASSUME EndsInv, NEW p \in Pids
  PROVE  /\ StdIn(p) \in Ends => IsOpen(StdIn(p))
         /\ StdOut(p) \in Ends => IsOpen(StdOut(p))
         /\ StdIn(p) \in ReadEnds \cup {Terminal, File}
         /\ StdOut(p) \in WriteEnds \cup {Terminal, File}
<1>1. HasItsEnds(p) /\ p \in Memories /\ ProcTypes
  BY MemoriesAre DEF EndsInv
<1>2. CASE at[p] # "forked"
  <2>1. StdIn(p) = input[p] /\ StdOut(p) = output[p]
    BY <1>2 DEF StdIn, StdOut
  <2> QED BY <1>1, <2>1 DEF IsOpen, ProcTypes
<1>3. CASE at[p] = "forked"
  <2>1. others[p] = Inherited(p) /\ others[p] \subseteq Ends
    BY <1>1, <1>3 DEF HasItsEnds, ProcTypes
  <2>2. StdIn(p) \in Inherited(p) \cup {Terminal} /\ StdOut(p) \in Inherited(p) \cup {Terminal}
    BY <1>3 DEF StdIn, StdOut, Inherited
  <2>3. p \in Pids \cup {Shell} /\ Terminal \notin Ends
    BY EndsDiffer
  <2>4. (StdIn(p) \in Ends => IsOpen(StdIn(p))) /\ (StdOut(p) \in Ends => IsOpen(StdOut(p)))
    BY <2>1, <2>2, <2>3 DEF IsOpen
  <2>5. /\ program[p].p_in => Previous(p) \in Pipes
        /\ program[p].p_out => Current(p) \in Pipes
    BY <2>1, EndsDiffer DEF Inherited
  <2>6. StdIn(p) \in ReadEnds \cup {Terminal, File} /\ StdOut(p) \in WriteEnds \cup {Terminal, File}
    BY <1>3, <2>5, EndsDiffer DEF StdIn, StdOut
  <2> QED BY <2>4, <2>6
<1> QED BY <1>2, <1>3

\* A step in which nobody is forked connects nobody, and takes no pipe from a
\* process that goes on.
StreamsKept(p) ==
  /\ StdIn(p)' \in Ends => StdIn(p)' = StdIn(p)
  /\ StdOut(p)' \in Ends => StdOut(p)' = StdOut(p)
  /\ status'[p] = "running" => /\ status[p] = "running"
                               /\ StdIn(p) \in Ends => StdIn(p)' = StdIn(p)
                               /\ StdOut(p) \in Ends => StdOut(p)' = StdOut(p)

LEMMA StepKeepsStreams ==
  ASSUME EndsInv, [Next]_vars, FreePids = {} \/ ~CreateProcess, NEW p \in Pids
  PROVE  StreamsKept(p)
<1>0. HasItsEnds(p) /\ p \in Memories /\ ProcTypes /\ RunningIsAt
  BY MemoriesAre DEF EndsInv
<1>1. ASSUME /\ UNCHANGED <<input[p], output[p], program[p], pipes[p], pipe_index[p]>>
             /\ at'[p] = at[p] \/ "forked" \notin {at[p], at'[p]}
             /\ status'[p] = "running" => status[p] = "running"
      PROVE  StreamsKept(p)
  BY <1>1 DEF StreamsKept, StdIn, StdOut, Previous, Current
<1>2. CASE OfShell
  BY <1>1, <1>2 DEF OfShell
<1>3. ASSUME NEW S, Ended(S) PROVE StreamsKept(p)
  <2>1. CASE p \notin S
    BY <1>1, <1>3, <2>1 DEF Ended, End
  <2>2. CASE p \in S
    <3>1. at'[p] = "nowhere" /\ input'[p] = Terminal /\ output'[p] = Terminal /\ status'[p] = "zombie"
      BY <1>3, <2>2 DEF Ended, End
    <3> QED BY <3>1, EndsDiffer DEF StreamsKept, StdIn, StdOut
  <2> QED BY <2>1, <2>2
<1>4. ASSUME NEW r, Reaped(r) PROVE StreamsKept(p)
  <2>1. CASE p # r
    BY <1>0, <1>1, <1>4, <2>1 DEF Reaped, Reap, ProcTypes
  <2>2. CASE p = r
    <3>1. at[p] = "nowhere" /\ UNCHANGED <<at, input, output>> /\ status'[p] # "running"
      BY <1>0, <1>4, <2>2 DEF Reaped, Reap, RunningIsAt, ProcTypes
    <3> QED BY <3>1 DEF StreamsKept, StdIn, StdOut
  <2> QED BY <2>1, <2>2
<1>5. ASSUME NEW m, Moved(m) PROVE StreamsKept(p)
  BY <1>0, <1>1, <1>5 DEF Moved, ProcTypes
<1>6. ASSUME NEW s \in Pids, SetUp(s) PROVE StreamsKept(p)
  <2>1. CASE p # s
    <3>1. UNCHANGED <<input[p], output[p], program[p], pipes[p], pipe_index[p], at[p], status[p]>>
      BY <1>0, <1>6, <2>1 DEF SetUp, ProcTypes
    <3> QED BY <1>1, <3>1
  <2>2. CASE p = s
    <3>1. /\ at[p] = "forked" /\ at'[p] # "forked" /\ UNCHANGED status
          /\ input'[p] = IF program[p].r_in THEN File
                         ELSE IF program[p].p_in THEN ReadEnd(Previous(p)) ELSE Terminal
          /\ output'[p] = IF program[p].r_out THEN File
                          ELSE IF program[p].p_out THEN WriteEnd(Current(p)) ELSE Terminal
      BY <1>0, <1>6, <2>2 DEF SetUp, StartOf, ProcTypes, HasItsEnds
    <3>2. (program[p].p_in => ~program[p].r_in) /\ (program[p].p_out => ~program[p].r_out)
      BY <1>0, <3>1 DEF HasItsEnds
    <3> QED BY <3>1, <3>2, EndsDiffer DEF StreamsKept, StdIn, StdOut
  <2> QED BY <2>1, <2>2
<1> QED BY <1>2, <1>3, <1>4, <1>5, <1>6, StepOfChildren

\* What such a step keeps.
LEMMA JoinedKept ==
  ASSUME NEW p, NEW q, Joined(p, q), \A r \in Pids : StreamsKept(r)
  PROVE  Joined(p, q)'
BY EndsDiffer DEF Joined, Runs, StreamsKept

LEMMA EndsStayApart ==
  ASSUME OneAtEachEnd, \A r \in Pids : StreamsKept(r)
  PROVE  /\ (\A p, q \in Pids : StdIn(p) = StdIn(q) /\ StdIn(p) \in Ends => p = q)'
         /\ (\A p, q \in Pids : StdOut(p) = StdOut(q) /\ StdOut(p) \in Ends => p = q)'
BY DEF OneAtEachEnd, StreamsKept

\* What fork does to standard input and output: those of the child are taken from
\* what the shell has open, and nobody else's change.
LEMMA ForkJoins ==
  ASSUME EndsInv, CreateProcess, FreePids # {}
  PROVE  \E c \in Pids :
           /\ child_pid' = c /\ status[c] = "unused"
           /\ \A p \in Pids \ {c} : /\ StdIn(p)' = StdIn(p) /\ StdOut(p)' = StdOut(p)
                                    /\ status'[p] = status[p]
           /\ status'[c] = "running"
           /\ StdIn(c)' = IF i > 1 THEN ReadEnd(Previous(Shell)) ELSE Terminal
           /\ StdOut(c)' = IF i < Len(line) THEN WriteEnd(Least(FreePipes)) ELSE Terminal
           /\ pc = "create" /\ pc' = "close" /\ UNCHANGED <<pids, i, line>> /\ i <= Len(line)
           /\ Previous(Shell)' = Previous(Shell)
           /\ i < Len(line) => Current(Shell)' = Least(FreePipes)
<1>0. PICK c : c = Least(FreePids)
  OBVIOUS
<1>1. c \in Pids /\ status[c] = "unused" /\ c \in Memories /\ c # Shell /\ Shell \in Memories
  BY <1>0, ForkAnswers, MemoriesAre DEF Memories
<1>2. /\ pc = "create" /\ i <= Len(line) /\ pc' = "close" /\ UNCHANGED <<pids, i, line>>
      /\ child_pid' = c
      /\ pipes' = [pipes EXCEPT ![Shell] = ShellPipes, ![c] = ShellPipes]
      /\ pipe_index' = [pipe_index EXCEPT ![c] = pipe_index[Shell]]
      /\ status' = [status EXCEPT ![c] = "running"]
      /\ program' = [program EXCEPT ![c] = holder]
      /\ at' = [at EXCEPT ![c] = "forked"]
      /\ UNCHANGED <<input, output>>
  BY <1>0 DEF CreateProcess, ShellPipes, ShellEnds
<1>3. /\ ShellPipes[1 - pipe_index[Shell]] = Previous(Shell)
      /\ holder.p_out => ShellPipes[pipe_index[Shell]] = Least(FreePipes)
  BY <1>2, PipeMade
<1>4. (holder.p_in <=> i > 1) /\ (holder.p_out <=> i < Len(line))
  BY <1>2, HolderParsed DEF EndsInv
<1>5. ProcTypes
  BY DEF EndsInv
<1>6. ASSUME NEW p \in Pids \ {c}
      PROVE  StdIn(p)' = StdIn(p) /\ StdOut(p)' = StdOut(p) /\ status'[p] = status[p]
  <2>1. /\ at'[p] = at[p] /\ program'[p] = program[p] /\ pipes'[p] = pipes[p]
        /\ pipe_index'[p] = pipe_index[p] /\ status'[p] = status[p]
    BY <1>1, <1>2, <1>5, MemoriesAre DEF ProcTypes
  <2> QED BY <1>2, <2>1 DEF StdIn, StdOut, Previous, Current
<1>7. /\ at'[c] = "forked" /\ program'[c] = holder /\ pipes'[c] = ShellPipes
      /\ pipe_index'[c] = pipe_index[Shell] /\ status'[c] = "running"
  BY <1>1, <1>2, <1>5 DEF ProcTypes
<1>8. /\ StdIn(c)' = IF i > 1 THEN ReadEnd(Previous(Shell)) ELSE Terminal
      /\ StdOut(c)' = IF i < Len(line) THEN WriteEnd(Least(FreePipes)) ELSE Terminal
  BY <1>3, <1>4, <1>7 DEF StdIn, StdOut, Previous, Current
<1>9. pipes'[Shell] = ShellPipes /\ pipe_index'[Shell] = pipe_index[Shell]
  BY <1>1, <1>2, <1>5 DEF ProcTypes
<1>10. Previous(Shell)' = Previous(Shell) /\ (i < Len(line) => Current(Shell)' = Least(FreePipes))
  BY <1>3, <1>4, <1>9 DEF Previous, Current
<1> QED BY <1>1, <1>2, <1>6, <1>7, <1>8, <1>10

LEMMA PipelineKeptByFork ==
  ASSUME PipelineInv, CreateProcess, FreePids # {}, EndsInv'
  PROVE  PipelineInv'
<1> DEFINE k == Least(FreePipes)
<1>0. EndsInv /\ OneAtEachEnd /\ Chain /\ NoneReaped /\ Shape
  BY DEF PipelineInv, EndsInv
<1>2. PICK c \in Pids :
      /\ child_pid' = c /\ status[c] = "unused"
      /\ \A p \in Pids \ {c} : /\ StdIn(p)' = StdIn(p) /\ StdOut(p)' = StdOut(p)
                               /\ status'[p] = status[p]
      /\ status'[c] = "running"
      /\ StdIn(c)' = IF i > 1 THEN ReadEnd(Previous(Shell)) ELSE Terminal
      /\ StdOut(c)' = IF i < Len(line) THEN WriteEnd(k) ELSE Terminal
      /\ pc = "create" /\ pc' = "close" /\ UNCHANGED <<pids, i, line>> /\ i <= Len(line)
      /\ Previous(Shell)' = Previous(Shell)
      /\ i < Len(line) => Current(Shell)' = k
  BY <1>0, ForkJoins
<1>3. k \in Pipes /\ ~IsOpen(ReadEnd(k)) /\ ~IsOpen(WriteEnd(k))
  BY <1>0, <1>2, NewPipeIsNew
<1> HIDE DEF k
<1>4. i > 1 => /\ HasNextPipe /\ NextPipe = Previous(Shell) /\ LastChild = pids[i - 1]
               /\ Previous(Shell) \in Pipes /\ Previous(Shell) # k
  <2> SUFFICES ASSUME i > 1 PROVE /\ HasNextPipe /\ NextPipe = Previous(Shell) /\ LastChild = pids[i - 1]
                                  /\ Previous(Shell) \in Pipes /\ Previous(Shell) # k
    OBVIOUS
  <2>1. ReadEnd(Previous(Shell)) \in others[Shell] /\ others[Shell] \subseteq Ends
    BY <1>0, <1>2 DEF EndsInv, ShellHasItsEnds, Pending, ProcTypes, Memories
  <2>2. Previous(Shell) \in Pipes
    BY <2>1, EndsDiffer
  <2>3. Previous(Shell) # k
    BY <1>3, <2>1 DEF IsOpen
  <2> QED BY <1>2, <2>2, <2>3 DEF HasNextPipe, NextPipe, LastChild
<1>5. ASSUME NEW p \in Pids \ {c}
      PROVE  /\ StdIn(p) \notin {ReadEnd(k)} /\ (i > 1 => StdIn(p) # ReadEnd(Previous(Shell)))
             /\ StdOut(p) # WriteEnd(k)
  <2>1. StdIn(p) # ReadEnd(k) /\ StdOut(p) # WriteEnd(k)
    BY <1>0, <1>3, StreamsAreOpen, EndsDiffer
  <2>2. i > 1 => StdIn(p) # ReadEnd(Previous(Shell))
    BY <1>0, <1>4 DEF OneAtEachEnd
  <2> QED BY <2>1, <2>2
<1>6. OneAtEachEnd'
  <2>1. ASSUME NEW p \in Pids, NEW q \in Pids, StdIn(p)' = StdIn(q)', StdIn(p)' \in Ends PROVE p = q
    <3>1. CASE p # c /\ q # c
      BY <1>0, <1>2, <2>1, <3>1 DEF OneAtEachEnd
    <3>2. CASE p = c /\ q # c
      BY <1>2, <1>5, <2>1, <3>2, EndsDiffer
    <3>3. CASE p # c /\ q = c
      BY <1>2, <1>5, <2>1, <3>3, EndsDiffer
    <3> QED BY <3>1, <3>2, <3>3
  <2>2. ASSUME NEW p \in Pids, NEW q \in Pids, StdOut(p)' = StdOut(q)', StdOut(p)' \in Ends PROVE p = q
    <3>1. CASE p # c /\ q # c
      BY <1>0, <1>2, <2>2, <3>1 DEF OneAtEachEnd
    <3>2. CASE p = c /\ q # c
      BY <1>2, <1>5, <2>2, <3>2, EndsDiffer
    <3>3. CASE p # c /\ q = c
      BY <1>2, <1>5, <2>2, <3>3, EndsDiffer
    <3> QED BY <3>1, <3>2, <3>3
  <2>3. HasNextPipe' => i < Len(line) /\ NextPipe' = k
    BY <1>2 DEF HasNextPipe, NextPipe
  <2>4. ASSUME NEW p \in Pids PROVE StdIn(p)' # ReadEnd(k)
    <3>1. CASE p # c
      BY <1>2, <1>5, <3>1
    <3>2. CASE p = c
      BY <1>2, <1>4, <3>2, EndsDiffer
    <3> QED BY <3>1, <3>2
  <2>5. HasNextPipe' => \A p \in Pids : StdIn(p)' # ReadEnd(NextPipe')
    BY <2>3, <2>4
  <2> QED BY <2>1, <2>2, <2>5 DEF OneAtEachEnd
<1>7. /\ pids \in Seq(Answers) /\ DOMAIN pids = 1..Len(pids) /\ Len(pids) \in Nat /\ Len(pids) = i - 1
      /\ i \in Nat
  BY <1>0, <1>2 DEF Shape, ShellTypes, Control, Creating
<1>8. \A n \in DOMAIN pids : pids[n] # c
  BY <1>0, <1>2 DEF NoneReaped, Creating
\* What was joined stays joined, and the child is joined to the one before it.
<1>9. ASSUME NEW p, NEW q, p # c, q # c, Joined(p, q) PROVE Joined(p, q)'
  BY <1>2, <1>9 DEF Joined, Runs
<1>10. ASSUME NEW n \in 1..(Len(pids) - 1) PROVE Joined(pids[n], pids[n + 1])'
  <2>1. PICK p, q : p = pids[n] /\ q = pids[n + 1]
    OBVIOUS
  <2>2. n \in DOMAIN pids /\ n + 1 \in DOMAIN pids /\ n \in 1..(Len(pids) - 1)
    BY <1>2, <1>7
  <2>3. Joined(p, q)'
    <3>1. Joined(p, q)
      BY <1>0, <2>1, <2>2 DEF Chain
    <3> QED BY <1>8, <1>9, <2>1, <2>2, <3>1
  <2>4. pids'[n] = p /\ pids'[n + 1] = q
    BY <1>2, <2>1
  <2> QED BY <2>3, <2>4 DEF Joined, Runs, StdIn, StdOut, Previous, Current
<1>11. ASSUME i > 1 PROVE Joined(pids[i - 1], child_pid)'
  <2>1. PICK p : p = pids[i - 1]
    OBVIOUS
  <2>2. i - 1 \in DOMAIN pids /\ p # c
    BY <1>7, <1>8, <1>11, <2>1
  <2>3. Runs(p) => StdOut(p) = WriteEnd(Previous(Shell))
    BY <1>0, <1>4, <1>11, <2>1 DEF Chain
  <2>4. Joined(p, c)'
    BY <1>2, <1>4, <1>11, <2>2, <2>3 DEF Joined, Runs
  <2>5. pids'[i' - 1] = p /\ child_pid' = c
    BY <1>2, <2>1
  <2> QED BY <2>4, <2>5 DEF Joined, Runs, StdIn, StdOut, Previous, Current
<1>12. Chain'
  <2>1. HasNextPipe' => NextPipe' = k /\ LastChild' = c /\ StdOut(c)' = WriteEnd(k)
    BY <1>2 DEF HasNextPipe, NextPipe, LastChild
  <2>2. (HasNextPipe /\ Runs(LastChild) => StdOut(LastChild) = WriteEnd(NextPipe))'
    BY <2>1 DEF StdOut, Current
  <2> QED BY <1>2, <1>10, <1>11, <2>2 DEF Chain
<1>13. NoneReaped'
  <2>1. ASSUME NEW n \in DOMAIN pids, pids[n] \in Pids PROVE status'[pids[n]] # "unused"
    <3>1. pids[n] # c /\ status[pids[n]] # "unused"
      BY <1>0, <1>2, <1>8, <2>1 DEF NoneReaped, Creating
    <3> QED BY <1>2, <2>1, <3>1
  <2> QED BY <1>2, <2>1 DEF NoneReaped
<1> QED BY <1>6, <1>12, <1>13 DEF PipelineInv

\* Every other step.
LEMMA PipelineKeptByOthers ==
  ASSUME PipelineInv, [Next]_vars, FreePids = {} \/ ~CreateProcess, EndsInv'
  PROVE  PipelineInv'
<1>0. EndsInv /\ OneAtEachEnd /\ Chain /\ NoneReaped /\ Shape /\ ShellTypes /\ ProcTypes
  BY DEF PipelineInv, EndsInv, Shape
<1>1. \A p \in Pids : StreamsKept(p)
  BY <1>0, StepKeepsStreams
<1>2. ASSUME NEW n \in 1..(Len(pids) - 1) PROVE \A p, q : p = pids[n] /\ q = pids[n + 1] => Joined(p, q)'
  BY <1>0, <1>1, <1>2, JoinedKept DEF Chain
<1>3. /\ pids \in Seq(Answers) /\ DOMAIN pids = 1..Len(pids) /\ Len(pids) \in Nat /\ i \in Nat
      /\ Len(line) \in Nat /\ (Creating => Len(pids) = i - 1 /\ i > 0)
      /\ Shell \in Memories
  BY <1>0 DEF ShellTypes, Shape, Control, Memories
<1>4. HasNextPipe => NextPipe \in Pipes
  <2>1. HasNextPipe => ReadEnd(NextPipe) \in others[Shell]
    BY <1>0, <1>3 DEF EndsInv, ShellHasItsEnds, Pending, HasNextPipe, NextPipe
  <2>2. others[Shell] \subseteq Ends
    BY <1>0, <1>3 DEF ProcTypes
  <2> QED BY <2>1, <2>2, EndsDiffer
<1>5. ASSUME HasNextPipe' => HasNextPipe /\ NextPipe' = NextPipe
      PROVE  OneAtEachEnd'
  <2>1. ASSUME HasNextPipe', NEW p \in Pids PROVE StdIn(p)' # ReadEnd(NextPipe')
    <3>1. HasNextPipe /\ NextPipe' = NextPipe /\ ReadEnd(NextPipe) \in Ends
      BY <1>4, <1>5, <2>1, EndsDiffer
    <3>2. StdIn(p) # ReadEnd(NextPipe)
      BY <1>0, <3>1 DEF OneAtEachEnd
    <3>3. StdIn(p)' \in Ends => StdIn(p)' = StdIn(p)
      BY <1>1 DEF StreamsKept
    <3> QED BY <3>1, <3>2, <3>3
  <2> QED BY <1>0, <1>1, <2>1, EndsStayApart DEF OneAtEachEnd
<1>6. ASSUME pids' = pids, NEW n \in 1..(Len(pids) - 1)
      PROVE  Joined(pids[n], pids[n + 1])'
  <2>1. PICK p, q : p = pids[n] /\ q = pids[n + 1]
    OBVIOUS
  <2>2. Joined(p, q)'
    BY <1>2, <2>1
  <2>3. pids'[n] = p /\ pids'[n + 1] = q
    BY <1>6, <2>1
  <2> QED BY <2>2, <2>3 DEF Joined, Runs, StdIn, StdOut, Previous, Current
\* While no pipeline is made, the processes of one are waited for from its head.
<1>7. ASSUME ~Creating', pids' = pids \/ pids' = <<>> \/ (pids # <<>> /\ pids' = Tail(pids))
      PROVE  PipelineInv'
  <2>1. ~HasNextPipe' /\ pc' \notin {"create", "close", "command"}
    BY <1>7 DEF Creating, HasNextPipe
  <2>2. OneAtEachEnd'
    BY <1>5, <2>1
  <2>3. ASSUME NEW n \in 1..(Len(pids') - 1) PROVE Joined(pids[n], pids[n + 1])'
    <3>1. CASE pids' = pids
      BY <1>6, <2>3, <3>1
    <3>2. CASE pids' = <<>>
      BY <2>3, <3>2
    <3>3. CASE pids # <<>> /\ pids' = Tail(pids)
      <4>1. PICK p, q : p = pids'[n] /\ q = pids'[n + 1]
        OBVIOUS
      <4>2. Len(pids') = Len(pids) - 1 /\ \A m \in 1..(Len(pids) - 1) : pids'[m] = pids[m + 1]
        BY <1>3, <3>3
      <4>3. n + 1 \in 1..(Len(pids) - 1) /\ p = pids[n + 1] /\ q = pids[(n + 1) + 1]
        BY <1>3, <2>3, <4>1, <4>2
      <4>4. Joined(p, q)'
        BY <1>2, <4>3
      <4> QED BY <4>1, <4>4 DEF Joined, Runs, StdIn, StdOut, Previous, Current
    <3> QED BY <1>7, <3>1, <3>2, <3>3
  <2>4. Chain'
    BY <2>1, <2>3 DEF Chain
  <2>5. NoneReaped'
    BY <1>7 DEF NoneReaped
  <2> QED BY <2>2, <2>4, <2>5 DEF PipelineInv
<1>8. ASSUME /\ UNCHANGED <<pids, child_pid, i, line>> /\ Children \subseteq Children'
             /\ Creating
             /\ HasNextPipe' => HasNextPipe /\ NextPipe' = NextPipe
             /\ pc' = pc \/ {pc, pc'} \subseteq {"close", "command"}
      PROVE  PipelineInv'
  <2>1. OneAtEachEnd'
    BY <1>5, <1>8
  <2>2. ASSUME pc' \in {"close", "command"}, i > 1 PROVE Joined(pids[i - 1], child_pid)'
    <3>1. PICK p, q : p = pids[i - 1] /\ q = child_pid
      OBVIOUS
    <3>2. Joined(p, q)
      BY <1>0, <1>8, <2>2, <3>1 DEF Chain
    <3>3. Joined(p, q)'
      BY <1>1, <3>2, JoinedKept
    <3>4. pids'[i' - 1] = p /\ child_pid' = q
      BY <1>8, <3>1
    <3> QED BY <3>3, <3>4 DEF Joined, Runs, StdIn, StdOut, Previous, Current
  <2>3. (HasNextPipe /\ Runs(LastChild) => StdOut(LastChild) = WriteEnd(NextPipe))'
    <3>1. LastChild' = LastChild
      BY <1>8 DEF LastChild
    <3>2. PICK c : c = LastChild
      OBVIOUS
    <3>3. ASSUME HasNextPipe', Runs(c)' PROVE StdOut(c)' = WriteEnd(NextPipe')
      <4>1. Runs(c) /\ HasNextPipe /\ NextPipe' = NextPipe
        BY <1>1, <1>8, <3>3 DEF Runs, StreamsKept
      <4>2. StdOut(c) = WriteEnd(NextPipe) /\ StdOut(c) \in Ends
        BY <1>0, <1>4, <3>2, <4>1, EndsDiffer DEF Chain
      <4> QED BY <1>1, <3>3, <4>1, <4>2 DEF Runs, StreamsKept
    <3> QED BY <3>1, <3>2, <3>3 DEF Runs, StdOut, Current
  <2>4. Chain'
    BY <1>6, <1>8, <2>2, <2>3 DEF Chain
  <2>5. NoneReaped'
    BY <1>0, <1>8 DEF NoneReaped, Children
  <2> QED BY <2>1, <2>4, <2>5 DEF PipelineInv
<1>9. ASSUME UNCHANGED <<pc, pids, child_pid, i, line, pipes[Shell], pipe_index[Shell]>>,
             Children' = Children
      PROVE  PipelineInv'
  <2>1. CASE Creating
    <3>1. HasNextPipe' => HasNextPipe /\ NextPipe' = NextPipe
      BY <1>9 DEF HasNextPipe, NextPipe, Current, Previous
    <3> QED BY <1>8, <1>9, <2>1, <3>1
  <2>2. CASE ~Creating
    BY <1>7, <1>9, <2>2 DEF Creating
  <2> QED BY <2>1, <2>2
<1>10. CASE CreateProcess /\ FreePids = {}
  <2>1. /\ child_pid' = AnyPid /\ UNCHANGED <<status, pids, i, line>> /\ pc = "create" /\ pc' = "close"
        /\ pipes' = [pipes EXCEPT ![Shell] = ShellPipes] /\ UNCHANGED pipe_index
        /\ AnyPid \notin Pids
    BY <1>10 DEF CreateProcess, ShellPipes, Pids, AnyPid
  <2>2. HasNextPipe' => i < Len(line) /\ i <= Len(line) /\ NextPipe' = Current(Shell)' /\ LastChild' = AnyPid
    BY <1>3, <2>1 DEF HasNextPipe, NextPipe, LastChild
  <2>3. ASSUME HasNextPipe', NEW p \in Pids PROVE StdIn(p)' # ReadEnd(NextPipe')
    <3> DEFINE k == Least(FreePipes)
    <3>1. k \in Pipes /\ ~IsOpen(ReadEnd(k))
      BY <1>0, <2>1, NewPipeIsNew
    <3>2. holder.p_out
      BY <1>0, <2>1, <2>2, <2>3, HolderParsed
    <3>3. NextPipe' = k
      <4>1. ShellPipes[pipe_index[Shell]] = k
        BY <1>0, <2>1, <2>2, <2>3, <3>2, PipeMade
      <4>2. pipes'[Shell] = ShellPipes
        BY <1>0, <1>3, <2>1 DEF ProcTypes
      <4> QED BY <2>1, <2>2, <2>3, <4>1, <4>2 DEF Current
    <3> HIDE DEF k
    <3>4. StdIn(p) # ReadEnd(k) /\ ReadEnd(k) \in Ends
      BY <1>0, <3>1, StreamsAreOpen, EndsDiffer
    <3> QED BY <1>1, <3>3, <3>4 DEF StreamsKept
  <2>4. OneAtEachEnd'
    BY <1>0, <1>1, <2>3, EndsStayApart DEF OneAtEachEnd
  <2>5. \A q : ~Joined(q, child_pid)' => Runs(child_pid)'
    BY DEF Joined
  <2>6. ~Runs(child_pid)'
    BY <2>1 DEF Runs
  <2>7. Chain'
    <3>1. (HasNextPipe /\ Runs(LastChild) => StdOut(LastChild) = WriteEnd(NextPipe))'
      BY <2>1, <2>2 DEF Runs
    <3>2. Joined(pids[i - 1], child_pid)'
      BY <2>6 DEF Joined
    <3> QED BY <1>6, <2>1, <3>1, <3>2 DEF Chain
  <2>8. NoneReaped'
    BY <1>0, <2>1 DEF NoneReaped, Creating
  <2> QED BY <2>4, <2>7, <2>8 DEF PipelineInv
<1>11. CASE CloseEnds
  <2>1. /\ pc = "close" /\ pc' = "command" /\ UNCHANGED <<pids, child_pid, i, line, pipes, status>>
        /\ pipe_index' = [pipe_index EXCEPT ![Shell] = 1 - pipe_index[Shell]]
    BY <1>11 DEF CloseEnds
  <2>2. NextPipe' = NextPipe /\ (HasNextPipe' => HasNextPipe)
    <3>1. pipe_index \in [Memories -> {0, 1}] /\ Shell \in Memories
      BY <1>0, <1>3 DEF ProcTypes, Memories
    <3>2. pipe_index'[Shell] = 1 - pipe_index[Shell] /\ pipe_index[Shell] \in {0, 1}
      BY <2>1, <3>1
    <3>3. 1 - (1 - pipe_index[Shell]) = pipe_index[Shell]
      BY <3>2
    <3> QED BY <2>1, <3>2, <3>3 DEF NextPipe, HasNextPipe, Current, Previous
  <2> QED BY <1>8, <2>1, <2>2 DEF Creating, Children
<1>12. CASE RunCommand
  <2>1. /\ pids' = Append(pids, child_pid) /\ child_pid' = 0 /\ i' = i + 1
        /\ UNCHANGED <<line, pipes, pipe_index>> /\ pc = "command" /\ pc' = "create"
    BY <1>12 DEF RunCommand
  <2>2. Children \subseteq Children'
    <3>1. UNCHANGED procVars \/ End(Signalled(holder.job))
      BY <1>12 DEF RunCommand
    <3> QED BY <3>1 DEF procVars, End, Children
  <2>3. /\ Len(pids) = i - 1 /\ Len(pids') = i /\ DOMAIN pids' = 1..i
        /\ pids'[i] = child_pid /\ \A n \in 1..(i - 1) : pids'[n] = pids[n]
    <3>1. Len(pids) = i - 1 /\ child_pid \in Answers /\ i > 0
      BY <1>0, <1>3, <2>1 DEF Creating, Shape, Control, ShellTypes
    <3> QED BY <1>3, <2>1, <3>1
  <2>4. (HasNextPipe' => HasNextPipe) /\ NextPipe' = NextPipe
    BY <1>3, <2>1 DEF HasNextPipe, NextPipe, Previous
  <2>5. OneAtEachEnd'
    BY <1>5, <2>4
  <2>6. ASSUME NEW n \in 1..(Len(pids') - 1) PROVE Joined(pids[n], pids[n + 1])'
    <3>1. PICK p, q : p = pids'[n] /\ q = pids'[n + 1]
      OBVIOUS
    <3>2. n \in Nat /\ n >= 1 /\ n <= i - 1
      BY <1>3, <2>3
    <3>3. Joined(p, q)
      <4>1. CASE n < i - 1
        <5>1. n \in 1..(Len(pids) - 1) /\ p = pids[n] /\ q = pids[n + 1]
          BY <1>3, <2>3, <3>1, <3>2, <4>1
        <5> QED BY <1>0, <5>1 DEF Chain
      <4>2. CASE n = i - 1
        <5>1. i > 1 /\ p = pids[i - 1] /\ q = child_pid
          BY <1>3, <2>3, <3>1, <3>2, <4>2
        <5> QED BY <1>0, <2>1, <5>1 DEF Chain
      <4> QED BY <1>3, <3>2, <4>1, <4>2
    <3>4. Joined(p, q)'
      BY <1>1, <3>3, JoinedKept
    <3> QED BY <3>1, <3>4 DEF Joined, Runs, StdIn, StdOut, Previous, Current
  <2>7. (HasNextPipe /\ Runs(LastChild) => StdOut(LastChild) = WriteEnd(NextPipe))'
    <3>1. PICK c : c = child_pid
      OBVIOUS
    <3>2. LastChild = c /\ LastChild' = c
      <4>1. i' - 1 = i
        BY <1>3, <2>1
      <4> QED BY <2>1, <2>3, <3>1, <4>1 DEF LastChild
    <3>3. ASSUME HasNextPipe', Runs(c)' PROVE StdOut(c)' = WriteEnd(NextPipe')
      <4>1. Runs(c) /\ HasNextPipe /\ NextPipe' = NextPipe
        BY <1>1, <2>4, <3>3 DEF Runs, StreamsKept
      <4>2. StdOut(c) = WriteEnd(NextPipe) /\ StdOut(c) \in Ends
        BY <1>0, <1>4, <3>2, <4>1, EndsDiffer DEF Chain
      <4> QED BY <1>1, <3>3, <4>1, <4>2 DEF Runs, StreamsKept
    <3> QED BY <3>2, <3>3 DEF Runs, StdOut, Current
  <2>8. Chain'
    BY <2>1, <2>6, <2>7 DEF Chain
  <2>9. NoneReaped'
    <3>1. ASSUME NEW n \in DOMAIN pids', pids'[n] \in Pids PROVE status'[pids'[n]] # "unused"
      <4>1. n = i \/ (n \in DOMAIN pids /\ pids'[n] = pids[n])
        BY <1>3, <2>3
      <4>2. pids'[n] \in Children
        BY <1>0, <2>1, <2>3, <3>1, <4>1 DEF NoneReaped, Creating, Children
      <4> QED BY <2>2, <4>2 DEF Children
    <3> QED BY <2>1, <3>1 DEF NoneReaped, Pids
  <2> QED BY <2>5, <2>8, <2>9 DEF PipelineInv
<1>13. CASE StartJob
  <2>1. /\ pids = <<>> /\ child_pid = 0 /\ pids' = pids /\ child_pid' = child_pid /\ i' = 1 /\ pc' = "create"
    BY <1>0, <1>13 DEF StartJob, Shape, Control, Creating
  <2>2. ~HasNextPipe'
    BY <2>1 DEF HasNextPipe
  <2>3. OneAtEachEnd'
    BY <1>5, <2>2
  <2>4. Chain'
    BY <1>6, <2>1, <2>2 DEF Chain
  <2>5. NoneReaped'
    BY <2>1 DEF NoneReaped, Pids
  <2> QED BY <2>3, <2>4, <2>5 DEF PipelineInv
<1>14. ASSUME NEW l \in Lines, ParseLine(l) PROVE PipelineInv'
  BY <1>7, <1>14 DEF ParseLine, Creating
<1>15. CASE ParseEnd
  BY <1>7, <1>15 DEF ParseEnd, Creating
<1>16. CASE PopJob
  BY <1>7, <1>16 DEF PopJob, Creating
<1>17. CASE CheckPid
  BY <1>7, <1>17 DEF CheckPid, shellVars, Creating
<1>18. CASE PushJob
  BY <1>7, <1>18 DEF PushJob, Creating
<1>19. CASE ExitQuash
  BY <1>7, <1>19 DEF ExitQuash, Returns, Creating
<1>20. CASE PushNewJob
  BY <1>7, <1>20 DEF PushNewJob, Returns, Creating
<1>21. CASE StartWaiting
  BY <1>7, <1>21 DEF StartWaiting, Creating
<1>22. CASE Wait
  BY <1>7, <1>22 DEF Wait, Creating
<1>23. CASE JobOver
  BY <1>7, <1>23 DEF JobOver, Returns, Creating
<1>24. ASSUME NEW p \in Pids, Child(p) PROVE PipelineInv'
  <2>1. UNCHANGED <<pc, pids, child_pid, i, line>> /\ Children' = Children
    BY <1>0, <1>24, ChildStepKept DEF shellVars
  <2>2. UNCHANGED <<pipes[Shell], pipe_index[Shell]>>
    <3>1. CASE SetUp(p)
      BY <1>0, <1>3, <3>1, MemoriesAre DEF SetUp, ProcTypes
    <3>2. Moved(p) \/ Ended({p}) => UNCHANGED <<pipes, pipe_index>>
      BY DEF Moved, Ended
    <3> QED BY <1>0, <1>24, <3>1, <3>2, ChildSteps DEF EndsInv
  <2> QED BY <1>9, <2>1, <2>2
<1>25. CASE UNCHANGED vars
  BY <1>9, <1>25 DEF vars, shellVars, procVars, Children
<1> QED BY <1>10, <1>11, <1>12, <1>13, <1>14, <1>15, <1>16, <1>17, <1>18, <1>19, <1>20, <1>21, <1>22,
           <1>23, <1>24, <1>25 DEF Next, Execute

LEMMA PipelineInvInit ==
  ASSUME Init
  PROVE  PipelineInv
<1>1. /\ pc = "parse" /\ pids = <<>> /\ \A p \in Pids : at[p] = "nowhere" /\ input[p] = Terminal /\ output[p] = Terminal
  BY DEF Init, ProcInit, ProcInitWith
<1>2. OneAtEachEnd
  BY <1>1, EndsDiffer DEF OneAtEachEnd, StdIn, StdOut, HasNextPipe
<1>3. Chain /\ NoneReaped
  BY <1>1 DEF Chain, NoneReaped, Creating, HasNextPipe
<1> QED BY <1>2, <1>3, EndsInvInit DEF PipelineInv

\* p writes into a pipe that q reads, and no other process holds its ends as a
\* standard stream.
Connected(p, q) ==
  \E x \in Pipes :
    /\ output[p] = WriteEnd(x) /\ input[q] = ReadEnd(x)
    /\ \A r \in Pids : /\ output[r] = WriteEnd(x) => r = p
                       /\ input[r] = ReadEnd(x) => r = q

\* create_process and its child, parse.y: whatever the lines, and in whatever
\* order the shell and the children take their ends, running neighbours of a
\* pipeline are connected by a pipe that nobody else reads or writes.
THEOREM PipelinesConnected == Spec => []PipelineConnected
<1>1. ASSUME PipelineInv, [Next]_vars PROVE PipelineInv'
  <2>1. EndsInv'
    BY <1>1, EndsInvKept DEF PipelineInv
  <2> QED BY <1>1, <2>1, PipelineKeptByFork, PipelineKeptByOthers
<1>2. PipelineInv => PipelineConnected
  <2> SUFFICES ASSUME PipelineInv, NEW k \in 1..(Len(pids) - 1), {pids[k], pids[k + 1]} \subseteq Pids,
                      {status[pids[k]], status[pids[k + 1]]} = {"running"},
                      "forked" \notin {at[pids[k]], at[pids[k + 1]]}
               PROVE  Connected(pids[k], pids[k + 1])
    BY Zenon DEF PipelineConnected, Connected
  <2> DEFINE p == pids[k]
             q == pids[k + 1]
  <2>1. PICK x \in Pipes : StdOut(p) = WriteEnd(x) /\ StdIn(q) = ReadEnd(x)
    BY DEF PipelineInv, Chain, Joined, Runs
  <2>2. output[p] = WriteEnd(x) /\ input[q] = ReadEnd(x)
    BY <2>1 DEF StdOut, StdIn
  <2>3. WriteEnd(x) \in Ends /\ ReadEnd(x) \in Ends
    BY EndsDiffer
  <2>4. ASSUME NEW r \in Pids PROVE /\ output[r] = WriteEnd(x) => StdOut(r) = WriteEnd(x)
                                    /\ input[r] = ReadEnd(x) => StdIn(r) = ReadEnd(x)
    <3>1. at[r] = "forked" => input[r] = Terminal /\ output[r] = Terminal
      BY DEF PipelineInv, EndsInv, HasItsEnds
    <3> QED BY <3>1, EndsDiffer DEF StdIn, StdOut
  <2> QED BY <2>1, <2>2, <2>3, <2>4 DEF PipelineInv, OneAtEachEnd, Connected
<1> QED BY PipelineInvInit, <1>1, <1>2, PTL DEF Spec
=============================================================================
