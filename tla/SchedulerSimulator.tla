-------------------------- MODULE SchedulerSimulator --------------------------
(***************************************************************************)
(* The program that drives the scheduler, lab7 simulator.c: a clock that   *)
(* advances one time unit per round, its own record of which job is on     *)
(* which core, and the scheduler's answers that keep that record current.  *)
(*                                                                         *)
(* A round goes through the phases "finish", "expire", "arrive" and "run". *)
(* The loops over the array visit, in increasing index, just the entries   *)
(* their test selects, one action for each; an entry that a loop has       *)
(* handled no longer passes the test.                                      *)
(***************************************************************************)
EXTENDS Scheduler

CONSTANTS Workloads,  \* the cores the command line asks for, and the job file: a
                      \* sequence of records of arrival_time, run_time and priority
          Quantum,    \* the quantum of RR, positive
          Selected    \* the schemes the command line may select

\* simulator.c does not check that a job has something to run; a job with
\* run_time 0 counts as finished before it arrives, and is left out here.
ASSUME WorkloadsAssumption ==
  \A w \in Workloads :
    /\ w.cores \in Nat \ {0}
    /\ w.file \in Seq([arrival_time : Nat, run_time : Nat \ {0}, priority : Int])
    /\ \A i \in DOMAIN w.file : i - 1 \in JobIds

ASSUME SelectedAssumption == Selected \subseteq Schemes

ASSUME QuantumAssumption == Quantum \in Nat \ {0}

VARIABLES
  jobs,           \* the entries of the jobs that have not finished
  quantum_clock,  \* per core: units left of the quantum
  time,
  phase,          \* where the main loop is; "done" and "error" are the exits
  \* History variables, no part of the program:
  waited,         \* per job: the units it was alive and on no core
  firstRun        \* per job: the first unit it ran, or -1

simVars == <<jobs, quantum_clock, time, phase>>
history == <<waited, firstRun>>
vars == <<schedVars, simVars, history>>

Entries == 1..Len(jobs)

Entry(file, i) ==
  [job_id |-> i - 1, run_time |-> file[i].run_time, arrival_time |-> file[i].arrival_time,
   priority |-> file[i].priority, core_id |-> -1, arrived |-> FALSE]

SimInit ==
  /\ \E w \in Workloads, s \in Selected :
       /\ scheduler_start_up(w.cores, s)
       /\ jobs = [i \in DOMAIN w.file |-> Entry(w.file, i)]
  /\ quantum_clock = [c \in Cores |-> -1]
  /\ time = 0
  /\ phase = "finish"
  /\ waited = [j \in JobIds |-> 0]
  /\ firstRun = [j \in JobIds |-> -1]

\* i is the first entry that passes the test of a loop.
IsFirst(i, Test(_)) == i \in Entries /\ Test(i) /\ \A k \in 1..(i - 1) : ~Test(k)

\* set_active_job: the entry of the job that was selected gets the core; the
\* program gives up if no entry that has arrived is that job's.
Selectable(js, j) == \E k \in 1..Len(js) : js[k].job_id = j /\ js[k].arrived
WithActiveJob(js, j, c) ==
  [k \in 1..Len(js) |-> IF js[k].job_id = j /\ js[k].arrived
                        THEN [js[k] EXCEPT !.core_id = c] ELSE js[k]]

\* Enter the scheduler's choice for core c into the entries js.
TakeChoice(js, c, answer) ==
  /\ jobs' = IF answer = NULL THEN js ELSE WithActiveJob(js, answer, c)
  /\ phase' = IF answer = NULL \/ Selectable(js, answer) THEN phase ELSE "error"

\* A finished entry is overwritten with the last one and the array shrinks.
Deleted(i) ==
  [k \in 1..(Len(jobs) - 1) |-> IF k = i THEN jobs[Len(jobs)] ELSE jobs[k]]

\* Step 1: a job finished in the last time unit.
Finish ==
  /\ phase = "finish"
  /\ \E i \in Entries, answer \in JobIds \cup {NULL} :
       LET c == jobs[i].core_id IN
       /\ IsFirst(i, LAMBDA k : jobs[k].run_time = 0)
       /\ scheduler_job_finished(c, time, answer)
       /\ quantum_clock' = IF current_scheme = "RR"
                           THEN [quantum_clock EXCEPT ![c] = Quantum] ELSE quantum_clock
       /\ TakeChoice(Deleted(i), c, answer)
  /\ UNCHANGED <<time, history>>

FinishesOver ==
  /\ phase = "finish"
  /\ \A i \in Entries : jobs[i].run_time # 0
  /\ phase' = IF jobs = <<>> THEN "done"
              ELSE IF current_scheme = "RR" THEN "expire" ELSE "arrive"
  /\ UNCHANGED <<schedVars, jobs, quantum_clock, time, history>>

\* The quantum of core c ran out with a job on the core.
Expired(c) == quantum_clock[c] = 0 /\ \E i \in Entries : jobs[i].core_id = c

\* Step 2: the quantum of a core expired in the last time unit.
Expire ==
  /\ phase = "expire"
  /\ \E c \in Cores, i \in Entries, answer \in JobIds \cup {NULL} :
       /\ Expired(c) /\ \A d \in Cores : Expired(d) => c <= d
       /\ IsFirst(i, LAMBDA k : jobs[k].core_id = c)
       /\ scheduler_quantum_expired(c, time, answer)
       /\ quantum_clock' = [quantum_clock EXCEPT ![c] = Quantum]
       /\ TakeChoice([jobs EXCEPT ![i].core_id = -1], c, answer)
  /\ UNCHANGED <<time, history>>

ExpiriesOver ==
  /\ phase = "expire"
  /\ \A c \in Cores : ~Expired(c)
  /\ phase' = "arrive"
  /\ UNCHANGED <<schedVars, jobs, quantum_clock, time, history>>

Arrives(i) == jobs[i].arrival_time = time /\ ~jobs[i].arrived

\* The entries when entry i has arrived and was given core answer, if any.
WithArrived(i, answer) ==
  [k \in Entries |->
     IF k = i THEN [jobs[k] EXCEPT !.arrived = TRUE,
                                   !.core_id = IF answer = NULL THEN @ ELSE answer]
     ELSE IF jobs[k].core_id = answer THEN [jobs[k] EXCEPT !.core_id = -1]
     ELSE jobs[k]]

\* Step 3: a job arrives; whoever was on the core it is given loses it.
Arrive ==
  /\ phase = "arrive"
  /\ \E i \in Entries, answer \in Cores \cup {NULL} :
       /\ IsFirst(i, Arrives)
       /\ scheduler_new_job(jobs[i].job_id, time, jobs[i].run_time, jobs[i].priority, answer)
       /\ jobs' = WithArrived(i, answer)
       /\ quantum_clock' = IF current_scheme = "RR" /\ answer # NULL
                           THEN [quantum_clock EXCEPT ![answer] = Quantum]
                           ELSE quantum_clock
  /\ UNCHANGED <<time, phase, history>>

ArrivalsOver ==
  /\ phase = "arrive"
  /\ \A i \in Entries : ~Arrives(i)
  /\ phase' = "run"
  /\ UNCHANGED <<schedVars, jobs, quantum_clock, time, history>>

Running(i) == jobs[i].core_id # -1

\* The assertion of step 4 and the sanity check of step 6.
CoresShared == \E i, k \in Entries : i # k /\ Running(i) /\ jobs[i].core_id = jobs[k].core_id
AllIdle == (\E i \in Entries : jobs[i].arrived) /\ \A i \in Entries : ~Running(i)

\* Steps 4 to 7: every job that is on a core runs for one unit.
RunUnit ==
  /\ phase = "run"
  /\ jobs' = [i \in Entries |-> IF Running(i) THEN [jobs[i] EXCEPT !.run_time = @ - 1]
                                              ELSE jobs[i]]
  /\ quantum_clock' =
       [c \in Cores |-> IF \E i \in Entries : jobs[i].core_id = c
                        THEN quantum_clock[c] - 1 ELSE quantum_clock[c]]
  /\ IF CoresShared \/ AllIdle THEN phase' = "error" /\ UNCHANGED time
                               ELSE phase' = "finish" /\ time' = time + 1
  /\ waited' = [j \in JobIds |->
                  IF \E i \in Entries : jobs[i].job_id = j /\ jobs[i].arrived /\ ~Running(i)
                  THEN waited[j] + 1 ELSE waited[j]]
  /\ firstRun' = [j \in JobIds |->
                    IF firstRun[j] = -1 /\ \E i \in Entries : jobs[i].job_id = j /\ Running(i)
                    THEN time ELSE firstRun[j]]
  /\ UNCHANGED schedVars

Next == \/ Finish \/ FinishesOver
        \/ Expire \/ ExpiriesOver
        \/ Arrive \/ ArrivalsOver
        \/ RunUnit

\* The program computes on; nothing in it waits.
Spec == SimInit /\ [][Next]_vars /\ WF_vars(Next)

-----------------------------------------------------------------------------
(* Properties *)

Queued(j) == \E k \in 1..Len(job_queue) : job_queue[k] = j

\* The simulator's and the scheduler's pictures of the cores agree after every
\* call: a job is on a core for both or for none, and a job that is alive and
\* on no core is in the ready queue, exactly once; so the simulator's assertion
\* and its errors (simulator.c) are never reached.
SimulatorAgreesWithScheduler ==
  /\ phase # "error"
  /\ \A i \in Entries, c \in Cores :
       jobs[i].core_id = c <=> core_job_ptrs[c] = jobs[i].job_id
  /\ \A i \in Entries :
       /\ jobs[i].arrived <=> jobs[i].job_id \in DOMAIN job
       /\ (jobs[i].arrived /\ ~Running(i)) <=> Queued(jobs[i].job_id)
  /\ \A k, l \in 1..Len(job_queue) : job_queue[k] = job_queue[l] => k = l
  /\ \A j \in DOMAIN job : \E i \in Entries : jobs[i].job_id = j

\* The remaining time the scheduler computes from the times of its calls, for
\* a job that may have been placed, preempted and resumed many times, is the
\* time the simulator still has to run it.
RemainingTimeIsExact ==
  \A i \in Entries :
    jobs[i].arrived =>
      LET jb == job[jobs[i].job_id] IN
      jobs[i].run_time = IF Running(i)
                         THEN jb.remaining_time - (time - jb.last_scheduled_time)
                         ELSE jb.remaining_time

\* The ready queue is in the order of its comparer, although the structures it
\* orders are changed between the calls.
QueueSorted ==
  \A k, l \in 1..Len(job_queue) :
    k < l => comparer(job[job_queue[k]], job[job_queue[l]]) <= 0

\* When a time unit runs no core is idle while a job waits.
WorkConserving == phase = "run" => (job_queue # <<>> => AllBusy)

\* When a time unit runs under a preemptive scheme, no waiting job comes before
\* a running one.
BestJobsRun ==
  (phase = "run" /\ current_scheme \in {"PSJF", "PPRI"}) =>
    \A k \in 1..Len(job_queue), c \in Cores :
      core_job_ptrs[c] # NULL =>
        LET now == UpdatedTimes(time) IN
        comparer(now[core_job_ptrs[c]], now[job_queue[k]]) <= 0

\* All jobs of the file: those that have finished were counted.
JobCount == Len(jobs) + total_jobs_finished
HasFinished(j) == \A i \in Entries : jobs[i].job_id # j

\* The units that the jobs which have finished spent waiting.
UnitsWaited ==
  LET upTo[n \in 0..JobCount] ==
        IF n = 0 THEN 0
        ELSE upTo[n - 1] + (IF HasFinished(n - 1) THEN waited[n - 1] ELSE 0)
  IN  upTo[JobCount]

\* The averages printed at the end are right.  The waiting time summed up from
\* the times of the calls is the number of units jobs really spent waiting.
\* Without preemption, start_time, from which the response time is computed, is
\* the time of the first unit the job ran: "Record the very first time this job
\* gets a CPU cycle (response time)" (libscheduler.c).  (Under PSJF and PPRI a
\* job may be placed and preempted within one time unit and keep a start_time at
\* which it did not run.)
StatisticsAreExact ==
  /\ total_wait_time = UnitsWaited
  /\ current_scheme \notin {"PSJF", "PPRI"} =>
       \A j \in DOMAIN job : firstRun[j] # -1 => job[j].start_time = firstRun[j]

\* When a quantum expires and another job waits, the core goes to another job:
\* the expected output examples/proc1-c1-rr2.out has the jobs take turns.
TurnsAreTaken ==
  [][phase = "expire" /\ phase' = "expire" /\ job_queue # <<>> =>
       \A c \in Cores : Expired(c) /\ (\A d \in Cores : Expired(d) => c <= d)
                          => core_job_ptrs'[c] # core_job_ptrs[c]]_vars

\* Every simulation comes to its end, with every job finished and counted.
AllJobsFinish == <>(phase = "done" /\ job = <<>>)
=============================================================================
