------------------------------ MODULE Scheduler ------------------------------
(***************************************************************************)
(* The scheduler library of lab7, libscheduler.c: the ready queue, the     *)
(* jobs on the cores, and the statistics.  Every function the simulator    *)
(* calls is an action; the value it returns is the parameter answer.       *)
(***************************************************************************)
EXTENDS PriQueue

CONSTANTS JobIds,    \* job numbers
          NULL       \* the null pointer; as an answer, the -1 for "none"

ASSUME NullAssumption == NULL \notin JobIds \cup Nat

VARIABLES
  current_scheme,
  job,              \* the allocated job_t structures, by job number
  core_job_ptrs,    \* the job on each core, or NULL
  job_queue,        \* the ready queue
  total_wait_time, total_turnaround_time, total_response_time,
  total_jobs_finished

stats == <<total_wait_time, total_turnaround_time, total_response_time, total_jobs_finished>>
\* There are as many cores as scheduler_start_up was told.
Cores == DOMAIN core_job_ptrs

schedVars == <<current_scheme, job, core_job_ptrs, job_queue, stats>>

Schemes == {"FCFS", "SJF", "PSJF", "PRI", "PPRI", "RR"}

-----------------------------------------------------------------------------
(* The comparers, on job_t structures *)

compare_fcfs(a, b) == a.arrival_time - b.arrival_time
compare_rr(a, b) == a.arrival_time - b.arrival_time

compare_sjf(a, b) ==
  IF a.remaining_time # b.remaining_time THEN a.remaining_time - b.remaining_time
                                         ELSE a.arrival_time - b.arrival_time

compare_pri(a, b) ==
  IF a.priority # b.priority THEN a.priority - b.priority
                             ELSE a.arrival_time - b.arrival_time

\* scheduler_start_up chooses the comparer of the queue by the scheme.
comparer(a, b) ==
  CASE current_scheme = "FCFS" -> compare_fcfs(a, b)
    [] current_scheme \in {"SJF", "PSJF"} -> compare_sjf(a, b)
    [] current_scheme \in {"PRI", "PPRI"} -> compare_pri(a, b)
    [] current_scheme = "RR" -> compare_rr(a, b)

\* priqueue_offer of job x, with the structures as they are in jobs.
Offer(q, x, jobs) ==
  priqueue_offer(q, x, {pair \in (DOMAIN jobs) \X (DOMAIN jobs) :
                          comparer(jobs[pair[1]], jobs[pair[2]]) < 0})

-----------------------------------------------------------------------------
scheduler_start_up(cores, scheme) ==
  /\ current_scheme = scheme
  /\ job = <<>>
  /\ core_job_ptrs = [c \in 0..(cores - 1) |-> NULL]
  /\ job_queue = <<>>
  /\ total_wait_time = 0
  /\ total_turnaround_time = 0
  /\ total_response_time = 0
  /\ total_jobs_finished = 0

\* Mutant: the time of the charge is not recorded.
ChargedAgain(j, time) ==
  [job[j] EXCEPT !.remaining_time = @ - (time - job[j].last_scheduled_time)]

\* The time a job has run since it was last placed or charged.
Charged(j, time) ==
  [job[j] EXCEPT !.remaining_time = @ - (time - job[j].last_scheduled_time),
                 !.last_scheduled_time = time]

\* What update_remaining_times makes of the structures.
UpdatedTimes(time) ==
  [j \in DOMAIN job |->
     IF \E c \in Cores : core_job_ptrs[c] = j THEN Charged(j, time) ELSE job[j]]

\* What place_job_on_core makes of the structure of a job.
Placed(jb, c, time) ==
  [jb EXCEPT !.core_id = c,
             !.last_scheduled_time = time,
             !.start_time = IF @ = -1 THEN time ELSE @]

find_idle_core(c) == core_job_ptrs[c] = NULL /\ \A d \in Cores : core_job_ptrs[d] = NULL => c <= d

AllBusy == \A c \in Cores : core_job_ptrs[c] # NULL

NewJob(time, running, priority) ==
  [arrival_time |-> time, running_time |-> running, remaining_time |-> running,
   priority |-> priority, core_id |-> -1, start_time |-> -1,
   last_scheduled_time |-> time]

\* The structures after the allocation of the new job and the update.
WithNewJob(j, time, running, priority) ==
  [k \in DOMAIN job \cup {j} |->
     IF k = j THEN NewJob(time, running, priority) ELSE UpdatedTimes(time)[k]]

\* Mutant: always the first core.
WorstCoreIsFirst(jobs, c) == c = 0

\* The core of the worst running job: the lowest of them if several tie.
WorstCore(jobs, c) ==
  \A d \in Cores \ {c} :
    LET cmp == comparer(jobs[core_job_ptrs[d]], jobs[core_job_ptrs[c]])
    IN  IF d < c THEN cmp < 0 ELSE cmp <= 0

NewJobOnIdleCore(j, time, jobs, answer) ==
  /\ find_idle_core(answer)
  /\ job' = [jobs EXCEPT ![j] = Placed(@, answer, time)]
  /\ core_job_ptrs' = [core_job_ptrs EXCEPT ![answer] = j]
  /\ UNCHANGED job_queue

\* Under PSJF and PPRI the new job takes the core of the worst running job, if
\* it comes before that job.
Preempts(j, jobs, c) ==
  /\ current_scheme \in {"PSJF", "PPRI"}
  /\ WorstCore(jobs, c)
  /\ comparer(jobs[j], jobs[core_job_ptrs[c]]) < 0

\* Mutant: the job that loses its core is not put back into the queue.
NewJobPreemptsForever(j, time, jobs, answer) ==
  /\ AllBusy
  /\ Preempts(j, jobs, answer)
  /\ job' = [jobs EXCEPT ![core_job_ptrs[answer]].core_id = -1,
                        ![j] = Placed(@, answer, time)]
  /\ core_job_ptrs' = [core_job_ptrs EXCEPT ![answer] = j]
  /\ UNCHANGED job_queue

NewJobPreempts(j, time, jobs, answer) ==
  /\ AllBusy
  /\ Preempts(j, jobs, answer)
  /\ LET worst == core_job_ptrs[answer] IN
       /\ job_queue' = Offer(job_queue, worst, jobs)
       /\ job' = [jobs EXCEPT ![worst].core_id = -1, ![j] = Placed(@, answer, time)]
  /\ core_job_ptrs' = [core_job_ptrs EXCEPT ![answer] = j]

\* Mutant: the job is not put into the queue.
NewJobForgotten(j, jobs, answer) ==
  /\ AllBusy
  /\ \A c \in Cores : ~Preempts(j, jobs, c)
  /\ answer = NULL
  /\ job' = jobs
  /\ UNCHANGED <<core_job_ptrs, job_queue>>

NewJobWaits(j, jobs, answer) ==
  /\ AllBusy
  /\ \A c \in Cores : ~Preempts(j, jobs, c)
  /\ answer = NULL
  /\ job_queue' = Offer(job_queue, j, jobs)
  /\ job' = jobs
  /\ UNCHANGED core_job_ptrs

scheduler_new_job(j, time, running, priority, answer) ==
  LET jobs == WithNewJob(j, time, running, priority) IN
  /\ \/ answer \in Cores /\ NewJobOnIdleCore(j, time, jobs, answer)
     \/ answer \in Cores /\ NewJobPreempts(j, time, jobs, answer)
     \/ NewJobWaits(j, jobs, answer)
  /\ UNCHANGED <<current_scheme, stats>>

\* Mutant: the core stays idle although a job waits.
DispatchNobody(c, time, q, jobs, answer) ==
  /\ answer = NULL
  /\ job_queue' = q
  /\ core_job_ptrs' = [core_job_ptrs EXCEPT ![c] = NULL]
  /\ job' = jobs

\* Poll the queue and place the head, if there is one, on core c; q and jobs
\* are the queue and the structures at that point of the function.
Dispatch(c, time, q, jobs, answer) ==
  /\ answer = priqueue_peek(q, NULL)
  /\ job_queue' = priqueue_poll(q)
  /\ core_job_ptrs' = [core_job_ptrs EXCEPT ![c] = answer]
  /\ job' = IF answer = NULL THEN jobs
                             ELSE [jobs EXCEPT ![answer] = Placed(@, c, time)]

\* Mutant: the waiting time is taken to be the response time.
JobFinishedWaitIsResponse(c, time, answer) ==
  LET finished == core_job_ptrs[c]
      response == job[finished].start_time - job[finished].arrival_time IN
  /\ total_turnaround_time' = total_turnaround_time + (time - job[finished].arrival_time)
  /\ total_response_time' = total_response_time + response
  /\ total_wait_time' = total_wait_time + response
  /\ total_jobs_finished' = total_jobs_finished + 1
  /\ Dispatch(c, time, job_queue, [j \in DOMAIN job \ {finished} |-> job[j]], answer)
  /\ UNCHANGED current_scheme

\* The finished job is counted and freed; finish_time is the current time.
scheduler_job_finished(c, time, answer) ==
  LET finished == core_job_ptrs[c]
      turnaround == time - job[finished].arrival_time IN
  /\ total_turnaround_time' = total_turnaround_time + turnaround
  /\ total_response_time' =
       total_response_time + (job[finished].start_time - job[finished].arrival_time)
  /\ total_wait_time' = total_wait_time + (turnaround - job[finished].running_time)
  /\ total_jobs_finished' = total_jobs_finished + 1
  /\ Dispatch(c, time, job_queue, [j \in DOMAIN job \ {finished} |-> job[j]], answer)
  /\ UNCHANGED current_scheme

scheduler_quantum_expired(c, time, answer) ==
  LET expired == core_job_ptrs[c]
      jobs == [job EXCEPT ![expired] = [Charged(expired, time) EXCEPT !.core_id = -1]] IN
  /\ Dispatch(c, time, Offer(job_queue, expired, jobs), jobs, answer)
  /\ UNCHANGED <<current_scheme, stats>>
=============================================================================
