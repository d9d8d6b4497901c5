----------------------------- MODULE MCScheduler -----------------------------
(* Small job files for the scheduler and its simulator. *)
EXTENDS SchedulerSimulator

CONSTANTS NumJobs, MaxArrival, MaxRun, MaxPriority

MCJobIds == 0..(NumJobs - 1)

Files(n, arrival) ==
  [1..n -> [arrival_time : 0..arrival, run_time : 1..MaxRun, priority : 1..MaxPriority]]

\* "You may assume that every job will have a unique arrival time"
\* (libscheduler.c).
AnyOrder(n, arrival) ==
  {f \in Files(n, arrival) : \A i, k \in 1..n : i # k => f[i].arrival_time # f[k].arrival_time}

\* The same jobs in the order of their arrival.
InOrder(n, arrival) ==
  {f \in Files(n, arrival) : \A i \in 1..(n - 1) : f[i].arrival_time < f[i + 1].arrival_time}

\* One core and a job less, in any order, or two cores.
MCWorkloads ==
  {[cores |-> 1, file |-> f] : f \in AnyOrder(NumJobs - 1, MaxArrival - 1)} \cup
  {[cores |-> 2, file |-> f] : f \in InOrder(NumJobs, MaxArrival)}

MCOneCore == {[cores |-> 1, file |-> f] : f \in InOrder(NumJobs, MaxArrival)}
=============================================================================
