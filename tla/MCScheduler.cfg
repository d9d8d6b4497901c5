\* One core with three jobs in any order in the file, and two cores with four
\* jobs.  The simulation ends.
SPECIFICATION Spec
CONSTANTS
  JobIds <- MCJobIds
  NULL = NULL
  Workloads <- MCWorkloads
  Quantum = 2
  Selected = {"FCFS", "SJF", "PSJF", "PRI", "PPRI", "RR"}
  NumJobs = 4
  MaxArrival = 4
  MaxRun = 3
  MaxPriority = 2
INVARIANTS
  RemainingTimeIsExact
  QueueSorted
  StatisticsAreExact
  SimulatorAgreesWithScheduler
  WorkConserving
  BestJobsRun
PROPERTY AllJobsFinish
CHECK_DEADLOCK FALSE
