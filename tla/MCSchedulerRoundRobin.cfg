\* Two jobs under round robin.  The simulation ends.
SPECIFICATION Spec
CONSTANTS
  JobIds <- MCJobIds
  NULL = NULL
  Workloads <- MCOneCore
  Quantum = 2
  Selected = {"RR"}
  NumJobs = 2
  MaxArrival = 2
  MaxRun = 3
  MaxPriority = 1
PROPERTY
  TurnsAreTaken
CHECK_DEADLOCK FALSE
