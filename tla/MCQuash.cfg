\* The program ends.
SPECIFICATION Spec
CONSTANTS
  MAX_PIDS = 3
  MAX_PIPES = 8
  MAX_JOB_ID = 2
  Lines <- MCLines
INVARIANTS
  ChildrenListedOnce
  NoLeakedEnds
  PipelineConnected
PROPERTIES
  PromptReturns
  KillReachesTheJob
CHECK_DEADLOCK FALSE
