\* The program ends.
SPECIFICATION Spec
CONSTANTS
  MAX_PIDS = 3
  MAX_PIPES = 8
  MAX_JOB_ID = 0
  Lines <- MCLines
INVARIANT StoppedAsksNoMore
CHECK_DEADLOCK FALSE
