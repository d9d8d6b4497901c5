\* The program ends.
SPECIFICATION Spec
CONSTANTS
  NUM_PHILS = 3
  ITERATION_LIMIT = 2
  Selected = {"dp_asymmetric", "dp_waiter", "dine"}
  Nobody = Nobody
INVARIANTS
  ChopsticksExclusive
  NeverDeadlocked
PROPERTIES
  AsymmetricLeaves
  DeadlockIsReported
  DeadlockIsResolved
CHECK_DEADLOCK FALSE
