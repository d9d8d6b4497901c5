\* The simulator stops at the end of the input and at the first failure.
SPECIFICATION SimSpec
CONSTANTS
  MIN_ORDER = 1
  MAX_ORDER = 3
  NULL = NULL
  NoAnswer = NoAnswer
  Sizes <- MCSizes
  Vars = {a, b, c}
INVARIANT VariablesOwnBlocks
PROPERTIES
  UsesAllocatorLegally
  CommandsComplete
CHECK_DEADLOCK FALSE
