\* The computation ends in "found" or "null".
SPECIFICATION RequestSpec
CONSTANTS
  INT_BITS = 8
  KILO = 4
  MIN_ORDER = 3
  MAX_ORDER = 5
PROPERTY EveryRequestAnswered
CHECK_DEADLOCK FALSE
