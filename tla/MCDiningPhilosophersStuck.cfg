\* The program ends.
SPECIFICATION Spec
CONSTANTS
  NUM_PHILS = 3
  ITERATION_LIMIT = 1
  Selected = {"dining_philosophers"}
  Nobody = Nobody
PROPERTY EverybodyLeaves
CHECK_DEADLOCK FALSE
