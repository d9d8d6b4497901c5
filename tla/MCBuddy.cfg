SPECIFICATION Spec
CONSTANTS
  MIN_ORDER = 1
  MAX_ORDER = 4
  NULL = NULL
  NoAnswer = NoAnswer
  Sizes <- MCSizes
INVARIANTS
  TypeOK
  ListsMatchDescriptors
  BlocksTileMemory
  Coalesced
PROPERTIES
  LiveBlocksUntouched
  ImplementsPromise
