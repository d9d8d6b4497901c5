\* The programs end.
SPECIFICATION Spec
CONSTANTS
  INT_BITS = 8
  KILO = 4
  MIN_ORDER = 3
  MAX_ORDER = 5
  Elements = {e1, e2}
  Garbage = Garbage
  InitCaps = {0, 3}
  MAX_LENGTH = 3
  FirstSizes = {0, 2, 3}
  PoolSizes = {1, 2, 9}
  MAX_GIVEN = 3
  POOL_CAP = 3
  MAX_PIECES = 2
  MAX_QUOTED = 2
  Env <- MCEnv
  Items = {11, 12, 21}
  ItemBefore <- MCItemBefore
  NULL = NULL
  MAX_NODES = 3
  num_pages = 4
  num_frames = 3
  PAGE_SIZE = 2
  Files <- MCFiles
  BufferSizes = {0, 1, 2, 3, 7}
  UNWRITTEN = 0
  NUM_THREADS = 3
  LoopBounds = {0, 1, 2}
  Increments = {1, 3}
  INT_RANGE = 8
  CTRL_C_THRESHOLD = 5
  MAX_PIDS = 4
  MAX_PIPES = 10
  MAX_FILES = 2
INVARIANTS
  PoolsSound
  TokenInterpreted
  FramesNotShared
  FullBeforeOverrun
  CopyIsFile
PROPERTIES
  SmallSizesAnswered
  IsSequence
  AllocEnds
  IsOrderedQueue
  TotalIsExact
  AlarmOnlyUntilCancelled
  QuestionEnds
  TurnsKept
  FinderEnds
CHECK_DEADLOCK FALSE
