SPECIFICATION FairSpec
CONSTANTS
  Inode = {1, 2, 3}
  StartPos <- AtEnd
  Chunk = 2
  MaxLines = 4
  MaxTurns = 2
INVARIANTS
  TypeOK
  Awake
PROPERTIES
  PromiseKept
CONSTRAINTS
  FirstInode
  ReadsAgain
ACTION_CONSTRAINT InodesInOrder
CHECK_DEADLOCK FALSE
