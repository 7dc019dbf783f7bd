SPECIFICATION Spec
CONSTANTS
  Inode = {1, 2, 3}
  StartPos <- AtEnd
  Chunk = 2
  MaxLines = 4
  MaxTurns = 2
PROPERTIES
  ReopensAnother
CONSTRAINTS
  FirstInode
  ReadsAgain
ACTION_CONSTRAINT InodesInOrder
CHECK_DEADLOCK FALSE
