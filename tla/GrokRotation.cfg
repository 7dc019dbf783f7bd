SPECIFICATION Spec
CONSTANTS
  Inode = {1, 2, 3}
  Matching = {1, 3}
  HasNomatch = TRUE
  BlockSize = 2
  Chunk = 2
  PipeSize = 4
  MaxWait = 3
  MaxLines = 4
  MaxTurns = 2
INVARIANTS
  StillFollowed
CONSTRAINTS
  FirstInode
  ReadsAgain
ACTION_CONSTRAINT InodesInOrder
