SPECIFICATION FairSpec
CONSTANTS
  a = a
  b = b
  P = P
  Q = Q
  Prog = {P}
  Input = {a, b}
  Match = {1, 2, 3}
  ProgOf <- PairProgOf
  IsNomatch <- PairNomatch
  BreakIfMatch <- PairBreak
  ToStdout <- PairStdout
  RestartOnDeath <- Never
  MinRestartDelay <- NoTime
  RunInterval <- NoTime
  Lines <- PairLines
  Pid = {1, 2, 3, 4}
  Capacity = 2
  Chunk = 2
  MaxLines = 2
  RecyclesPids = FALSE
  ForkMayFail = FALSE
  ShellsMayDie = TRUE
INVARIANTS
  NoLineLost
  NomatchIsRight
  ClosedWithProgram
  EndIsQuiet
PROPERTIES
  Terminates
ACTION_CONSTRAINT PidsInOrder
