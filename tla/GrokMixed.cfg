SPECIFICATION FairSpec
CONSTANTS
  a = a
  b = b
  P = P
  Q = Q
  Prog = {P, Q}
  Input = {a, b}
  Match = {1, 2, 3}
  ProgOf <- MixedProgOf
  IsNomatch <- PairNomatch
  BreakIfMatch <- MixedBreak
  ToStdout <- MixedStdout
  RestartOnDeath <- Never
  MinRestartDelay <- MixedMin
  RunInterval <- MixedInterval
  Lines <- MixedLines
  Pid = {1, 2, 3, 4}
  Capacity = 1
  Chunk = 1
  MaxLines = 1
  RecyclesPids = FALSE
  ForkMayFail = FALSE
  ShellsMayDie = FALSE
INVARIANTS
  TypeOK
  OneActivity
  NomatchIsRight
PROPERTIES
  StartsApart
  RunsAgain
  ShellsEnd
ACTION_CONSTRAINT PidsInOrder
