SPECIFICATION Spec
CONSTANTS
  a = a
  b = b
  P = P
  Q = Q
  Prog = {P}
  Input = {a, b}
  Match = {1, 2, 3}
  ProgOf <- PairProgOf
  IsNomatch <- PairNomatch
  BreakIfMatch <- PairBreak
  ToStdout <- PairStdout
  RestartOnDeath <- Never
  MinRestartDelay <- NoTime
  RunInterval <- NoTime
  Lines <- PairLines
  Pid = {p1, p2, p3, p4}
  Capacity = 2
  Chunk = 2
  MaxLines = 2
  RecyclesPids = FALSE
  ForkMayFail = FALSE
  ShellsMayDie = TRUE
PROPERTIES
  ReactionsHaveAShell
