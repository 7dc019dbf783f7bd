SPECIFICATION Spec
CONSTANTS
  a = a
  b = b
  P = P
  Q = Q
  Prog = {P, Q}
  Input = {a, b}
  Match = {1, 2, 3}
  ProgOf <- MixedProgOf
  IsNomatch <- PairNomatch
  BreakIfMatch <- MixedBreak
  ToStdout <- MixedStdout
  RestartOnDeath <- Never
  MinRestartDelay <- MixedMin
  RunInterval <- MixedInterval
  Lines <- MixedLines
  Pid = {p1, p2, p3, p4, p5}
  Capacity = 1
  Chunk = 1
  MaxLines = 1
  RecyclesPids = TRUE
  ForkMayFail = FALSE
  ShellsMayDie = FALSE
PROPERTIES
  DeathBelongsToInput
