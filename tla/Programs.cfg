SPECIFICATION Spec
CONSTANTS
  Path <- Paths
  MaxFiles = 2
  MaxTurns = 2
  Sender = {s1, s2, s3}
  Receiver = {r1, r2, r3}
  Nothing = Nothing
  Worker = {w1, w2}
  N = 2
  MaxTokens = 5
  Tries = 1
  MaxOthers = 1
  Patterns <- SomePatterns
  Inputs <- SomeInputs
  Customer = {c1, c2, c3}
  Chairs = 2
  Nobody = Nobody
  Rule <- SomeRules
  InputRow <- InputRows
  Update <- SomeUpdates
  Second = 2
  Rounding = 1
  MaxSets = 2
  MaxSessions = 2
  MaxMove = 3
INVARIANTS
  TypesOK
  GlobIsTold
  DxNothingLeft
  DxTokens
  GrokFolds
  GrokJudges
  BarberTells
  FancyAggregates
PROPERTIES
  GlobConverges
  ChannelMeets
  ChannelReturns
  DxEnds
  GrokExpandEnds
  BarberWakes
  FancyCloses
  MouseSettles
CHECK_DEADLOCK FALSE
