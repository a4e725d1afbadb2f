SPECIFICATION Spec
CONSTANTS
  R = 2
  Corpora <- SmallCorpora
  Settings <- Policies
  MinSamples = 2
  MaxSamples = 2
  NoScore = NoScore
  NoThreshold = NoThreshold
INVARIANTS
  JobIsAccounted
  OutcomesAreOwn
CHECK_DEADLOCK FALSE
