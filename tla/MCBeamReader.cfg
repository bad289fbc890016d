\* Training and evaluation of small corpora with beams of one and two slots.
SPECIFICATION Spec
CONSTANTS
  num_actions = 3
  NumEpochs = 2
  Runs <- MCRuns
  ScoreRules <- MCScoreRules
INVARIANTS
  GoldPathKept
  IndicesGiveTheScore
  EvaluatesFinishedPaths
PROPERTIES
  EpochIsOnePass
  KeepsTheBestPaths
  EpochsGoBy
CHECK_DEADLOCK FALSE
