\* The step map of reduced tokens against its description.
SPECIFICATION Spec
CONSTANTS
  NumLabels = 2
  RootLabel = 0
  Sentences <- SomeSentences
  Predicted <- SomeSentences
INVARIANT
  StepsOfReducedTokens
CHECK_DEADLOCK FALSE
