\* The oracle on every projective tree of up to five tokens, and for each
\* length every sequence of allowed predictions.
SPECIFICATION Spec
CONSTANTS
  NumLabels = 2
  RootLabel <- NoRootLabel
  Sentences <- ProjectiveSentences
  Predicted <- SomeSentences
INVARIANTS
  EndsTogether
  ParsesAreTrees
  OracleIsRight
  StepsOfStackTokens
CHECK_DEADLOCK FALSE
