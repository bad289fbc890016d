\* Beams of one and of two slots, up to three steps, scores 0 and 1, NaN and
\* minus infinity.
SPECIFICATION Spec
CONSTANTS
  NumActions = 2
  IsAllowed <- MCIsAllowed
  IsFinal <- MCIsFinal
  Oracle <- MCOracle
  NaN = NaN
  NegInfinity = NegInfinity
  Entries = {0, 1, NaN, NegInfinity}
  MaxSizes = {1, 2}
  MaxSteps = 3
INVARIANTS
  LineageFound
  KeepsTheBest
  GoldExact
