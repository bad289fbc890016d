\* All digraphs of up to three nodes with few scores, and dense ones of four.
SPECIFICATION Spec
CONSTANTS
  NotFinite = NotFinite
  MaxIndex = 10
  Problems <- MCProblems
INVARIANTS
  SolutionIsOptimal
  ForestsAgree
PROPERTY SolveReturns
CHECK_DEADLOCK FALSE
