\* A session used by three runs, one after the other.
SPECIFICATION Spec
CONSTANTS
  Batches <- Inputs
  BeamSizes = {1, 2}
  Graphs <- SoundGraphs
  MaxRuns = 3
INVARIANTS
  NoCheckFails
  BeamsOfThisRun
  NoStateOutlivesItsSentence
  AnnotationsComplete
CHECK_DEADLOCK FALSE
