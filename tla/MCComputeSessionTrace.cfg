\* The traces of a pipeline with a StatelessComponent.
SPECIFICATION Spec
CONSTANTS
  Batches <- Inputs
  BeamSizes = {1}
  Graphs <- TracedWithStateless
  MaxRuns = 1
INVARIANT TracesAvailable
CHECK_DEADLOCK FALSE
