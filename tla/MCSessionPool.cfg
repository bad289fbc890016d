\* Two concurrent runs of a traced graph, one of which may fail,
\* while a third asks for the counts.
SPECIFICATION FairSpec
CONSTANTS
  Runs = {r1, r2}
  None = None
  Tracing = {TRUE}
  Monitored = TRUE
  MaxFailures = 1
INVARIANTS
  SessionExclusive
  NoStepFails
  OwnDataOnly
  BoundedByConcurrency
PROPERTIES
  ImplementsAllocator
  RunsFinish
