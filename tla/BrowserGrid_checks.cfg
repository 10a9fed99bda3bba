\* Two workers that run one browser each, two requests pinned anywhere, one
\* restart, fair workers; no symmetry, as two properties are temporal.
CONSTANTS
  j1 = j1
  j2 = j2
  w1 = w1
  w2 = w2
  NoJob = NoJob
  AnyWorker = AnyWorker
  Jobs <- TwoJobs
  Workers <- TwoWorkers
  Concurrency = 1
  MaxRestarts = 1
SPECIFICATION FairSpec
INVARIANTS CapacityHeld HeldOnce WaitingIsAccounted
PROPERTIES ImplementsRequest UnpinnedJobsTaken DrainEnds
\* Every request may be over and every worker down.
CHECK_DEADLOCK FALSE
