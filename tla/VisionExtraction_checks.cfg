\* Two tasks of five pairs, one page and one model call at a time, two providers, two
\* attempts, two batches, a timeout on the second task, a shutdown at any moment.
CONSTANTS
  t1 = t1
  t2 = t2
  Tasks <- TwoTasks
  Callers <- TwoTasks
  PoolSize = 1
  MaxPools = 2
  Providers = 2
  LlmPermits = 1
  MaxBatches = 2
  Scenarios <- Pairs
  UseProxies = TRUE
  MaxTries = 2
  Warms = TRUE
  SolverOn = TRUE
  PaidSolver = TRUE
  Timed <- OneTimed
SPECIFICATION FairSpec
INVARIANTS VisionTypeOK ContextsAccounted
PROPERTIES GivesUpLast EveryTaskEnds
