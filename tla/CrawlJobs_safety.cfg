\* Two jobs, two fair workers, one permit each, keys that live two ticks, faults at any
\* time; no symmetry, as one property is temporal.
CONSTANTS
  j1 = j1
  j2 = j2
  w1 = w1
  w2 = w2
  NoJob = NoJob
  Jobs <- TwoJobs
  Workers <- TwoWorkers
  Concurrency = 1
  TTL = 2
SPECIFICATION FairSpec
INVARIANTS DeliveredOnce Accounted StatusIsEarned
PROPERTIES NeverRegresses ImplementsLifecycle AcceptedJobsSettle
\* Nothing is left to do once every job is over and every key has expired.
CHECK_DEADLOCK FALSE
