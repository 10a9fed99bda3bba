\* A queued crawl among others.
CONSTANTS
  seed = seed
  rich = rich
  thin = thin
  deep = deep
  foreign = foreign
  Seed <- seed
  Urls <- FiveUrls
  Pages <- ShortPages
  Score <- Scores
  Rich = 2
  Allowed <- AllPaths
  Kin <- Kinship
  Requests <- ThreeRequests
  MaxDepth = 2
  Limit = 4
SPECIFICATION Spec
INVARIANT ScopeAsAsked
\* The crawl ends.
CHECK_DEADLOCK FALSE
