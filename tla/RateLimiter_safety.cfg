\* Seven ticks, a window of three.
CONSTANTS
  c1 = c1
  c2 = c2
  c3 = c3
  d1 = d1
  d2 = d2
  Nobody = Nobody
  Callers <- ThreeCallers
  Domains <- TwoDomains
  DomainOf <- CallerDomain
  DelayField <- CallerDelay
  RpmField <- CallerRpm
  DefaultDelay = 2
  DefaultRpm = 3
  Minute = 3
  Epoch = 1
  MaxTime = 7
SPECIFICATION Spec
INVARIANTS Spacing WindowBound
PROPERTIES RejectionsJustified ImplementsLimiter
