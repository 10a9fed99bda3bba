\* One scrape at a time.
CONSTANTS
  s1 = s1
  s2 = s2
  unlocker = unlocker
  Local = Local
  Grid = Grid
  Captcha = Captcha
  NoProvider = NoProvider
  Slots <- OneSlot
  Order <- LocalChain
  Paid <- PaidOnly
  Cost <- CostOf
  ProviderMaxFailures = 1
  Cooldown = 1
  Budget = 1
SPECIFICATION AspSpec
INVARIANT CircuitCloses
