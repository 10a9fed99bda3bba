\* Two scrapes through the grid, the captcha browser and a paid provider.
CONSTANTS
  s1 = s1
  s2 = s2
  unlocker = unlocker
  Local = Local
  Grid = Grid
  Captcha = Captcha
  NoProvider = NoProvider
  Slots <- TwoSlots
  Order <- MixedChain
  Paid <- PaidOnly
  Cost <- CostOf
  ProviderMaxFailures = 1
  Cooldown = 1
  Budget = 1
SPECIFICATION AspSpec
SYMMETRY SlotSymmetry
INVARIANT DisabledGoesQuiet
PROPERTY SuspensionStays
