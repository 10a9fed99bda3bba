\* Three requests of six mixes, one permit, two clock ticks.
CONSTANTS
  r1 = r1
  r2 = r2
  r3 = r3
  aapl = aapl
  quoteKey = quoteKey
  pageKey = pageKey
  NoEntry = NoEntry
  Keys <- TwoKeys
  Ttl <- TtlOfKeys
  OnRedis = TRUE
  MaxTime = 2
  Requests <- ThreeRequests
  Symbols <- OneSymbol
  QuoteKey <- KeyOfQuote
  YahooPermits = 1
  UseCurl = TRUE
  UseGrid = TRUE
  VisionEnabled = TRUE
  Scenarios <- Mixes
  OldCaches <- Poisoned
SPECIFICATION FairSpec
INVARIANTS FinanceTypeOK PriceNotLost PoisonRemoved
PROPERTIES EveryRequestAnswered
