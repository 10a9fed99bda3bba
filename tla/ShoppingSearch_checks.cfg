\* Two retailers of one streamed search and one of another search, in one process
\* or two, one fault.
CONSTANTS
  s1 = s1
  s2 = s2
  amazon = amazon
  ebay = ebay
  api = api
  api2 = api2
  cheap = cheap
  dear = dear
  Texts <- TwoTexts
  Reads <- Amounts
  CssName = "--css"
  QueryFloor = 120
  Searches <- TwoSearches
  Retailers <- TwoRetailers
  Configured <- TwoRetailers
  AsksFor <- Asked
  Streams <- OnlyStream
  MaxConcurrency = 2
  Timed = TRUE
  Processes <- TwoProcesses
  Placements <- TogetherOrApart
  Pages <- SomePages
  Errors <- SomeErrors
  Visions <- SomeVisions
  VisionEnabled = TRUE
  Canonical <- Plain
  Alike <- Similar
  MaxFaults = 1
SPECIFICATION Spec
INVARIANTS OfferPriceExplained OneOfferPerTitle OnlyFaultsFail
PROPERTY ImplementsCatalogue
