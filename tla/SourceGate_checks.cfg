\* Two fetches of a source of any kind, each answered in time; no symmetry, as one
\* property is temporal.
CONSTANTS
  s1 = s1
  f1 = f1
  f2 = f2
  NoSource = NoSource
  Sources <- OneSource
  Fetches <- TwoFetches
  Kinds <- AllKinds
  JsProbe = TRUE
SPECIFICATION FairGateSpec
INVARIANTS RobotsObeyed RobotsRemembered
PROPERTY FetchesEnd
\* Every fetch may be over.
CHECK_DEADLOCK FALSE
