SPECIFICATION PrefixSpec
CONSTANTS
  Runners = {r1}
  Scripts <- MCScripts
  MaxAttempts = 20
  MaxKills = 1
  Kinds <- MCKinds
  MaxLosses = 0
  Writers = {w1}
  Paths = {currency}
  MaxSets = 0
  MaxCrashes = 0
  Clients = {c1}
  Ids = {a}
  Vectors = {v}
  Tags = {x}
  MaxOps = 0
  Threads = {t1}
  Pseudonyms = {ann}
  Places = {stew}
  NoSub = soup
  MaxConn = 1
  MaxTags = 0
  Slugs = {p1}
  Authors = {ann}
  Times = {1}
  PageSize = 1
  Batches <- MCBatches
  Categories = {"shoes", "boots"}
  MaxSignals = 0
  None = None
INVARIANT PrefixIsComplete
\* Startups end.
CHECK_DEADLOCK FALSE
