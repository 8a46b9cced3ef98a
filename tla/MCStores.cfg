SPECIFICATION Spec
CONSTANTS
  Runners = {r1, r2}
  Scripts <- MCScripts
  MaxAttempts = 20
  MaxKills = 2
  Kinds <- MCKinds
  MaxLosses = 2
  Writers = {w1}
  Paths = {currency, theme}
  MaxSets = 3
  MaxCrashes = 2
  Clients = {c1}
  Ids = {a, b}
  Vectors = {v, w}
  Tags = {x, y}
  MaxOps = 5
  Threads = {t1, t2}
  Pseudonyms = {ann, bob, cid}
  Places = {stew}
  NoSub = soup
  MaxConn = 2
  MaxTags = 1
  Slugs = {p1, p2, p3}
  Authors = {ann}
  Times = {1, 2}
  PageSize = 1
  Batches <- MCBatches
  Categories = {"shoes", "boots"}
  MaxSignals = 1
  None = None
INVARIANTS AppliedIsComplete SavedIsKept CountIsVotes PublishedTogether PagesMissNothing
PROPERTIES EveryStartupCompletes ImplementsMap
\* Startups, sets and calls end.
CHECK_DEADLOCK FALSE
