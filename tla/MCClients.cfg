SPECIFICATION Spec
CONSTANTS
  RouterCalls = {c1, c2}
  Backends <- MCBackends
  Config <- MCConfig
  Orders <- MCOrders
  Reliable = {"gpu", "vision"}
  Calls = {r1, r2, r3}
  Recalls = {r3}
  MaxFailures = 3
  base = base
  roof = roof
  Radios = {base, roof}
  MaxPackets <- MCPackets
  MaxDrops = 2
  MaxMsgs = 2
  Patterns = {mesh, sensor}
  Producers = {p, q}
  Subscribers = {c}
  QueueSize = 2
  BusEvents = 3
  Deliveries = {d1}
  MaxTries = 3
  MaxRotations = 1
  Submissions = {s1, s2}
  PageSize = 2
  caller = c1
  p = p
  c = c
  None = None
INVARIANTS LeasesGivenBack ReliableIsNotBypassed DeliveriesAreTrue
INVARIANTS FeedbackIsWhole LinksHold
PROPERTY ClientsProgress
\* Calls, streams and clients end.
CHECK_DEADLOCK FALSE
