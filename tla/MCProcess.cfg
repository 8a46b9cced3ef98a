SPECIFICATION Spec
CONSTANTS
  x = x
  y = y
  z = z
  Tasks = {x, y, z}
  Parent <- Nested
  TaskWorkers = 2
  ResetTasks = {x, y}
  ResetParent <- Flat
  Callers = {p, q, r}
  Rows = {r1, r2}
  LlamaStreams = {x, y}
  LlamaWholes = {z}
  LlamaTokens = 1
  LlamaWorkers = 1
  Streams = {x}
  Wholes = {y, z}
  StreamTokens = 2
  Workers = 1
  Remotes = {x}
  RemoteTokens = 3
  PageCount = 3
  PageTokens = 2
  Threads = {t1, t2}
  Adapters = {a1, a2}
  BGEUnloads = 2
  Unloader = unloader
  QwenUnloads = 1
  SubBatches = 2
  None = None
INVARIANTS StreamsAreWhole NoneLeftRunning NoStrayScheduler LoadedOnce KeptCallsSucceed
PROPERTIES EveryCallEnds StatusMovesForward
\* Calls end.
CHECK_DEADLOCK FALSE
