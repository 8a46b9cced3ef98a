SPECIFICATION FairSpec
PROPERTY ImplementsFairTaskQueue
CONSTANTS
  letter = letter
  research = research
  l1 = l1
  l2 = l2
  r1 = r1
  r2 = r2
  w1 = w1
  w2 = w2
  w3 = w3
  None = None
  Types <- MCTypes
  Tasks <- MCLiveTasks
  Threads <- MCThreads
  TypeOf <- MCLiveTypeOf
  Loaded <- MCLoaded
  MaxDepth = 1
  CanShutDown = FALSE
CHECK_DEADLOCK FALSE
