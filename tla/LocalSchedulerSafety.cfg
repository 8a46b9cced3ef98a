SPECIFICATION Spec
SYMMETRY MCSymmetry
INVARIANTS TypeOK OneWorkerPerType NoLostWakeup CleanShutdown
CONSTANTS
  letter = letter
  research = research
  l1 = l1
  l2 = l2
  r1 = r1
  r2 = r2
  w1 = w1
  w2 = w2
  w3 = w3
  None = None
  Types <- MCTypes
  Tasks <- MCTasks
  Threads <- MCThreads
  TypeOf <- MCTypeOf
  Loaded <- MCLoaded
  MaxDepth = 1
  CanShutDown = TRUE
CHECK_DEADLOCK FALSE
