\* Every fault, two workers, a small queue: what a returned hash means
CONSTANTS
  h1 = h1
  h2 = h2
  f1 = f1
  w1 = w1
  w2 = w2
  NoHash = NoHash
  Calls <- TwoCalls
  Foreign <- NoForeign
  Workers <- TwoWorkers
  QueueSize = 1
  Confirmations = 1
  Word = 64
  HookFirst <- OneCall
  Faults <- AllFaults
  MaxReorgs = 0
SPECIFICATION Spec
SYMMETRY WorkerSymmetry
INVARIANT TypeOK
INVARIANT OkIsSettled
INVARIANT OkLeavesNoTrace
 
INVARIANT ConfirmedIsDeep
CHECK_DEADLOCK FALSE
