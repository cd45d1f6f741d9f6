\* README.md:3 against a reverted transaction
CONSTANTS
  h1 = h1
  h2 = h2
  f1 = f1
  w1 = w1
  w2 = w2
  NoHash = NoHash
  Calls <- OneCall
  Foreign <- NoForeign
  Workers <- OneWorker
  QueueSize = 1
  Confirmations = 1
  Word = 64
  HookFirst <- OneCall
  Faults <- Reverts
  MaxReorgs = 0
SPECIFICATION Spec
INVARIANT OkIsDeep
CHECK_DEADLOCK FALSE
