\* Late hooks and late answers: both orders of hook and queue
CONSTANTS
  h1 = h1
  h2 = h2
  f1 = f1
  w1 = w1
  w2 = w2
  NoHash = NoHash
  Calls <- TwoCalls
  Foreign <- NoForeign
  Workers <- OneWorker
  QueueSize = 1
  Confirmations = 1
  Word = 64
  HookFirst <- OneCall
  Faults <- LateFaults
  MaxReorgs = 0
SPECIFICATION FairSpec
PROPERTY EveryCallReturns
PROPERTY LateAnswerCleansUp
CHECK_DEADLOCK FALSE
