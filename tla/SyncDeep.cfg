\* A foreign hash, reverts, failing round trips, blocks taken back; nobody gives up
CONSTANTS
  h1 = h1
  h2 = h2
  f1 = f1
  w1 = w1
  w2 = w2
  NoHash = NoHash
  Calls <- OneCall
  Foreign <- OneForeign
  Workers <- OneWorker
  QueueSize = 1
  Confirmations = 1
  Word = 64
  HookFirst <- NoCalls
  Faults <- SettleFaults
  MaxReorgs = 1
SPECIFICATION FairSpec
INVARIANT ConfirmedIsDeep
INVARIANT OkIsDeepOrExcused
PROPERTY TicketSpec
PROPERTY EverySendSettles
CHECK_DEADLOCK FALSE
