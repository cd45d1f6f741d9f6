\* An iterator or a watch of every event, a channel of two
CONSTANTS
  Buffer = 2
  MaxLogs = 3
SPECIFICATION FairSpec
INVARIANT TypeOK
PROPERTY FeedSpec
PROPERTY NextReturns
PROPERTY ClosingReturns
PROPERTY WatchDelivers
CHECK_DEADLOCK FALSE
