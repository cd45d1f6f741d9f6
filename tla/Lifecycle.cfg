\* Two clients in one process, overlapping calls, options at their limits
CONSTANTS
  c1 = c1
  c2 = c2
  k1 = k1
  k2 = k2
  NoClient = NoClient
  Clients <- TwoClients
  Calls <- TwoCalls
  OptionLists <- SomeOptions
  Defaults <- SmallDefaults
  Unit <- SmallUnit
  Limit = 32
  MaxTurns = 4
SPECIFICATION Spec
SYMMETRY Symmetry
INVARIANT TypeOK
INVARIANT DeadlineAhead
INVARIANT TickerPanicHasCulprit
INVARIANT LastClientDecides
INVARIANT StopReachesWorkers
CHECK_DEADLOCK FALSE
