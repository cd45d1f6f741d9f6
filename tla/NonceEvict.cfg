\* More keys than cache entries, every fault
CONSTANTS
  c1 = c1
  c2 = c2
  c3 = c3
  k1 = k1
  k2 = k2
  NoCaller = NoCaller
  Callers <- TwoCallers
  Keys <- TwoKeys
  Capacity = 1
  Faults <- AllFaults
  MaxCalls = 4
  MaxRestarts = 0
SPECIFICATION FairSpec
INVARIANT SingleOwner
INVARIANT GiveBackPossible
INVARIANT NoSelfConflict
PROPERTY CallsReturn
PROPERTY DeskSpec
CHECK_DEADLOCK FALSE
