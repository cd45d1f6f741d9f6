\* Refusals only: no nonce conflict of the client's own making
CONSTANTS
  c1 = c1
  c2 = c2
  c3 = c3
  k1 = k1
  k2 = k2
  NoCaller = NoCaller
  Callers <- TwoCallers
  Keys <- TwoKeys
  Capacity = 2
  Faults <- Refusals
  MaxCalls = 4
  MaxRestarts = 0
SPECIFICATION FairSpec
INVARIANT CountersCurrent
PROPERTY HeldUpByReturned
CHECK_DEADLOCK FALSE
