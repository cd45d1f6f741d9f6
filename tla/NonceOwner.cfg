\* Faulty sends and a restart: ownership and accounting of nonces
CONSTANTS
  c1 = c1
  c2 = c2
  c3 = c3
  k1 = k1
  k2 = k2
  NoCaller = NoCaller
  Callers <- ThreeCallers
  Keys <- TwoKeys
  Capacity = 2
  Faults <- AllFaults
  MaxCalls = 4
  MaxRestarts = 1
SPECIFICATION Spec
SYMMETRY Symmetry
INVARIANT TypeOK
INVARIANT SingleOwner
INVARIANT GiveBackPossible
INVARIANT NoGap
INVARIANT HeldUpHasReason
INVARIANT NoSelfConflict
PROPERTY DeskSpec
CHECK_DEADLOCK FALSE
