\* client_test.go:142-143: after refused sends the account goes on being served
CONSTANTS
  c1 = c1
  c2 = c2
  c3 = c3
  k1 = k1
  k2 = k2
  NoCaller = NoCaller
  Callers <- TwoCallers
  Keys <- OneKey
  Capacity = 2
  Faults <- Refusals
  MaxCalls = 2
  MaxRestarts = 0
SPECIFICATION FairSpec
PROPERTY AcceptedIsMined
CHECK_DEADLOCK FALSE
