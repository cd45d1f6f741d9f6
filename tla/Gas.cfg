\* Two callers refresh both caches at the same time while the base fee rises
CONSTANTS
  c1 = c1
  c2 = c2
  Callers <- TwoCallers
  TTL <- ShortTTL
  Timeout = 3
  FirstFee = 32768
  Swings <- Rising
  MaxHeight = 9
SPECIFICATION Spec
SYMMETRY Symmetry
INVARIANT TypeOK
INVARIANT AgeBounded
INVARIANT UnderpricedOnlyFromCash
CHECK_DEADLOCK FALSE
