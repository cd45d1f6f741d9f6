\* Coefficients of two digits with up to three decimals, a mantissa of four bits
CONSTANTS
  Amounts <- SmallAmounts
  MaxDecimals = 4
  Exact = 16
  Ulps = {1, 2, 4, 8}
  Digits = 2
SPECIFICATION Spec
INVARIANT CutsTowardsZero
INVARIANT IntegersNearlyExact
CHECK_DEADLOCK FALSE
