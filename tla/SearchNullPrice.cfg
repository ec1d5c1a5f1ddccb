SPECIFICATION Spec
CONSTANTS
  Null = Null
  Prices = {10}
  Bounds = {20}
INVARIANT NullPriceExcluded
CHECK_DEADLOCK FALSE
