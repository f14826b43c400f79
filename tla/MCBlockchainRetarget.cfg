\* The bounds of MCBlockchain.
CONSTANTS
  MEDIAN_TIME_SPAN = 3
  MAX_FUTURE_BLOCK_TIME = 2
  RETARGET_INTERVAL = 3
  TARGET_TIMESPAN = 4
  INITIAL_BITS = 4
  MIN_BITS = 1
  MAX_BITS = 5
  HASH_BITS = 8
  Times = {0, 1, 3, 4, 9, 32}
  MaxHeight = 6
SPECIFICATION Spec
INVARIANT RetargetCapped
