SPECIFICATION FairSpec
CONSTANTS
  RequestLife = 5000
  CacheLife = 30000
  Script <- MCScript
  Ticks = {2500, 27500}
  MaxSends = 2
  MaxTicks = 2
  MaxTrouble = 2
INVARIANTS TypeOK ExactlyOnce InOrder LongestPrefixWins MappingsTrue ChecksPass
PROPERTIES RequestSpacing Arrives
CHECK_DEADLOCK FALSE
