SPECIFICATION Spec
CONSTANTS
  RequestLife = 5000
  CacheLife = 30000
  Using <- MCUsing
  Segments <- MCSegments
  Noise = {0, 70, 85}
  Keep = {13, 14, 19, 20, 34, 40, 42}
  MaxWrites = 2
  MaxDamage = 1
  MaxTicks = 1
INVARIANTS TypeOK NothingAltered IntactAccepted OnePeer
CHECK_DEADLOCK FALSE
