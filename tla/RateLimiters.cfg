CONSTANTS
  Counter = {k1}
  Caller = {c1, c2, c3}
  Limit = 2
  Window = 4
  MaxLag = 3
  MaxTime = 8
  MaxAborts = 1
SPECIFICATION LimitersSpec
CHECK_DEADLOCK FALSE
VIEW View
SYMMETRY Symmetry
INVARIANTS
  BucketTypeOK
  BurstBound
  DeniedOnlyOverQuota
  DoubleBurst
  DelayedBurst
  CountersExpire
