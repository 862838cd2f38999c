CONSTANTS
  c1 = c1
  c2 = c2
  Reconciler = Reconciler
  Conn = {c1, c2}
  PoolSize = 2
  MaxRequests = 3
SPECIFICATION ApiSpec
CHECK_DEADLOCK FALSE
INVARIANT SnapshotPointInTime
