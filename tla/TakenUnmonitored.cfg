CONSTANTS
  MaxRetries = 3
  MaxAttempts = 1
  HttpTimeout = 30
  Interval = 2
SPECIFICATION RpcSpec
CHECK_DEADLOCK FALSE
INVARIANT TakenIsMonitored
