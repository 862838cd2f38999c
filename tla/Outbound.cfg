CONSTANTS
  MaxRetries = 3
  MaxAttempts = 2
  HttpTimeout = 30
  Interval = 2
  Endpoint = {"e1"}
  EndpointTenant = {"t1"}
  EventType = {"intent.approved", "intent.submitted"}
  AnyType = "*"
  DeliveryTries = 3
  DeliveryTimeout = 10
  MaxEvents = 2
  Absent = Absent
SPECIFICATION OutboundSpec
CHECK_DEADLOCK FALSE
INVARIANT OutboundTypeOK
INVARIANT ReportsAreTrue
INVARIANT TimeBound
PROPERTY ExecutionEnds
INVARIANT DeliveryHonest
INVARIANT DeliveryTimeBound
PROPERTY DeliveryEnds
