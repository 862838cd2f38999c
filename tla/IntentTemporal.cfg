CONSTANTS
  i1 = i1
  i2 = i2
  r1 = r1
  r2 = r2
  r3 = r3
  r4 = r4
  p = p
  NoSig = NoSig
  Intent = {i1}
  Request = {r1, r2, r3}
  Payload = {p}
  Keyed = {i1}
  PayloadOf <- OnePayload
  TargetOf <- OneTarget
  MaxAttempts = 2
  Faults = {}
  SerialClient = FALSE
SPECIFICATION FairSpec
CHECK_DEADLOCK FALSE
INVARIANT AuditTrail
PROPERTY SubmittedResolved
PROPERTY TerminalStaysTerminal
