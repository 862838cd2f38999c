CONSTANTS
  i1 = i1
  i2 = i2
  r1 = r1
  r2 = r2
  r3 = r3
  r4 = r4
  p = p
  NoSig = NoSig
  Intent = {i1, i2}
  Request = {r1, r2, r3, r4}
  Payload = {p}
  Keyed = {i1, i2}
  PayloadOf <- OnePayload
  TargetOf <- OneTarget
  MaxAttempts = 1
  Faults = {}
  SerialClient = TRUE
SPECIFICATION Spec
SYMMETRY RequestSymmetry
CHECK_DEADLOCK FALSE
INVARIANT AtMostOnce
INVARIANT RecordsMatchChain
INVARIANT RecordedNeverResubmitted
PROPERTY ImplementsTreasury
