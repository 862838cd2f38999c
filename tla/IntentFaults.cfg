CONSTANTS
  i1 = i1
  i2 = i2
  r1 = r1
  r2 = r2
  r3 = r3
  r4 = r4
  p = p
  NoSig = NoSig
  Intent = {i1}
  Request = {r1, r2, r3}
  Payload = {p}
  Keyed = {i1}
  PayloadOf <- OnePayload
  TargetOf <- OneTarget
  MaxAttempts = 1
  Faults = {"store", "rpc", "crash"}
  SerialClient = FALSE
SPECIFICATION Spec
SYMMETRY RequestSymmetry
CHECK_DEADLOCK FALSE
INVARIANT TypeOK
INVARIANT AuthorizedSubmission
INVARIANT BooksMatchChain
INVARIANT ExpiredNeverSubmitted
