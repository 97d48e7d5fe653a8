SPECIFICATION Spec
CONSTANTS
  plain = plain
  caller = caller
  k1 = k1
  k2 = k2
  Business = {b1, b2}
  SubId = {plain, caller}
  EventType <- EventTypes
  Wanted <- TypeChoices
  Batch <- Batches
  Secret = {k1, k2}
  SecretOf <- Secrets
  CallsBack = {caller}
  MaxEvents = 2
  MaxAttempts = 2
  MaxCrashes = 1
  NoSecret = NoSecret
  Absent = Absent
INVARIANT
  SignaturesVerify
CHECK_DEADLOCK FALSE
