SPECIFICATION WatcherSpec
CONSTANTS
  w1 = w1
  owner = owner
  s1 = s1
  s2 = s2
  s3 = s3
  Absent = Absent
  Business = {b1}
  WalletId = {w1}
  RequestId = {r1}
  TxnId = {t1, t2}
  ExceptionId = {x1, x2}
  Address = {owner}
  Signature = {s1, s2, s3}
  IdemKey = {k1}
  Body <- Bodies
  Evidence <- AllEvidence
  Caller = {c1, c2}
  MaxTime = 1
  Watched = owner
  Operator = b1
  ChainTxn <- Transactions
  Limit = 2
  MaxChain = 2
  MaxFaults = 1
INVARIANTS
  WatcherTypeOK
  EvidenceIsOnChain
PROPERTIES
  PaymentsAreDetected
  PaymentsReachTheirRequest
CHECK_DEADLOCK FALSE
