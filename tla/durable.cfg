SPECIFICATION DurableSpec
CONSTANTS
  w1 = w1
  owner = owner
  token = token
  s1 = s1
  s2 = s2
  Absent = Absent
  Business = {b1}
  WalletId = {w1}
  RequestId = {r1, r2}
  TxnId = {t1, t2}
  ExceptionId = {x1, x2}
  Address = {owner, token}
  Signature = {s1, s2}
  IdemKey = {k1, k2}
  Body <- Bodies
  Evidence <- Transfers
  Caller = {c1}
  MaxTime = 1
SYMMETRY Symmetry
INVARIANTS
  FileTypeOK
  ReadyMeansDurable
  SignatureIndexExact
PROPERTIES
  CrashWhileReadyLosesNothing
