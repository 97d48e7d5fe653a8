SPECIFICATION Spec
CONSTANTS
  w1 = w1
  w2 = w2
  owner = owner
  token = token
  other = other
  s1 = s1
  s2 = s2
  Absent = Absent
  Business = {b1}
  WalletId = {w1}
  RequestId = {r1, r2}
  TxnId = {t1, t2}
  ExceptionId = {x1, x2}
  Address = {owner}
  Signature = {s1, s2}
  IdemKey = {k1, k2}
  Body <- OneWalletBodies
  Evidence <- OneWalletEvidence
  Caller = {c1, c2}
  MaxTime = 2
SYMMETRY Symmetry
PROPERTY
  FinalEvidenceEndsTheWait
