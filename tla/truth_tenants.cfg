SPECIFICATION Spec
CONSTANTS
  w1 = w1
  w2 = w2
  owner = owner
  token = token
  other = other
  s1 = s1
  s2 = s2
  Absent = Absent
  Business = {b1, b2}
  WalletId = {w1, w2}
  RequestId = {r1, r2, r3, r4}
  TxnId = {t1, t2}
  ExceptionId = {x1, x2}
  Address = {owner, token, other}
  Signature = {s1}
  IdemKey = {k1, k2}
  Body <- TwoWalletBodies
  Evidence <- TwoWalletEvidence
  Caller = {c1}
  MaxTime = 1
SYMMETRY Symmetry
INVARIANTS
  VerdictsAreJust
PROPERTIES
  BusinessIsolation
