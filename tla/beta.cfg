SPECIFICATION BetaSpec
CONSTANTS
  w1 = w1
  owner = owner
  s1 = s1
  r1 = r1
  t1 = t1
  x1 = x1
  p1 = p1
  Absent = Absent
  Business = {b1, b2}
  WalletId = {w1}
  RequestId = {r1}
  TxnId = {t1}
  ExceptionId = {x1}
  Address = {owner}
  Signature = {s1}
  IdemKey = {k1}
  Body <- Bodies
  Evidence <- Transfers
  Caller = {c1}
  MaxTime = 0
  PartnerId = {p1, p2}
  BetaId = {e1, e2}
  PartnerStatus = {"prospect", "active"}
  BetaInput <- Items
  OnboardedGoal = 2
  TransactionGoal = 1
  CommitmentGoal = 1
SYMMETRY Symmetry
INVARIANT
  EvidenceRefersToOwn
PROPERTY
  ReadinessIsLostByUpdatesOnly
