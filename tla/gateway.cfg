SPECIFICATION Spec
CONSTANTS
  b1 = b1
  b2 = b2
  k1 = k1
  k2 = k2
  k3 = k3
  i1 = i1
  e1 = e1
  e2 = e2
  h1 = h1
  h2 = h2
  h3 = h3
  a1 = a1
  Absent = Absent
  Exchange = {x1, x2, x3}
  Business = {b1, b2}
  KeyId = {k1, k2, k3}
  IncidentId = {i1}
  Email = {e1, e2}
  Origin = {h1, h2, h3, a1}
  Bearer <- Bearers
  Traffic <- Sent
  Founders <- Snapshot
  DefaultLimit = 2
  Minute = 1
  MaxTime = 1
SYMMETRY Symmetry
CHECK_DEADLOCK FALSE
INVARIANTS
  TypeOK
  RevokedKeysStop
  AuditExplainsTables
  ActorsWereEntitled
  AdmissionsAreBounded
  RefusalsAreEarned
  AccessLogTellsTraffic
