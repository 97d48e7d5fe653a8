SPECIFICATION ReconciliationSpec
CONSTANTS
  w1 = w1
  w2 = w2
  owner = owner
  other = other
  s1 = s1
  s2 = s2
  Absent = Absent
  Business = {b1}
  WalletId = {w1, w2}
  RequestId = {r1}
  TxnId = {t1, t2}
  ExceptionId = {x1, x2}
  Address = {owner, other}
  Signature = {s1, s2}
  IdemKey = {k1}
  Body <- Bodies
  Evidence <- Transfers
  Caller = {c1}
  MaxTime = 1
  RunId = {n1}
  Period <- Periods
  Precision = 3
  MaxExports = 1
SYMMETRY Symmetry
INVARIANTS
  ReportTypeOK
  BooksBalance
  ReconciledIsFinal
  PaymentsStayInPeriod
  ExportsKeepExceptions
  MetricsTellTheBooks
