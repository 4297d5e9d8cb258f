CONSTANTS
  d1 = d1 d2 = d2 t1 = t1 t2 = t2 t3 = t3 u1 = u1 u2 = u2
  NoJob = NoJob
  Txs = {t1, t2, t3, u1, u2}
  Senders = {d1, d2}
  Sender <- MCSender
  Number <- MCNumber
  Size <- MCSize
  Capacity = 2
  CapBytes = 3
  TTL = 1
  MaxRetry = 2
  RetryCap = 1
  MaxTxs = 2
  MaxBytes = 2
SPECIFICATION Spec
INVARIANTS PoolSound LeavesForGood NextBlockIsAcceptable
PROPERTIES KeyedIsConsidered AdmissionSpec
