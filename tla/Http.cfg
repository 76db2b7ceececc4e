SPECIFICATION FairSpec
CONSTANTS
  c1 = c1
  c2 = c2
  r1 = r1
  r2 = r2
  r3 = r3
  None = None
  Caller = {c1, c2}
  Request = {r1, r2, r3}
  Closing = {r3}
  KeepAlive = TRUE
  MaxConn = 3
  Workers = 1
  MaxRequest = 3
  Asks <- MCAsks
INVARIANTS PooledIsClean NoMoreThanCallers
PROPERTIES ExchangeSpec EveryCallReturns WorkerReturns
