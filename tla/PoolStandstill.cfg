\* As many transactions as the pool has clients.
SPECIFICATION PoolSpec
CONSTANTS
  PoolSize = 3
  Statements = {s1}
  Transactions = {t1, t2, t3}
  Nested = {t1, t2}
  Contending = {t2, t3}
  NoCall = NoCall
CHECK_DEADLOCK FALSE
PROPERTIES
  SecondCallGetsTheLock
