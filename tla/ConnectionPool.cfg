\* Three transactions, two of them nested and two after one lock, and two statements
\* on a pool of three: the pool can come to a stop.
SPECIFICATION PoolSpec
CONSTANTS
  PoolSize = 3
  Statements = {s1, s2}
  Transactions = {t1, t2, t3}
  Nested = {t1, t2}
  Contending = {t2, t3}
  NoCall = NoCall
CHECK_DEADLOCK FALSE
INVARIANTS
  OnlyNestingStops
PROPERTIES
  EveryCallEnds
