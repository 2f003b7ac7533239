SPECIFICATION LifeFairSpec
CONSTANTS
  k1 = k1
  k2 = k2
  r1 = r1
  r2 = r2
  r3 = r3
  r4 = r4
  Conns = {k1, k2}
  Requests = {r1, r2, r3, r4}
  ConnOf <- MCConnOf
  OnlyCalls = {r3}
  Garbage = {r4}
  Unknown = {r2}
  Workers = {w1, w2}
  Cap = 2
  Margin = 2
  Nil = Nil
INVARIANTS
  ReadersNeverBlock
  AnsweredOnce
  EveryCallAnswered
  CountersExact
PROPERTIES
  QueuedIsHandled
  WorkersLeave
CHECK_DEADLOCK FALSE
