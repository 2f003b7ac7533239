SPECIFICATION FairSpec
CONSTANTS
  Calls = {c1}
  OnlyCalls = {}
  Timers = {c1}
  Conns = {k1}
  ErrorCodes = {505}
  MaxSid = 1
  MayDestroy = FALSE
  Nil = Nil
PROPERTY TimedOutCallReturns
CHECK_DEADLOCK FALSE
