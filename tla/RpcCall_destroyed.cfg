SPECIFICATION Spec
CONSTANTS
  Calls = {c1}
  OnlyCalls = {}
  Timers = {c1}
  Conns = {k1}
  ErrorCodes = {505}
  MaxSid = 1
  MayDestroy = TRUE
  Nil = Nil
INVARIANT AnswerToOwnRequest
CHECK_DEADLOCK FALSE
