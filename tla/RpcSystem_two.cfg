SPECIFICATION SystemSpec
CONSTANTS
  Calls = {c1, c2}
  OnlyCalls = {c2}
  UnknownCalls = {}
  Timers = {c1}
  Conns = {k1}
  ErrorCodes = {405, 500, 505}
  MaxSid = 2
  MayDestroy = TRUE
  Workers = {w1}
  Cap = 1
  Margin = 1
  Nil = Nil
INVARIANTS
  EndToEnd
  WorthWaiting
PROPERTIES
  SeenByClients
CHECK_DEADLOCK FALSE
