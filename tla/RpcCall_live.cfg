SPECIFICATION FairSpec
CONSTANTS
  Calls = {c1, c2}
  OnlyCalls = {}
  Timers = {c1}
  Conns = {k1, k2}
  ErrorCodes = {505}
  MaxSid = 2
  MayDestroy = FALSE
  Nil = Nil
PROPERTIES
  ReturnsUnlessStranded
  ReplyReachesCaller
  ContractHolds
CHECK_DEADLOCK FALSE
