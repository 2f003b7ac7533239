SPECIFICATION Spec
CONSTANTS
  Calls = {c1, c2, c3}
  OnlyCalls = {c3}
  Timers = {c1, c2}
  Conns = {k1, k2}
  ErrorCodes = {}
  MaxSid = 3
  MayDestroy = TRUE
  Nil = Nil
SYMMETRY CallConnSymmetry
INVARIANTS
  AnswersUntilDestroy
  PanicOnlyAfterDestroy
  ItemsAccountedFor
  OnlyTimersStrandReaders
  OwnPacketOnly
  DestroyPanicsOnLeftovers
CHECK_DEADLOCK FALSE
