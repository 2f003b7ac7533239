SPECIFICATION FairSpec
CONSTANTS
  Callers = {c1, c2}
  MaxCalls = 3
  MaxCh = 2
  Margin = 1
  MaxPush = 2
INVARIANTS
  OneLoop
  ChannelBound
PROPERTIES
  ImplementsBox
  CallsEnd
  AcceptedIsReported
CHECK_DEADLOCK FALSE
