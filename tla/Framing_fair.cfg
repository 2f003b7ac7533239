SPECIFICATION FairSpec
CONSTANTS
  w1 = w1
  w2 = w2
  w3 = w3
  r1 = r1
  r2 = r2
  Writers = {w1, w2, w3}
  Responses = {r1, r2}
  ResponseOf <- MixedResponse
  Sizes = {3, 4}
  HeaderUnits = 2
  MaxMessage = 3
  Capacity = 2
  MaxFrames = 2
  Deadline = TRUE
INVARIANTS
  NoFalseAlarm
PROPERTIES
  ImplementsChannel
  FrameArrives
  WriteReturns
  CloseNoticed
CHECK_DEADLOCK FALSE
