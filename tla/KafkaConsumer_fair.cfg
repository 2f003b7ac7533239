SPECIFICATION FairSpec
CONSTANTS
  Partitions = 3
  MaxMsgs = 2
INVARIANTS
  EndsTogether
PROPERTIES
  InterruptsEnd
CHECK_DEADLOCK FALSE
