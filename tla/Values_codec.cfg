SPECIFICATION ValuesSpec
CONSTANTS
  WordBits = 16
  Int32Bits = 8
  Requests <- MCRequests
  Responses <- MCResponses
  Batches <- MCBatches
  NewFields <- MCNewFields
  Reach = 8
  Sizes <- MCSizes
  Damages <- MCDamages
  ParseInt <- MCParseInt
  Elements <- MCElements
  Docs <- MCDocs
  Names <- MCNames
  Paths <- MCPaths
INVARIANTS
  WireIntact
  CutIsNoticed
  RoundTrip
  DamageFound
  SettingOfItsPath
CHECK_DEADLOCK FALSE
