\* The policy of llm.rs: 100 ms to 1 s between attempts of at most 4 s, for zero to three of them.
SPECIFICATION NarratorSpec
CONSTANTS
  SCALE = 1
  UsdMax = 100000000
  I64Max = 400
  Flat = Flat
  MAX_PRICE = 1000
  MAX_SIZE = 1000
  Configs <- SomeConfigs
  Timeout = 4000000
  BaseDelay = 100000
  MaxDelay = 1000000
  ResponseTimes = {0, 2500000, 4000000, 60000000}
INVARIANTS
  SourceTruthful
  AttemptsJustified
  AnswersInTime
