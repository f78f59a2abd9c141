\* One client of the engine, one subscriber and one riskAdvice query.
SPECIFICATION ServerSpec
CONSTANTS
  a1 = a1
  m1 = m1
  t1 = t1
  r1 = r1
  q1 = q1
  None = None
  NoFeed = NoFeed
  Flat = Flat
  SCALE = 1
  UsdMax = 1000000000
  I64Max = 400
  MAX_PRICE = 1000
  MAX_SIZE = 1000
  Accounts = {a1}
  Symbols = {m1}
  Tasks = {t1}
  OpenCommands <- OneLong
  MarketUpdates <- Marks
  Seed = 5
  Params <- StandardParams
  StoreMayFail = FALSE
  SinkMayFail = FALSE
  MaxCommands = 4
  Readers = {r1}
  Slots = 2
  Queries = {q1}
INVARIANTS
  LosesOnlyOverwritten
  VerdictOfSomeMark
  AlertsAccountForLosses
PROPERTIES
  SubscriberCatchesUp
