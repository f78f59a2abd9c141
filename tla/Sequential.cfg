\* The node with one request in flight, or walking a scenario; no port failures.
SPECIFICATION RunSpec
CONSTANTS
  a1 = a1
  a2 = a2
  a3 = a3
  a4 = a4
  m1 = m1
  m2 = m2
  t1 = t1
  t2 = t2
  None = None
  SCALE = 10
  UsdMax = 20000000
  MAX_PRICE = 2000
  MAX_SIZE = 1000
  Accounts = {a1, a2, a3, a4}
  Symbols = {m1, m2}
  Tasks = {t1}
  OpenCommands <- EdgeOffers
  MarketUpdates <- EdgeMarks
  Seed = 50
  Params <- StandardParams
  StoreMayFail = FALSE
  SinkMayFail = FALSE
  MaxCommands = 40
  ServeCommands = 6
  AccountName <- FourAccounts
  SimSymbol = m1
  Scenarios <- WalkedScenarios
  Burst = 13
INVARIANTS
  ReplayRebuildsEngine
  LiquidationPriceIsEdge
  ReportAddsUp
  ShortsSurviveFall
  FailureExplained
PROPERTIES
  SweepClearsMarket
  SweepSparesHealthy
  FundingZeroSum
  ImplementsAtomic
