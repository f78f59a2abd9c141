\* Two sweeps in flight.
SPECIFICATION Spec
CONSTANTS
  a1 = a1
  a2 = a2
  m1 = m1
  m2 = m2
  t1 = t1
  t2 = t2
  None = None
  SCALE = 1
  UsdMax = 100000000
  MAX_PRICE = 1000
  MAX_SIZE = 1000
  Accounts = {a1, a2}
  Symbols = {m1}
  Tasks = {t1, t2}
  OpenCommands <- OneLong
  MarketUpdates <- TwoMarks
  Seed = 5
  Params <- StandardParams
  StoreMayFail = FALSE
  SinkMayFail = FALSE
  MaxCommands = 6
INVARIANTS
  LiquidatedOnce
