\* One client over the Postgres store; any store call may fail or lose its
\* answer, and the process may stop or crash twice at any point and start again.
SPECIFICATION DurableSpec
CONSTANTS
  a1 = a1
  a2 = a2
  m1 = m1
  m2 = m2
  t1 = t1
  t2 = t2
  None = None
  SCALE = 1
  UsdMax = 100000000
  MAX_PRICE = 1000
  MAX_SIZE = 1000
  Accounts = {a1, a2}
  Symbols = {m1}
  Tasks = {t1}
  OpenCommands <- TwoLongs
  MarketUpdates <- GapMarks
  Seed = 5
  Params <- StandardParams
  StoreMayFail = TRUE
  SinkMayFail = FALSE
  MaxCommands = 6
  MaxRestarts = 2
SYMMETRY AnyAccount
INVARIANTS
  SettledOnce
  FaultLosesAtMostOne
  ChargedOncePerAttempt
PROPERTIES
  SweepRecovers
