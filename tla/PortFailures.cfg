\* Two requests in flight, each polled until it returns; any store call or publish may fail or
\* lose its answer.  No symmetry: CommandReturns is temporal.
SPECIFICATION FairSpec
CONSTANTS
  a1 = a1
  a2 = a2
  m1 = m1
  m2 = m2
  t1 = t1
  t2 = t2
  None = None
  SCALE = 1
  UsdMax = 100000000
  MAX_PRICE = 1000
  MAX_SIZE = 1000
  Accounts = {a1, a2}
  Symbols = {m1}
  Tasks = {t1, t2}
  OpenCommands <- TwoLongs
  MarketUpdates <- GapMarks
  Seed = 5
  Params <- StandardParams
  StoreMayFail = TRUE
  SinkMayFail = TRUE
  MaxCommands = 4
INVARIANTS
  WaterfallConserves
  EventsNeverAhead
PROPERTIES
  CommandReturns
