\* Every sequence of calls; the state space is finite without a bound.
SPECIFICATION Spec
CONSTANTS
  None = None
  Accounts = {a1, a2, a3}
  Symbols = {m1, m2}
  Positions = {p1, p2}
INVARIANTS
  IndexExact
PROPERTIES
  ImplementsPort
