\* Two callers of one or two tokens, up to four ticks of the clock.
SPECIFICATION Spec
CONSTANTS
  Callers = {c1, c2}
  Capacity = 2
  Rate = 1
  Amounts = {1, 2}
  MaxTime = 4
INVARIANTS
  GrantsWithinRate
PROPERTIES
  RefusedOnlyOverRate
