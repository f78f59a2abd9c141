\* Two callers, five reported calls, three cooldowns.
SPECIFICATION Spec
CONSTANTS
  None = None
  Callers = {c1, c2}
  failure_threshold = 2
  cooldown = 2
  MaxTime = 6
  MaxCalls = 5
INVARIANTS
  RejectsWhileCooling
