SPECIFICATION Spec
CONSTANTS
  MaxTurns = 1
  MaxCalls <- TwoThenOne
  MaxToolCalls = 2
INVARIANTS
  ExecutedKept
