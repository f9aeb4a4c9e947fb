SPECIFICATION Spec
CONSTANTS
  MaxTurns = 3
  MaxCalls <- TwoThenOne
  MaxToolCalls = 2
INVARIANTS
  RepairHonest
  EndedPaired
  LiveTurnKept
  StartsAgain
PROPERTIES
  TurnFinal
