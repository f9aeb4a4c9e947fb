SPECIFICATION FairSpec
CONSTANTS
  MaxRuns = 2
  MaxDepth = 1
  MaxRequests = 2
  MaxCalls = 1
  MaxInbox = 0
PROPERTIES
  CancelEnds
  PauseSettles
  QueueMoves
