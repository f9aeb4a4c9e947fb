SPECIFICATION Spec
CONSTANTS
  MaxRuns = 2
  MaxDepth = 1
  MaxRequests = 2
  MaxCalls = 1
  MaxInbox = 1
INVARIANTS
  SessionSerial
  CancelReaches
PROPERTIES
  CancelledStaysOut
  PausedHolds
