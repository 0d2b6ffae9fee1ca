CONSTANTS
  Host <- MCHost
  Project <- MCProject
  NoHost = "none"
  Envelopes <- OneMail
  MaxPerProject = 1
  Clock <- OneInstant
  Session <- OnlyHealthy
  Deaf = {}
  OutboxMax = 3
  Attempts = 3
  MaxMoves = 2
  MaxFaults = 0

SPECIFICATION FairSpec

PROPERTIES
  HeldUntilServed

CHECK_DEADLOCK FALSE
