CONSTANTS
  Host <- MCHost
  Project <- MCProject
  NoHost = "none"
  Envelopes <- MCEnvelopes
  MaxPerProject = 1
  Clock <- MCClock
  MaxConns = 2
  MaxRestarts = 1

SPECIFICATION FairSpec

INVARIANTS
  TypeOK
  NoGap
  UpIsRegistered

PROPERTIES
  OwedIsSent
  HeldIsKept
