CONSTANTS
  Host <- MCHost
  Project <- MCProject
  NoHost = "none"
  Envelopes <- OneMail
  MaxPerProject = 1
  Clock <- MCClock
  Session <- MCSession
  Deaf <- OnlyRefusing
  OutboxMax = 1
  Attempts = 3
  MaxMoves = 1
  MaxFaults = 1

SPECIFICATION FairSpec

INVARIANTS
  TypeOK

PROPERTIES
  KeepsPromise
  ArrivesWhileServed
  HeldComesBack

CHECK_DEADLOCK FALSE
