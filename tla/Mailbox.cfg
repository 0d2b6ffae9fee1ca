CONSTANTS
  Host <- MCHost
  Project <- MCProject
  NoHost = "none"
  Envelopes <- MCEnvelopes
  MaxPerProject = 2
  Clock <- MCClock

SPECIFICATION Spec

INVARIANTS
  TypeOK
  CapHolds

PROPERTIES
  PendingUntilSettled
  SweepIsInvisible
  AcksOutliveNothing
