CONSTANTS
  Pid = {1, 2}
  Client = {"c"}
  Bodies <- MCBodies
  Texts <- MCTexts
  Limit = 3
  MaxBirths = 2

SPECIFICATION FairSpec

INVARIANTS
  TypeOK
  EntryHasKey
  LeftByKill
  HeardAsSaid
  EscapesAreSafe

PROPERTIES
  NotPinned

CHECK_DEADLOCK FALSE
