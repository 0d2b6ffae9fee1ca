CONSTANTS
  Host <- MCHost
  NoHost = "none"
  Message <- OneEach
  Room = 1
  MaxBreaks = 1
  MaxAnnounces = 1

SPECIFICATION FairSpec

INVARIANTS
  TypeOK
  JamsOnlyAtConnect

PROPERTIES
  JamsEnd

CHECK_DEADLOCK FALSE
