CONSTANTS
  OutboxMax = 3
  MaxOps = 6

SPECIFICATION FairSpec

INVARIANTS
  TypeOK
  InOrder

PROPERTIES
  NothingElseSkipped
  OneSender
  Flushed
