CONSTANTS
  Name <- MCName
  LowerOf <- MCLowerOf
  Repositories <- MCRepositories
  CheckoutOf <- MCCheckoutOf
  Entries <- MCEntries
  NoProject = NoProject
  Notes <- NoteFromAfar
  Held = {"held_no_host"}
  Wedged <- OnlyAgentsEntry
  Failures = {"refuse"}
  PendingMax = 1
  AwaitingMax = 1
  Attempts = 2
  Window = 0
  Cooldown = 1
  MaxPosts = 1
  MaxNotices = 2
  MaxTime = 1
  MaxRestarts = 0

SPECIFICATION FairSpec

INVARIANTS
  PendingWasTaken
  SpellingsAgree
  NoticesCoalesced
  

PROPERTIES
  RoutesByRepository
  HealthyNotStarved
