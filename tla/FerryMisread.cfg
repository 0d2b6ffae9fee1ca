CONSTANTS
  Name <- MCName
  LowerOf <- MCLowerOf
  Repositories <- MCRepositories
  CheckoutOf <- MisreadCheckoutOf
  Entries <- WithoutUsers
  NoProject = NoProject
  Notes <- NoteWithoutUser
  Held = {}
  Wedged = {}
  Failures = {}
  PendingMax = 1
  AwaitingMax = 1
  Attempts = 2
  Window = 0
  Cooldown = 1
  MaxPosts = 1
  MaxNotices = 0
  MaxTime = 0
  MaxRestarts = 0

SPECIFICATION Spec

INVARIANTS
  TakenInItsRepository
