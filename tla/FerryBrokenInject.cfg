CONSTANTS
  Entries <- AskerAndAgent
  NoProject = "none"
  Notes <- OneNote
  Held = {}
  Wedged <- AskerAndAgent
  Failures = {"refuse", "raise"}
  PendingMax = 1
  AwaitingMax = 1
  Attempts = 2
  Window = 0
  Cooldown = 1
  MaxPosts = 1
  MaxNotices = 0
  MaxTime = 0
  MaxRestarts = 0

SPECIFICATION Spec

INVARIANTS
  PendingWasTaken
