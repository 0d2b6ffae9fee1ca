CONSTANTS
  Entries <- AskerAndAgent
  NoProject = "none"
  Notes = {}
  Held = {}
  Wedged <- AskerAndAgent
  Failures = {"refuse", "raise"}
  PendingMax = 2
  AwaitingMax = 1
  Attempts = 2
  Window = 0
  Cooldown = 1
  MaxPosts = 2
  MaxNotices = 0
  MaxTime = 1
  MaxRestarts = 1

SPECIFICATION Spec

INVARIANTS
  TypeOK
  AckedMeansTaken
  AskerComesFirst

PROPERTIES
  OncePerWindow
  PinKept
  CorrelationKept
