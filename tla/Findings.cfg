SPECIFICATION Spec
CONSTANTS
  Topics = {"disk"}
  Filers = {r1}
  Clicks = {c1}
  Patches <- MCPatches
  FirstTopics <- MCFirstTopics
  MaxRows = 2
  MaxAttempts = 2
  MaxConcurrent = 1
  Window = 1
  MaxNow = 1
  MaxLandings = 1
  MaxCalls = 1
  MaxCrashes = 1
INVARIANTS
  TypeOK
  SessionsBounded
  OneSessionAtATime
PROPERTY
  VisibleAgain
