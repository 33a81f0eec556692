\* One request, two credentials, one retry round, one disturbance.
CONSTANTS
  Auths = {a1, a2}
  Creds = {1, 2}
  NoCred = 0
  Models = {m1}
  NoModel = NoModel
  MaxTime = 10
  Deadlines = {1}
  MaxModelExclusions = 1
  MaxEpoch = 20
  Model = m1
  Settings <- SomeSettings
  Cooldown = 2
  Hints = {1}
  Expiring = {a1}
  NoAuth = NoAuth
  MaxDisturbances = 1
SPECIFICATION FairFailoverSpec
INVARIANTS
  SentWithinBudget
  NoReadyAuthLeft
  BlameMatches
PROPERTIES
  RetryAfterServes
  RequestEnds
CHECK_DEADLOCK FALSE
