SPECIFICATION HealthSpec
CONSTANTS
  a1 = a1
  c1 = c1
  c2 = c2
  m1 = m1
  m2 = m2
  NoCred = NoCred
  NoModel = NoModel
  Auths <- OneAuth
  Creds <- TwoCreds
  Models <- TwoModels
  Deadlines <- TwoDeadlines
  MaxTime = 3
  MaxModelExclusions = 1
  MaxEpoch = 2
INVARIANTS TableMirrorsMemory ExclusionsBounded
PROPERTY KeepsPromise
