\* Two calls, two credentials, one lock; all attempts are made and two things
\* happen around the calls.  Every call is made once: the system stops when all
\* have returned.
CONSTANTS
  c1 = c1
  c2 = c2
  a1 = a1
  a2 = a2
  Calls = {c1, c2}
  Auths = {a1, a2}
  Asks <- MCAsks
  Disturbances = {"cancel", "disable", "login", "remove", "tear", "crash"}
  Touched = {a1}
  NoCall = NoCall
  MaxAttempts = 2
  MaxIssued = 3
  MaxDisturbances = 2
SPECIFICATION FairRefreshSpec
INVARIANTS
  OneFlight
  NoReplay
  DiskRedeemable
  LeadersRepair
PROPERTY EveryCallReturns
CHECK_DEADLOCK FALSE
