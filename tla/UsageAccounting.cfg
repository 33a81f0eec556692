\* Two requests over one bridge, or two captured bodies; two buckets are kept.
CONSTANTS
  m1 = m1
  m2 = m2
  Creates <- TheCreates
  Controls <- TheControls
  Models = {m1, m2}
  FirstModel = m1
  NoModel = NoModel
  Bodies = {b1, b2}
  Proxied = {b1}
  Together <- TheTogether
  b1 = b1
  b2 = b2
  Amounts = {0, 2}
  MaxRequests = 2
  MaxEvents = 2
  Times = {1, 2, 5}
  BucketDuration = 2
  Day = 4
  Retention = 2
  Windows = {2}
  Steps = {2, 4}
SPECIFICATION FairUsageSpec
INVARIANTS
  UsageBooked
  ReportsComplete
PROPERTIES
  BridgeEnds
CHECK_DEADLOCK FALSE
