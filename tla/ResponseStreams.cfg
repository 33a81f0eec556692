CONSTANTS
  Letters = {"a", "b"}
  Stops <- TwoStops
  Deltas <- SomeDeltas
  Answers <- SomeAnswers
  Labels = {{"id"}, {"index"}, {"id", "index"}}
  Chunks = {1, 2}
  MaxFaults = 1
SPECIFICATION StreamSpec
INVARIANTS
  ShownIsCut
  ClientSeesAll
  StreamMatchesWhole
  OneAccount
CHECK_DEADLOCK FALSE
