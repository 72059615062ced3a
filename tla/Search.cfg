CONSTANTS
  a = a
  b = b
  NoTask = NoTask
  Calls = {a, b}
  Pools <- MCPools
  Tasks <- MCTasks
  Callers <- MCCallers
  MaxThreads = 3
  MaxParts = 2
  Scenes <- MCScenes
  SliceSpan = 2
  BlockSize = 2
  MaxImpacts = 1
SPECIFICATION FairSpec
INVARIANTS SearchTypeOK TopKExact ThetaReached NothingRunsAfter SomeoneAwake
PROPERTIES SearchesEnd
