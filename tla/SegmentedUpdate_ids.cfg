CONSTANTS
  a = a
  b = b
  MaxDoc = 1
  Contents <- MCContents
  MergeFactor = 2
  MaxMergedDocs = 0
  MaxCommits = 3
  MaxChanges = 1
  Builds <- EmptyBuild
SPECIFICATION Spec
INVARIANTS AutoIdIsNew
CHECK_DEADLOCK FALSE
