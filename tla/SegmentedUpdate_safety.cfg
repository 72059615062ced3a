CONSTANTS
  a = a
  b = b
  MaxDoc = 5
  Contents <- MCContents
  MergeFactor = 2
  MaxMergedDocs = 5
  MaxCommits = 2
  MaxChanges = 2
  Builds <- MCBuilds
SPECIFICATION Spec
INVARIANTS
  TypeOK
  LiveInOneSegment
  FrequenciesExact
  AutoIdIsFree
PROPERTIES
  RefinesCorpus
  TiersSettled
  MergesShrink
CHECK_DEADLOCK FALSE
