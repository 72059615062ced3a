CONSTANTS
  a = a
  b = b
  x = x
  y = y
  Values = {a, b}
  Size <- MCSize
  MinSize = 2
  BlocSize = 2
  BlocBytes = 1
  HeadBytes = 1
  QueueBytes = 1
  MaxBlocs = 2
  MaxBytes = 11
  MaxReadBytes = 8
  BlockSize = 2
  MaxImpacts = 1
  Documents = {1, 2, 3, 4}
  Texts <- MCTexts
  Shards <- MCShards
  MinBuckets = 1
  MaxLoad = 2
  MaxCalls = 3
SPECIFICATION DiskSpec
INVARIANTS TypeOK NoOverlap EmptiesAreGaps LookupsRight Verified BlocksHold ReaderNeverWrong
PROPERTIES RefinesDictionary UpdatesCorpus
CHECK_DEADLOCK FALSE
