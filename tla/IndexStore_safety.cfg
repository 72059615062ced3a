CONSTANTS
  r1 = r1
  w1 = w1
  w2 = w2
  Readers = {r1}
  Writers = {w1, w2}
  MaxBuilds = 3
  Attempts = 2
  FailAt = {"made", "building", "flushed"}
  Starts = {"empty", "flat", "built"}
SPECIFICATION Spec
SYMMETRY Symmetry
INVARIANTS TypeOK CurrentComplete OpenedComplete NoStaleSnapshot SnapshotIsFresh FailsOnlyOutpaced
PROPERTIES NeverGoesBack
