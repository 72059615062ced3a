CONSTANTS
  r1 = r1
  r2 = r2
  w1 = w1
  w2 = w2
  NoThread = NoThread
  Readers = {r1, r2}
  Writers = {w1}
  MaxBuilds = 3
  Attempts = 1
  MaxDepth = 2
  FailAt = {"building"}
  Starts = {"built"}
SPECIFICATION SessionSpec
SYMMETRY Symmetry
INVARIANTS SessionTypeOK CallIsFresh
PROPERTIES OpenedOncePerBuild OneSnapshotPerCall
