CONSTANTS
  r1 = r1
  w1 = w1
  Readers = {r1}
  Writers = {w1}
  MaxBuilds = 2
  Attempts = 2
  FailAt = {"made", "building", "flushed", "replaced"}
  Starts = {"built"}
SPECIFICATION Spec
INVARIANT CurrentComplete
