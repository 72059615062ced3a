CONSTANTS
  r1 = r1
  w1 = w1
  Readers = {r1}
  Writers = {w1}
  MaxBuilds = 1
  Attempts = 3
  FailAt = {"made", "building", "flushed"}
  Starts = {"flat"}
SPECIFICATION Spec
INVARIANT AlwaysServed
