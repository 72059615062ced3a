CONSTANTS
  r1 = r1
  r2 = r2
  w1 = w1
  w2 = w2
  NoThread = NoThread
  Readers = {r1, r2}
  Writers = {w1, w2}
  MaxBuilds = 3
  Attempts = 2
  MaxDepth = 1
  FailAt = {"building", "replaced"}
  Starts = {"built"}
SPECIFICATION CastSpec
PROPERTIES CallsAnswered OpensTerminate WaitingWriterRuns
