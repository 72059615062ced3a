CONSTANTS
  a = a
  b = b
  Blank = Blank
  NoName = NoName
  MaxDoc = 2
  Names = {a, b, Blank}
  NameOrder <- TwoNames
  Contents = {"tokens", "nothing"}
  MaxSegments = 2
  MaxCommits = 2
  MaxChanges = 2
SPECIFICATION Spec
INVARIANTS TypeOK NamesUnique HolderFound FreedNames
CHECK_DEADLOCK FALSE
