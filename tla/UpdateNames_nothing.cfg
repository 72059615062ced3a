CONSTANTS
  a = a
  b = b
  Blank = Blank
  NoName = NoName
  MaxDoc = 1
  Names = {a}
  NameOrder <- OneName
  Contents = {"tokens", "nothing"}
  MaxSegments = 2
  MaxCommits = 2
  MaxChanges = 2
SPECIFICATION Spec
INVARIANT OwnerHasName
