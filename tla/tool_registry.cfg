CONSTANTS
  Procs = {p1, p2}
  Names = {"a", "b"}
  Tools <- SomeTools
  Size = 2
  None = None
SPECIFICATION Spec
INVARIANTS
  TypeOK
  NeverPartial
  TempFilesOwned
PROPERTIES
  ImplementsStore

