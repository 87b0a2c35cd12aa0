CONSTANTS
  c1 = c1
  c2 = c2
  Callers = {c1, c2}
  Listers = {c1}
  PeerLists <- FewLists
  ConfigTTL = 1
  DefaultTTL = 5
  MaxLag = 1
  MaxTime = 3
  None = None
SPECIFICATION ListingSpec
INVARIANTS
  TypeOK
  EmptyIsFresh
  QuietTailnetListedExactly
PROPERTIES
  BoundedAge
  RegressionBounded
CHECK_DEADLOCK FALSE
