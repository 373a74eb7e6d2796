\* Three queries over three ids: every nesting of the calls down to a leaf,
\* ids taken again, queries that fall due together or one after the other.
CONSTANTS
  MaxQueries = 3
  Ids = {i1, i2, i3}
  MaxClock = 1
  None = None
SPECIFICATION FairSpec
INVARIANTS TableConsistent NoUseAfterDelete
PROPERTIES DueIsHandled
