CONSTANTS
  Items = {1, 2, 3}
  Nests = {1, 2}
  Workers = 2
  MaxCopies = 3
SPECIFICATION FairSpec
INVARIANTS TypeOK CopiesAreAccountedFor
PROPERTIES Implements Returns
CHECK_DEADLOCK FALSE
