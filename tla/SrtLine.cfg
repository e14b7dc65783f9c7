CONSTANTS
  Lines <- MCLines
  TagLength = 4
  FontLength = 4
  DvdLength = 4
  Pieces = 3
SPECIFICATION FairSpec
INVARIANT StyledAsTagged
INVARIANT OnlyMarkupIsHidden
INVARIANT FaultsHaveTheirCause
PROPERTY EndsUnlessNameless
CHECK_DEADLOCK FALSE
