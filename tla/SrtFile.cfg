CONSTANTS
  Capacity = 2
  MaxLines = 5
SPECIFICATION FairFileSpec
INVARIANT EventsAreBlocks
INVARIANT ReturnsWhenAllRead
PROPERTY ReadableFileEnds
CHECK_DEADLOCK FALSE
