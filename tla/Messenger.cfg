\* A message longer and one shorter than the title, in a block that the longest nearly fills.
SPECIFICATION Spec
CONSTANTS
  short = short
  long = long
  title = title
  Messages <- TwoMessages
  Title = title
  Length <- Lengths
  BlockSize = 4
  NULL = NULL
INVARIANTS TypeOK WholeWhenAlone
PROPERTIES Drained
CHECK_DEADLOCK FALSE
