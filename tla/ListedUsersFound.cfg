\* A list that begins with an id.
SPECIFICATION Spec
CONSTANTS
  Chars <- ThreeChars
  MaxText = 2
  MaxStr = 8
  Label <- OneLetter
  ChanIds <- Ids
  Garbage = {0, 77}
  Rosters <- Users
  LineOf <- Lines
  NULL = NULL
INVARIANT ListedUsersFound
CHECK_DEADLOCK FALSE
