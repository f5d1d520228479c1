\* User lists below, at and above the limits of a receive and of the parser.
SPECIFICATION Spec
CONSTANTS
  Chars <- ThreeChars
  MaxText = 2
  MaxStr = 8
  Label <- OneLetter
  ChanIds <- Ids
  Garbage = {0, 77}
  Rosters <- Users
  LineOf <- Lines
  NULL = NULL
INVARIANTS TypeOK RequestArrives AnswerArrives
CHECK_DEADLOCK FALSE
