\* Pages of up to five bytes in a buffer of three, four edits.
SPECIFICATION Spec
CONSTANTS
  MAXLINE = 3
  MaxLen = 5
  MaxVersion = 5
INVARIANTS OverrunNeedsEdit BodyOfStatus WholePageSent
CHECK_DEADLOCK FALSE
