\* The terminating character of a piece of text.
SPECIFICATION Spec
CONSTANTS
  Rows = 2
  Columns = 2
  Length <- MCLength
  Capacity = 3
INVARIANTS
  TextIsTerminated
