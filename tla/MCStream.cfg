\* All calls on two rows of two columns, by an application that keeps on reading what it has begun.
SPECIFICATION FairSpec
CONSTANTS
  Rows = 2
  Columns = 2
  Length <- MCLength
  Capacity = 3
INVARIANTS
  TypeOK
  InOrder
  OffsetInValue
  SuccessIsComplete
PROPERTIES
  DeliversInOrder
  ColumnIsFinished
