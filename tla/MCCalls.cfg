\* The records of an environment, its connection, a statement and a descriptor of it;
\* the bindings of two columns, an offset, answers of up to one row.
CONSTANTS
  Handles = {"env", "dbc", "stmt", "desc"}
  ColumnCount = 1
  Sizes <- MCSizes
  Lengths <- MCLengths
  MaxRecords = 2
  Column = {1, 2}
  Target <- MCTarget
  Indicator <- MCIndicator
  Offset <- MCOffset
  ArraySize <- MCArraySize
  MaxRows = 1
SPECIFICATION CallsSpec
INVARIANTS
  FailureIsExplained
  RecordsAreOfTheLastCall
  CutTextIsTold
  BuffersOfThisQuery
  OnlyFreshStatementsCrash
PROPERTIES
  LostRecords
  OffsetOfTheMoment
CHECK_DEADLOCK FALSE
