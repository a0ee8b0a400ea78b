\* Every kind of query.
CONSTANTS
  search = search
  all = all
  photos = photos
  lookup = lookup
  Text = {search, all, photos, lookup}
  Type <- MCType
  NoCriterion = {all}
  Nil = Nil
  Columns = 2
  MaxRows = 3
  MaxExecutions = 2
SPECIFICATION Spec
INVARIANTS
  TypeOK
  AnswersTheText
  BuffersHoldTheRow
  IteratorInResults
PROPERTY
  DeliversTheAnswer
CHECK_DEADLOCK FALSE
