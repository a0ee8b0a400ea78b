\* A lookup table, executed more than once.
CONSTANTS
  search = search
  all = all
  photos = photos
  lookup = lookup
  Text = {lookup}
  Type <- LookupType
  NoCriterion = {}
  Nil = Nil
  Columns = 1
  MaxRows = 2
  MaxExecutions = 3
SPECIFICATION Spec
INVARIANTS
  NoExtraRows
CHECK_DEADLOCK FALSE
