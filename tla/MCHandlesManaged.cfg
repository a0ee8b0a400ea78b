\* Two connections and three statements behind a driver manager; three logins at a time.
CONSTANTS
  Env = {e1}
  Dbc = {d1, d2}
  Stmt = {s1, s2, s3}
  Session = {x1, x2, x3}
  Nil = Nil
  Managed = TRUE
SYMMETRY Symmetry
SPECIFICATION Spec
INVARIANTS
  TypeOK
  ManagerAgrees
  StatementsAreServed
  NeverCrashes
PROPERTIES
  OdbcStates
  ReleasedByLogout
CHECK_DEADLOCK FALSE
