\* An application that calls the driver itself, in any order, and closes down.
\* No symmetry: it is not sound for liveness.
CONSTANTS
  Env = {e1, e2}
  Dbc = {d1, d2}
  Stmt = {s1, s2}
  Session = {x1, x2}
  Nil = Nil
  Managed = FALSE
SPECIFICATION TearSpec
INVARIANTS
  NoOrphans
  ViewOfSession
PROPERTIES
  EverythingIsFreed
CHECK_DEADLOCK FALSE
