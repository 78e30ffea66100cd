SPECIFICATION Spec
CONSTANTS
  e1 = e1  e2 = e2  n1 = n1  c1 = c1  user = user
  Execs = {e1, e2}
  Entrants = {n1}
  Checkers = {c1}
  Foreign = {f1}
  Spaces = {user, global}
  Global = global
  Session <- MCSession
  NoJob = NoJob
INVARIANTS AbsentMeansAbsent EntrantFindsSilo OneHolder NoStaleFiles
PROPERTY KeptInNamespace
CHECK_DEADLOCK FALSE
