SPECIFICATION Spec
CONSTANTS
  e1 = e1  e2 = e2  n1 = n1  c1 = c1  user = user
  Execs = {e1, e2}
  Entrants = {}
  Checkers = {}
  Foreign = {}
  Spaces = {user, global}
  Global = global
  Session <- MCSession
  NoJob = NoJob
PROPERTY TempIsPerSilo
CHECK_DEADLOCK FALSE
