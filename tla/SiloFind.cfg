SPECIFICATION Spec
CONSTANTS
  Procs = {p1, p2}
  Matching = {p1, p2}
  Pids = {1, 2}
  Jobs = {j1, j2}
  Entries = {a}
  Denied = {j2}
  NoJob = NoJob
SYMMETRY ProcSymmetry
CONSTRAINT StillRuns
INVARIANTS
  NothingMissed
  NothingInvented
  OwnLine
CHECK_DEADLOCK FALSE
