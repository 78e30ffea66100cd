SPECIFICATION Spec
CONSTANTS
  Execs = {e1, e2}
  Tops <- MCTops
  Relative <- MCRelative
  InitPaths <- MCInitPaths
  PathEntries <- MCPathEntries
  HostTrees <- MCHostTrees
  Relinks <- MCRelinks
  MaxRelinks = 1
SYMMETRY Symmetry
INVARIANTS
  TypeOK
  StagedStands
  ConflictHasCause
PROPERTIES
  EntriesKept
CHECK_DEADLOCK FALSE
