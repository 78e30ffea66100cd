SPECIFICATION Spec
CONSTANTS
  Execs = {e1, e2}
  Tops <- MCTops
  Relative <- MCRelative
  InitPaths <- MCInitPaths
  PathEntries <- MCPathEntries
  HostTrees <- MCHostTrees
  Relinks <- MCRelinks
  MaxRelinks = 0
INVARIANTS
  InitOnlyInTree
CHECK_DEADLOCK FALSE
