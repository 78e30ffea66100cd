SPECIFICATION FairSpec
CONSTANTS
  e1 = e1  e2 = e2  n1 = n1  v1 = v1  v2 = v2
  Execs = {e1, e2}
  Entrants = {n1}
  Visitors = {v1, v2}
  Killers = {v1}
  MapSteps = 2
  MaxCrashes = 1
  NoJob = NoJob
CONSTRAINT OneParty
INVARIANTS
  TypeOK
  OwnViewComplete
  NeverHostView
  TreeIsHeld
  NoAbandonedProcess
PROPERTIES
  StartsOnce
  ContractKept
  DetachedSurvives
  AttachedReturns
  NameIsFreed
CHECK_DEADLOCK FALSE
