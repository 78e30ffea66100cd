SPECIFICATION Spec
CONSTANTS
  Commands = {c1, c2, c3}
  Choices <- MCChoices
  Devices = {"v1", "v2"}
  Names = {"n1", "n2"}
  Letters <- MCLetters
  NoDevice = "none"
  Worlds <- MCWorlds
  MaxChanges = 1
SYMMETRY Symmetry
INVARIANTS
  ReportIsTrue
  DirectoryStaysDirectory
  PrintedRootIsRoot
CHECK_DEADLOCK FALSE
