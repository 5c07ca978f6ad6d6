SPECIFICATION Spec
CONSTANTS
  p1 = p1
  p2 = p2
  o1 = o1
  o2 = o2
  s1 = s1
  Processes <- MCProcesses
  Outputs <- MCOutputs
  Sources <- MCSources
  SourceOf <- MCSourceOf
  FREE = FREE
SYMMETRY Symmetry
INVARIANTS NothingNeededIsPruned ReportsAreRemembered
PROPERTIES CleanupIsComplete
