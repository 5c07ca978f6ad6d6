CONSTANTS
  p = p
  q = q
  x = x
  old = old
  new = new
  Dir = Dir
  Absent = Absent
  Partial = Partial
  Nothing = Nothing
  Moved = Moved
  Component = {p, q, x}
  Path <- MCPath
  Original <- MCOriginal
  Written = {new}
SPECIFICATION Spec
INVARIANTS IndexMatchesDisk NoOrphanStaging
PROPERTIES ImplementsLogicalTree ReturnMeansDone
