SPECIFICATION Spec
CONSTANTS
  Slots = {game, kept}
  KeptSlot = kept
  Progress = {p1, p2}
  Blank = blank
  Nothing = Nothing
  Unread = Unread
  MaxGeneration = 7
INVARIANTS BurstIsFresh
PROPERTIES SlotsKeepTheirPromise
CHECK_DEADLOCK FALSE
SYMMETRY ProgressSymmetry
