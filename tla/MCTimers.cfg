CONSTANTS
  t1 = t1
  t2 = t2
  Body = Body
  None = None
  Gone = Gone
  NoWake = NoWake
  Task <- MCTask
  Timer <- MCTimer
  Invoked = {}
  FrameLimit = 1
  CompactAfter = 1
  MaxDelay = 2
  MaxLate = 3
SPECIFICATION TimersSpec
INVARIANTS WakeArmed FireInDeadlineOrder
PROPERTIES IntervalKeepsPhase TimersFire
CHECK_DEADLOCK FALSE
