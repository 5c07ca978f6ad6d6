CONSTANTS
  e1 = e1
  e2 = e2
  v1 = v1
  Body = Body
  None = None
  Gone = Gone
  Task <- MCTask
  Invoked <- MCInvoked
  FrameLimit = 2
  CompactAfter = 1
SPECIFICATION Spec
INVARIANTS TypeOK NothingLostOrTwice NoLostWakeup ConsumedSlotsBounded
PROPERTY ImplementsDispatchQueue
CHECK_DEADLOCK FALSE
