CONSTANTS
  e1 = e1
  r1 = r1
  r2 = r2
  Services = Services
  Body = Body
  None = None
  Gone = Gone
  Task <- MCTask
  Invoked <- MCInvoked
  Raf <- MCRaf
  FrameLimit = 2
  CompactAfter = 1
SPECIFICATION LoopSpec
INVARIANTS ContinuationAwaited NoOverlappingFrames
PROPERTIES IdleMeansQuiet NewCallbacksWait FrameFinishes AcceptedSettles
CHECK_DEADLOCK FALSE
