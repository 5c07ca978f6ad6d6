SPECIFICATION Spec
CONSTANTS
  MaxSessions = 3
  MaxCaptures = 1
  MaxSignals = 1
PROPERTIES
  NoWorkerAfterSignal
  SignalEndsSupervisor
\* The supervisor returns.
CHECK_DEADLOCK FALSE
