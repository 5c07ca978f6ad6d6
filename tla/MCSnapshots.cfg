SPECIFICATION Spec
CONSTANTS
  MaxSessions = 1
  MaxCaptures = 3
  MaxSignals = 0
INVARIANTS
  AwaitedRequestIsKnown
PROPERTIES
  AnswersMatch
  CriticalCauseIsSent
  ChannelReopens
\* The supervisor returns.
CHECK_DEADLOCK FALSE
